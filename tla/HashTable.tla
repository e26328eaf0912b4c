------------------------------ MODULE HashTable ------------------------------
(***************************************************************************)
(* The hash table of libZaeUtil/hash.c: an array without chains.  Two keys *)
(* with the same index cannot both be stored, so an insertion that         *)
(* collides makes the table grow until everything fits.  The scenes, the   *)
(* argument stacks, the sensors and most of the services' configuration    *)
(* are kept in such tables.                                                *)
(*                                                                         *)
(* A table is [node, count]: node is the array, from index 0, and count    *)
(* the number of items as the code counts them.                            *)
(***************************************************************************)
EXTENDS Naturals, FiniteSets, FiniteSetsExt

CONSTANTS
  NoItem,           \* NULL in node_array
  DefaultHashSize,  \* 7 in the code
  KeyBound          \* keys are below it: 2^32 in the code

Item(k, d) == [key |-> k, data |-> d]
Size(t) == Cardinality(DOMAIN t.node)
Index(k, n) == k % n
Occupied(t) == {i \in DOMAIN t.node : t.node[i] # NoItem}
Items(t) == {t.node[i] : i \in Occupied(t)}
KeysOf(t) == {x.key : x \in Items(t)}

variant_hash_init == [node |-> [i \in 0 .. DefaultHashSize - 1 |-> NoItem], count |-> 0]

-----------------------------------------------------------------------------
\* The sizes.  small_primes, and the residues modulo 30 of the numbers tried
\* above them; is_prime tries divisors of the same shape, from 7.
SmallPrimes == {2, 3, 5, 7, 11, 13, 17, 19, 23, 29}
Wheel == {1, 7, 11, 13, 17, 19, 23, 29}

IsPrime(x) ==
  \A p \in 7 .. x :
    (p \in SmallPrimes \/ p % 30 \in Wheel) /\ p * p <= x => x % p # 0

\* The sizes that next_prime finds.
IsSize(n) == IF n <= 29 THEN n \in SmallPrimes ELSE n % 30 \in Wheel /\ IsPrime(n)

\* At a size above all keys nothing collides: the search for one ends there.
ASSUME HashAssumption ==
  /\ KeyBound \in Nat \ {0} /\ DefaultHashSize \in Nat \ {0}
  /\ \E n \in 2 * KeyBound + 1 .. 4 * KeyBound : IsSize(n)

-----------------------------------------------------------------------------
\* variant_hash_get; NoItem when the key is not there.
Get(t, k) ==
  LET x == t.node[Index(k, Size(t))]
  IN  IF x # NoItem /\ x.key = k THEN x.data ELSE NoItem

\* variant_hash_remove: whatever stands at the index of k goes.
Without(t, k) ==
  LET i == Index(k, Size(t))
  IN  IF t.node[i] = NoItem
        THEN t
        ELSE [node |-> [t.node EXCEPT ![i] = NoItem], count |-> t.count - 1]

\* Mutant: the items are copied without looking at what they fall on.
Fits_Always(S, n) == TRUE

Fits(S, n) == \A x, y \in S : x # y => Index(x.key, n) # Index(y.key, n)

\* variant_hash_for_each passes by at most count items.
Copied(t) ==
  {t.node[i] : i \in {j \in Occupied(t) :
                        Cardinality({h \in Occupied(t) : h < j}) < t.count}}

\* The loop that grows: the next size that is more than twice as large and at which no
\* two items collide.
GrownSize(t) == Min({n \in 2 * Size(t) + 1 .. 4 * KeyBound : IsSize(n) /\ Fits(Copied(t), n)})

Grown(t) ==
  LET n == GrownSize(t)
      at(i) == {x \in Copied(t) : Index(x.key, n) = i}
  IN  [node |-> [i \in 0 .. n - 1 |-> IF at(i) = {} THEN NoItem
                                      ELSE CHOOSE x \in at(i) : TRUE],
       count |-> t.count]

Collides(t, k) ==
  LET x == t.node[Index(k, Size(t))] IN x # NoItem /\ x.key # k

\* The item takes its place, which is free or holds its key: then the old item
\* is removed, and counted off, first.
Stored(t, x) ==
  LET u == Without(t, x.key)
  IN  [node |-> [u.node EXCEPT ![Index(x.key, Size(t))] = x],
       count |-> u.count + 1]

\* variant_hash_insert_data calls itself after a growth, as often as the new item
\* collides.  Each growth makes the table larger, so that KeyBound of them are enough.
Growths(t) ==
  LET grown[n \in 0 .. KeyBound] == IF n = 0 THEN t ELSE Grown(grown[n - 1]) IN grown

Insert(t, k, d) ==
  LET First(n) == ~Collides(Growths(t)[n], k) /\ \A m \in 0 .. n - 1 : Collides(Growths(t)[m], k)
  IN  Stored(Growths(t)[CHOOSE n \in 0 .. KeyBound : First(n)], Item(k, d))

-----------------------------------------------------------------------------
\* Mutant: the item after next is taken.
After_Skips(t, i) == {j \in Occupied(t) : j > i + 1}

\* variant_hash_iterator_next: the indices after i that hold an item; none
\* means that the iterator is at the end.
After(t, i) == {j \in Occupied(t) : j > i}
=============================================================================
