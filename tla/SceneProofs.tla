----------------------------- MODULE SceneProofs -----------------------------
(***************************************************************************)
(* Proofs about the hash table and the scene engine.                       *)
(*                                                                         *)
(* First the table, in which libZaeUtil/hash.c keeps no chains: an         *)
(* insertion grows it until nothing collides.  The facts about Get,        *)
(* Insert and Without make it the map that its clients take it for, and    *)
(* an iteration complete as long as the table does not grow.               *)
(*                                                                         *)
(* Then the scenes.  SceneInv is about the frames of the functions that    *)
(* are active, at once: what each stands on and has stored, the stacks of  *)
(* arguments that those above it claim, where the iterator of a handler    *)
(* is and which scenes it has executed.  A frame changes when it is on     *)
(* top only, but arguments, scenes and the table change under the others:  *)
(* for each of these changes a lemma says what it must leave alone.        *)
(***************************************************************************)
EXTENDS Scenes, HashUse, FiniteSetTheorems, SequenceTheorems, WellFoundedInduction, TLAPS

-----------------------------------------------------------------------------
\* The least of a set of numbers.
LEMMA LeastNat ==
  ASSUME NEW S \in SUBSET Nat, S # {}
  PROVE  Min(S) \in S /\ \A m \in S : Min(S) <= m
<1> DEFINE R == {ss \in Nat \X Nat : ss[1] < ss[2]}
<1>1. IsWellFoundedOn(R, Nat)
  BY NatLessThanWellFounded DEF OpToRel
<1>2. PICK x \in S : \A y \in S : ~(<<y, x>> \in R)
  <2> HIDE DEF R
  <2> QED
    BY <1>1, WFMin
<1>3. ASSUME NEW m \in S PROVE x <= m
  <2>1. <<m, x>> \in Nat \X Nat /\ <<m, x>>[1] = m /\ <<m, x>>[2] = x
    OBVIOUS
  <2>2. ~(m < x)
    BY <1>2, <2>1
  <2> QED
    BY <2>2
<1> QED
  BY <1>3 DEF Min

-----------------------------------------------------------------------------
\* The hash table. D is what is stored.
TableItems(D) == [key : 0 .. KeyBound - 1, data : D]
Arrays(D) == UNION {[0 .. n - 1 -> {NoItem} \cup TableItems(D)] : n \in Nat \ {0}}
Tables(D) == [node : Arrays(D), count : Nat]

\* Every item is at the index of its key, and the code counts them right.
Sound(t, D) ==
  /\ t \in Tables(D) /\ NoItem \notin TableItems(D)
  /\ \A i \in Occupied(t) : Index(t.node[i].key, Size(t)) = i
  /\ t.count = Cardinality(Items(t))

\* The size of a table is that of its array.
LEMMA SizeIs ==
  ASSUME NEW D, NEW t \in Tables(D)
  PROVE  /\ Size(t) \in Nat \ {0}
         /\ t.node \in [0 .. Size(t) - 1 -> {NoItem} \cup TableItems(D)]
<1>1. PICK n \in Nat \ {0} : t.node \in [0 .. n - 1 -> {NoItem} \cup TableItems(D)]
  BY DEF Tables, Arrays
<1>2. Cardinality(0 .. n - 1) = n
  BY FS_Interval
<1> QED
  BY <1>1, <1>2 DEF Size

\* The index of a key is in the array; a key below the size is its own index.
LEMMA IndexIn ==
  ASSUME NEW n \in Nat \ {0}, NEW k \in Nat
  PROVE  Index(k, n) \in 0 .. n - 1 /\ (k < n => Index(k, n) = k)
  BY DEF Index

\* The items of a table are finitely many, each at the index of its key only.
LEMMA ItemsPlaced ==
  ASSUME NEW D, NEW t, Sound(t, D)
  PROVE  /\ Items(t) \subseteq TableItems(D) /\ IsFiniteSet(Items(t))
         /\ \A x \in Items(t) : /\ Index(x.key, Size(t)) \in Occupied(t)
                                /\ t.node[Index(x.key, Size(t))] = x
         /\ \A x, y \in Items(t) : Index(x.key, Size(t)) = Index(y.key, Size(t)) => x = y
<1> DEFINE f == [i \in Occupied(t) |-> t.node[i]]
<1>1. Size(t) \in Nat \ {0} /\ t.node \in [0 .. Size(t) - 1 -> {NoItem} \cup TableItems(D)]
  BY SizeIs DEF Sound
<1>2. Items(t) \subseteq TableItems(D)
  BY <1>1 DEF Items, Occupied
<1>3. \A x \in Items(t) : /\ Index(x.key, Size(t)) \in Occupied(t)
                          /\ t.node[Index(x.key, Size(t))] = x
  BY DEF Items, Occupied, Sound
<1>4. IsFiniteSet(Occupied(t))
  <2>1. IsFiniteSet(0 .. Size(t) - 1)
    BY <1>1, FS_Interval
  <2>2. Occupied(t) \in SUBSET (0 .. Size(t) - 1)
    BY <1>1 DEF Occupied
  <2> QED
    BY <2>1, <2>2, FS_Subset
<1>5. f \in Surjection(Occupied(t), Items(t))
  BY DEF Surjection, Items
<1>6. IsFiniteSet(Items(t))
  BY <1>4, <1>5, FS_Surjection
<1> QED
  BY <1>2, <1>3, <1>6

\* What a look-up returns is what an item of the key holds, or nothing.
LEMMA Found ==
  ASSUME NEW D, NEW t, Sound(t, D), NEW k \in 0 .. KeyBound - 1
  PROVE  /\ \A x \in Items(t) : x.key = k => Get(t, k) = x.data
         /\ (\A x \in Items(t) : x.key # k) => Get(t, k) = NoItem
         /\ Get(t, k) # NoItem => \E x \in Items(t) : x.key = k /\ x.data = Get(t, k)
<1>1. \A x \in Items(t) : x # NoItem /\ t.node[Index(x.key, Size(t))] = x
  BY ItemsPlaced DEF Sound
<1>2. Size(t) \in Nat \ {0} /\ t.node \in [0 .. Size(t) - 1 -> {NoItem} \cup TableItems(D)]
  BY SizeIs DEF Sound
<1>3. k \in Nat
  OBVIOUS
<1>4. Index(k, Size(t)) \in DOMAIN t.node
  BY <1>2, <1>3, IndexIn
<1>5. t.node[Index(k, Size(t))] # NoItem => t.node[Index(k, Size(t))] \in Items(t)
  BY <1>4 DEF Items, Occupied
<1> QED
  BY <1>1, <1>5 DEF Get

\* What a removal leaves: all but what stands at the index of the key.
LEMMA Removed ==
  ASSUME NEW D, NEW t, Sound(t, D), NEW k \in 0 .. KeyBound - 1
  PROVE  /\ Sound(Without(t, k), D)
         /\ Size(Without(t, k)) = Size(t)
         /\ Items(Without(t, k)) = {x \in Items(t) : Index(x.key, Size(t)) # Index(k, Size(t))}
         /\ Without(t, k).node[Index(k, Size(t))] = NoItem
<1> DEFINE i == Index(k, Size(t))
           u == Without(t, k)
<1>1. Size(t) \in Nat \ {0} /\ t.node \in [0 .. Size(t) - 1 -> {NoItem} \cup TableItems(D)]
  BY SizeIs DEF Sound
<1>2. i \in 0 .. Size(t) - 1
  BY <1>1, IndexIn
<1>3. CASE t.node[i] = NoItem
  <2>1. u = t
    BY <1>3 DEF Without
  <2>2. \A x \in Items(t) : Index(x.key, Size(t)) # i
    BY <1>3, ItemsPlaced DEF Occupied
  <2> QED
    BY <1>3, <2>1, <2>2
<1>4. CASE t.node[i] # NoItem
  <2> DEFINE y == t.node[i]
  <2>1. u = [node |-> [t.node EXCEPT ![i] = NoItem], count |-> t.count - 1]
    BY <1>4 DEF Without
  <2>2. u.node = [t.node EXCEPT ![i] = NoItem] /\ u.count = t.count - 1
    BY <2>1
  <2>3. u.node \in [0 .. Size(t) - 1 -> {NoItem} \cup TableItems(D)] /\ DOMAIN u.node = DOMAIN t.node
    BY <1>1, <1>2, <2>2
  <2>4. Size(u) = Size(t)
    BY <2>3 DEF Size
  <2>5. Occupied(u) = Occupied(t) \ {i} /\ \A j \in Occupied(u) : u.node[j] = t.node[j]
    BY <1>1, <1>2, <2>2, <2>3 DEF Occupied
  <2>6. y \in Items(t) /\ Index(y.key, Size(t)) = i
    BY <1>1, <1>2, <1>4 DEF Items, Occupied, Sound
  <2>7. Items(u) = Items(t) \ {y}
    <3>1. \A j \in Occupied(u) : t.node[j] # y
      BY <2>5, <2>6 DEF Sound
    <3> QED
      BY <2>5, <2>6, <3>1 DEF Items
  <2>8. Items(t) \ {y} = {x \in Items(t) : Index(x.key, Size(t)) # i}
    BY <2>6, ItemsPlaced
  <2>9. Cardinality(Items(u)) = Cardinality(Items(t)) - 1 /\ Cardinality(Items(u)) \in Nat
    BY <2>6, <2>7, ItemsPlaced, FS_RemoveElement, FS_CardinalityType
  <2>10. u \in Tables(D)
    BY <1>1, <2>1, <2>2, <2>3, <2>9 DEF Sound, Tables, Arrays
  <2>11. Sound(u, D)
    BY <2>2, <2>4, <2>5, <2>9, <2>10 DEF Sound
  <2> QED
    BY <1>1, <1>2, <2>2, <2>4, <2>7, <2>8, <2>11
<1> QED
  BY <1>3, <1>4

\* What is stored: the new item, in the place of the one of its key.
LEMMA StoredSound ==
  ASSUME NEW D, NEW t, Sound(t, D), NEW k \in 0 .. KeyBound - 1, NEW d \in D, ~Collides(t, k)
  PROVE  /\ Sound(Stored(t, Item(k, d)), D)
         /\ Size(Stored(t, Item(k, d))) = Size(t)
         /\ Items(Stored(t, Item(k, d))) = {x \in Items(t) : x.key # k} \cup {Item(k, d)}
<1> DEFINE i == Index(k, Size(t))
           u == Without(t, k)
           y == Item(k, d)
           v == Stored(t, y)
<1>1. y \in TableItems(D) /\ y.key = k /\ y # NoItem
  BY DEF Item, TableItems, Sound
<1>2. Size(t) \in Nat \ {0} /\ Sound(u, D) /\ Size(u) = Size(t)
  BY Removed, SizeIs DEF Sound
<1>3. u.node \in [0 .. Size(t) - 1 -> {NoItem} \cup TableItems(D)] /\ u.node[i] = NoItem
  BY <1>2, Removed, SizeIs DEF Sound
<1>4. i \in 0 .. Size(t) - 1
  BY <1>2, IndexIn
<1>5. v = [node |-> [u.node EXCEPT ![i] = y], count |-> u.count + 1]
  BY <1>1 DEF Stored
<1>6. v.node = [u.node EXCEPT ![i] = y] /\ v.count = u.count + 1
  BY <1>5
<1>7. v.node \in [0 .. Size(t) - 1 -> {NoItem} \cup TableItems(D)] /\ DOMAIN v.node = DOMAIN u.node
  BY <1>1, <1>3, <1>4, <1>6
<1>8. Size(v) = Size(t)
  BY <1>2, <1>7 DEF Size
<1>9. /\ Occupied(v) = Occupied(u) \cup {i} /\ i \notin Occupied(u) /\ v.node[i] = y
      /\ \A j \in Occupied(u) : v.node[j] = u.node[j]
  BY <1>1, <1>3, <1>4, <1>6, <1>7 DEF Occupied
<1>10. Items(v) = Items(u) \cup {y}
  BY <1>9 DEF Items
<1>11. Items(u) = {x \in Items(t) : x.key # k}
  <2>1. Items(u) = {x \in Items(t) : Index(x.key, Size(t)) # i}
    BY Removed
  <2>2. ASSUME NEW x \in Items(t), Index(x.key, Size(t)) = i PROVE x.key = k
    <3>1. t.node[i] = x /\ x # NoItem
      BY <2>2, ItemsPlaced DEF Sound
    <3> QED
      BY <3>1 DEF Collides
  <2> QED
    BY <2>1, <2>2
<1>12. y \notin Items(u)
  BY <1>1, <1>11
<1>13. /\ Cardinality(Items(v)) = Cardinality(Items(u)) + 1 /\ Cardinality(Items(v)) \in Nat
       /\ v.count = Cardinality(Items(v))
  <2>1. IsFiniteSet(Items(u)) /\ u.count = Cardinality(Items(u)) /\ u.count \in Nat
    BY <1>2, ItemsPlaced DEF Sound, Tables
  <2>2. Cardinality(Items(u) \cup {y}) = Cardinality(Items(u)) + 1
    BY <1>12, <2>1, FS_AddElement
  <2> QED
    BY <1>6, <1>10, <2>1, <2>2
<1>14. v \in Tables(D)
  BY <1>2, <1>5, <1>6, <1>7, <1>13 DEF Tables, Arrays
<1>15. \A j \in Occupied(v) : Index(v.node[j].key, Size(v)) = j
  BY <1>1, <1>2, <1>8, <1>9 DEF Sound
<1>16. Sound(v, D)
  BY <1>13, <1>14, <1>15 DEF Sound
<1> QED
  BY <1>8, <1>10, <1>11, <1>16

-----------------------------------------------------------------------------
\* A growth copies every item.
LEMMA CopiedAll ==
  ASSUME NEW D, NEW t, Sound(t, D)
  PROVE  Copied(t) = Items(t)
<1> DEFINE f == [x \in Items(t) |-> Index(x.key, Size(t))]
<1>1. Size(t) \in Nat \ {0} /\ t.node \in [0 .. Size(t) - 1 -> {NoItem} \cup TableItems(D)]
  BY SizeIs DEF Sound
<1>2. f \in Surjection(Items(t), Occupied(t))
  <2>1. f \in [Items(t) -> Occupied(t)]
    BY ItemsPlaced
  <2>2. ASSUME NEW i \in Occupied(t) PROVE t.node[i] \in Items(t) /\ f[t.node[i]] = i
    BY DEF Sound, Items
  <2> QED
    BY <2>1, <2>2 DEF Surjection
<1>3. IsFiniteSet(Occupied(t)) /\ Cardinality(Occupied(t)) <= t.count
  BY <1>2, ItemsPlaced, FS_Surjection DEF Sound
<1>4. ASSUME NEW j \in Occupied(t)
      PROVE  Cardinality({h \in Occupied(t) : h < j}) < t.count
  <2> DEFINE S == {h \in Occupied(t) : h < j}
  <2>1. j \notin S /\ S \in SUBSET Occupied(t)
    BY <1>1 DEF Occupied
  <2>2. IsFiniteSet(S) /\ Cardinality(S) <= Cardinality(Occupied(t))
        /\ (Cardinality(Occupied(t)) = Cardinality(S) => Occupied(t) = S)
    <3> HIDE DEF S
    <3> QED
      BY <1>3, <2>1, FS_Subset
  <2>3. Cardinality(S) \in Nat /\ Cardinality(Occupied(t)) \in Nat /\ t.count \in Nat
    BY <1>3, <2>2, FS_CardinalityType DEF Sound, Tables
  <2>4. Occupied(t) # S
    BY <2>1
  <2> HIDE DEF S
  <2> QED
    BY <1>3, <2>2, <2>3, <2>4 DEF S
<1> QED
  BY <1>4 DEF Copied, Items

\* The search for a size ends.
LEMMA SizeFound ==
  ASSUME NEW D, NEW t, Sound(t, D), Size(t) < KeyBound
  PROVE  /\ GrownSize(t) \in Nat \ {0} /\ GrownSize(t) > Size(t)
         /\ Fits(Items(t), GrownSize(t))
<1> DEFINE S == {n \in 2 * Size(t) + 1 .. 4 * KeyBound : IsSize(n) /\ Fits(Copied(t), n)}
<1>1. Size(t) \in Nat \ {0} /\ KeyBound \in Nat \ {0}
  BY SizeIs, HashAssumption DEF Sound
<1>2. PICK n \in 2 * KeyBound + 1 .. 4 * KeyBound : IsSize(n)
  BY HashAssumption
<1>3. n \in Nat \ {0} /\ n > KeyBound /\ n \in 2 * Size(t) + 1 .. 4 * KeyBound
  BY <1>1, <1>2
<1>4. ASSUME NEW x \in Items(t), NEW y \in Items(t), x # y PROVE Index(x.key, n) # Index(y.key, n)
  <2>1. /\ x \in TableItems(D) /\ y \in TableItems(D)
        /\ Index(x.key, Size(t)) # Index(y.key, Size(t))
    BY <1>4, ItemsPlaced
  <2>2. x.key \in 0 .. KeyBound - 1 /\ y.key \in 0 .. KeyBound - 1 /\ x.key # y.key
    BY <2>1 DEF TableItems
  <2>3. x.key \in Nat /\ y.key \in Nat /\ x.key < n /\ y.key < n
    BY <1>1, <1>3, <2>2
  <2> QED
    BY <1>3, <2>2, <2>3, IndexIn
<1>5. Fits(Copied(t), n)
  BY <1>4, CopiedAll DEF Fits
<1>6. n \in S
  BY <1>2, <1>3, <1>5
<1>7. S \in SUBSET Nat
  BY <1>1
<1>8. Min(S) \in S
  BY ONLY <1>6, <1>7, LeastNat
<1>9. GrownSize(t) = Min(S)
  BY DEF GrownSize
<1>10. GrownSize(t) \in 2 * Size(t) + 1 .. 4 * KeyBound /\ Fits(Copied(t), GrownSize(t))
  BY <1>8, <1>9
<1> QED
  BY <1>1, <1>10, CopiedAll

\* A growth keeps the items, in a larger array.
LEMMA GrownSound ==
  ASSUME NEW D, NEW t, Sound(t, D), Size(t) < KeyBound
  PROVE  Sound(Grown(t), D) /\ Items(Grown(t)) = Items(t) /\ Size(Grown(t)) > Size(t)
<1> DEFINE n == GrownSize(t)
           at(i) == {x \in Copied(t) : Index(x.key, n) = i}
           u == Grown(t)
<1>1. n \in Nat \ {0} /\ n > Size(t) /\ Fits(Items(t), n)
  BY SizeFound
<1>2. u = [node |-> [i \in 0 .. n - 1 |-> IF at(i) = {} THEN NoItem ELSE CHOOSE x \in at(i) : TRUE],
           count |-> t.count]
  BY DEF Grown
<1>3. /\ DOMAIN u.node = 0 .. n - 1 /\ u.count = t.count
      /\ \A i \in 0 .. n - 1 :
           u.node[i] = IF at(i) = {} THEN NoItem ELSE CHOOSE x \in at(i) : TRUE
  BY <1>2
<1>4. Items(t) \subseteq TableItems(D) /\ NoItem \notin TableItems(D)
  BY ItemsPlaced DEF Sound
<1>5. ASSUME NEW i \in 0 .. n - 1
      PROVE  /\ u.node[i] = NoItem \/ u.node[i] \in at(i)
             /\ u.node[i] = NoItem => at(i) = {}
             /\ u.node[i] \in {NoItem} \cup TableItems(D)
  <2>1. at(i) # {} => (CHOOSE x \in at(i) : TRUE) \in at(i)
    OBVIOUS
  <2>2. at(i) \subseteq Items(t)
    BY CopiedAll
  <2> HIDE DEF at
  <2> QED
    BY <1>3, <1>4, <2>1, <2>2
<1>6. u.node = [i \in 0 .. n - 1 |-> u.node[i]] /\ u = [node |-> u.node, count |-> t.count]
  BY <1>2
<1>7. u.node \in [0 .. n - 1 -> {NoItem} \cup TableItems(D)]
  BY <1>5, <1>6
<1>8. u \in Tables(D)
  BY <1>1, <1>6, <1>7 DEF Tables, Arrays, Sound
<1>9. Size(u) = n
  <2>1. Cardinality(0 .. n - 1) = n
    BY <1>1, FS_Interval
  <2> QED
    BY <1>3, <2>1 DEF Size
<1>10. \A i \in Occupied(u) : u.node[i] \in Items(t) /\ Index(u.node[i].key, n) = i
  BY <1>3, <1>5, CopiedAll DEF Occupied
<1>11. ASSUME NEW x \in Items(t) PROVE x \in Items(u)
  <2> DEFINE i == Index(x.key, n)
  <2>1. x.key \in Nat
    BY <1>4 DEF TableItems
  <2>2. i \in 0 .. n - 1
    BY <1>1, <2>1, IndexIn
  <2>3. x \in at(i)
    BY CopiedAll
  <2>4. u.node[i] \in at(i)
    BY <1>5, <2>2, <2>3
  <2>5. u.node[i] = x
    BY <1>1, <2>4, CopiedAll DEF Fits
  <2> QED
    BY <1>3, <1>4, <2>2, <2>5 DEF Items, Occupied
<1>12. Items(u) = Items(t)
  BY <1>10, <1>11 DEF Items
<1>13. Sound(u, D)
  BY <1>3, <1>8, <1>9, <1>10, <1>12 DEF Sound
<1> QED
  BY <1>1, <1>9, <1>12, <1>13

\* The growths of an insertion are a function.
LEMMA GrowthsAre ==
  ASSUME NEW t
  PROVE  Growths(t) = [n \in 0 .. KeyBound |-> IF n = 0 THEN t ELSE Grown(Growths(t)[n - 1])]
<1> DEFINE Is(g, m) == g = [n \in 0 .. m |-> IF n = 0 THEN t ELSE Grown(g[n - 1])]
           Bad == {m \in Nat : ~\E g : Is(g, m)}
<1>1. Bad = {}
  <2> SUFFICES ASSUME Bad # {} PROVE FALSE
    OBVIOUS
  <2> DEFINE m == Min(Bad)
  <2>1. m \in Bad /\ \A l \in Bad : m <= l
    <3>1. Bad \in SUBSET Nat
      OBVIOUS
    <3> HIDE DEF Bad
    <3> QED
      BY <3>1, LeastNat
  <2>2. Is([n \in 0 .. 0 |-> t], 0)
    OBVIOUS
  <2>3. m \in Nat \ {0} /\ m - 1 \in Nat
    <3> HIDE DEF m, Is
    <3> QED
      BY <2>1, <2>2
  <2>4. PICK g : Is(g, m - 1)
    <3> HIDE DEF m, Is
    <3> QED
      BY <2>1, <2>3
  <2> HIDE DEF m
  <2> DEFINE h == [n \in 0 .. m |-> IF n = m THEN Grown(g[m - 1]) ELSE g[n]]
  <2>5. ASSUME NEW n \in 0 .. m PROVE h[n] = IF n = 0 THEN t ELSE Grown(h[n - 1])
    <3>1. n # 0 => n - 1 \in 0 .. m /\ n - 1 # m /\ n - 1 \in 0 .. m - 1
      BY <2>3
    <3>2. n # m => n \in 0 .. m - 1 /\ g[n] = IF n = 0 THEN t ELSE Grown(g[n - 1])
      BY <2>3, <2>4
    <3> QED
      BY <2>3, <3>1, <3>2
  <2>6. Is(h, m)
    BY <2>5
  <2> QED
    BY <2>1, <2>6
<1>2. PICK g : Is(g, KeyBound)
  BY <1>1, HashAssumption
<1>3. Growths(t) = CHOOSE h : Is(h, KeyBound)
  BY DEF Growths
<1>4. Is(Growths(t), KeyBound)
  <2> HIDE DEF Is
  <2> QED
    BY <1>2, <1>3
<1> QED
  BY <1>4

\* At a size above all keys nothing collides.
LEMMA LargeEnough ==
  ASSUME NEW D, NEW t, Sound(t, D), NEW k \in 0 .. KeyBound - 1, Collides(t, k)
  PROVE  Size(t) < KeyBound
<1> DEFINE x == t.node[Index(k, Size(t))]
<1>1. Size(t) \in Nat \ {0} /\ t.node \in [0 .. Size(t) - 1 -> {NoItem} \cup TableItems(D)]
      /\ KeyBound \in Nat
  BY SizeIs, HashAssumption DEF Sound
<1>2. Index(k, Size(t)) \in 0 .. Size(t) - 1
  BY <1>1, IndexIn
<1>3. x # NoItem /\ x.key # k
  BY DEF Collides
<1>4. x \in TableItems(D) /\ Index(k, Size(t)) \in Occupied(t)
  BY <1>1, <1>2, <1>3 DEF Occupied
<1>5. Index(x.key, Size(t)) = Index(k, Size(t)) /\ x.key \in 0 .. KeyBound - 1
  BY <1>4 DEF Sound, TableItems
<1>6. Size(t) >= KeyBound => Index(x.key, Size(t)) = x.key /\ Index(k, Size(t)) = k
  <2>1. ASSUME Size(t) >= KeyBound PROVE x.key \in Nat /\ x.key < Size(t) /\ k \in Nat /\ k < Size(t)
    BY <1>1, <1>5, <2>1
  <2> QED
    BY <1>1, <2>1, IndexIn
<1> QED
  BY <1>1, <1>3, <1>5, <1>6

\* Each growth keeps the items and makes the table larger.
LEMMA GrowthsSound ==
  ASSUME NEW D, NEW t, Sound(t, D), NEW k \in 0 .. KeyBound - 1, NEW n \in 0 .. KeyBound,
         \A m \in 0 .. n - 1 : Collides(Growths(t)[m], k)
  PROVE  /\ Sound(Growths(t)[n], D) /\ Items(Growths(t)[n]) = Items(t)
         /\ Size(Growths(t)[n]) >= Size(t) + n
<1> DEFINE G == Growths(t)
           Right(m) == Sound(G[m], D) /\ Items(G[m]) = Items(t) /\ Size(G[m]) >= Size(t) + m
           Bad == {m \in 0 .. n : ~Right(m)}
<1>1. Size(t) \in Nat \ {0} /\ KeyBound \in Nat /\ n \in Nat
  BY SizeIs, HashAssumption DEF Sound
<1>2. \A m \in 0 .. KeyBound : G[m] = IF m = 0 THEN t ELSE Grown(G[m - 1])
  <2> HIDE DEF G
  <2>1. G = [m \in 0 .. KeyBound |-> IF m = 0 THEN t ELSE Grown(G[m - 1])]
    BY GrowthsAre DEF G
  <2> QED
    BY <2>1
<1> HIDE DEF G
<1>3. Bad = {}
  <2> SUFFICES ASSUME Bad # {} PROVE FALSE
    OBVIOUS
  <2> DEFINE m == Min(Bad)
  <2>1. m \in Bad /\ \A l \in Bad : m <= l
    <3>1. Bad \in SUBSET Nat
      BY <1>1
    <3> HIDE DEF Bad
    <3> QED
      BY <3>1, LeastNat
  <2> HIDE DEF m
  <2>2. m # 0
    BY <1>1, <1>2, <2>1
  <2>3. m - 1 \in 0 .. n - 1 /\ m - 1 \in 0 .. n /\ m \in 0 .. KeyBound /\ m - 1 \in 0 .. KeyBound /\ m \in Nat
    BY <1>1, <2>1, <2>2
  <2>4. Right(m - 1) /\ Collides(G[m - 1], k)
    <3> HIDE DEF Right
    <3> QED
      BY <1>1, <2>1, <2>3 DEF G
  <2>5. Size(G[m - 1]) \in Nat /\ Size(G[m - 1]) < KeyBound
    BY <2>4, LargeEnough, SizeIs DEF Sound
  <2>6. G[m] = Grown(G[m - 1])
    BY <1>2, <2>2, <2>3
  <2>7. /\ Sound(G[m], D) /\ Items(G[m]) = Items(t) /\ Size(G[m]) > Size(G[m - 1])
    BY <2>4, <2>5, <2>6, GrownSound
  <2>8. Size(G[m]) \in Nat
    BY <2>7, SizeIs DEF Sound
  <2>9. Size(G[m]) >= Size(t) + m
    BY <1>1, <2>3, <2>4, <2>5, <2>7, <2>8
  <2>10. Right(m)
    BY <2>7, <2>9
  <2> QED
    BY <2>1, <2>10
<1> QED
  BY <1>1, <1>3 DEF G

\* An insertion stores the item, in the place of the one of its key, among those that
\* were there; a table that keeps its size keeps every item where it is.
LEMMA InsertSound ==
  ASSUME NEW D, NEW t, Sound(t, D), NEW k \in 0 .. KeyBound - 1, NEW d \in D
  PROVE  /\ Sound(Insert(t, k, d), D)
         /\ Items(Insert(t, k, d)) = {x \in Items(t) : x.key # k} \cup {Item(k, d)}
         /\ Size(Insert(t, k, d)) >= Size(t)
<1> DEFINE G == Growths(t)
           First(n) == ~Collides(G[n], k) /\ \A m \in 0 .. n - 1 : Collides(G[m], k)
           Good == {n \in 0 .. KeyBound : ~Collides(G[n], k)}
           n == CHOOSE l \in 0 .. KeyBound : First(l)
<1>1. Size(t) \in Nat \ {0} /\ KeyBound \in Nat
  BY SizeIs, HashAssumption DEF Sound
<1>2. Good # {}
  <2> SUFFICES ASSUME \A l \in 0 .. KeyBound : Collides(G[l], k) PROVE FALSE
    OBVIOUS
  <2>1. KeyBound \in 0 .. KeyBound /\ \A m \in 0 .. KeyBound - 1 : Collides(G[m], k)
    BY <1>1
  <2>2. Sound(G[KeyBound], D) /\ Size(G[KeyBound]) >= Size(t) + KeyBound
    BY <2>1, GrowthsSound
  <2>3. Size(G[KeyBound]) < KeyBound /\ Size(G[KeyBound]) \in Nat
    BY <2>1, <2>2, LargeEnough, SizeIs DEF Sound
  <2> QED
    BY <1>1, <2>2, <2>3
<1>3. Min(Good) \in Good /\ \A m \in Good : Min(Good) <= m
  <2>1. Good \in SUBSET Nat
    BY <1>1
  <2> HIDE DEF Good
  <2> QED
    BY <1>2, <2>1, LeastNat
<1>4. Min(Good) \in 0 .. KeyBound /\ First(Min(Good))
  <2> DEFINE l == Min(Good)
  <2>1. l \in 0 .. KeyBound /\ ~Collides(G[l], k)
    BY <1>3
  <2>2. ASSUME NEW m \in 0 .. l - 1 PROVE Collides(G[m], k)
    <3>1. m \in 0 .. KeyBound /\ ~(l <= m)
      BY <1>1, <2>1
    <3> QED
      BY <1>3, <3>1
  <2> QED
    BY <2>1, <2>2
<1>5. n \in 0 .. KeyBound /\ First(n)
  <2> HIDE DEF First
  <2> QED
    BY <1>4
<1>6. Insert(t, k, d) = Stored(G[n], Item(k, d))
  BY DEF Insert
<1> HIDE DEF n
<1>7. Sound(G[n], D) /\ Items(G[n]) = Items(t) /\ Size(G[n]) >= Size(t) + n
  BY <1>5, GrowthsSound
<1>8. Size(G[n]) \in Nat /\ Size(G[n]) >= Size(t)
  BY <1>1, <1>5, <1>7, SizeIs DEF Sound
<1> HIDE DEF G
<1> QED
  BY <1>5, <1>6, <1>7, <1>8, StoredSound

\* A new table is sound and empty.
LEMMA InitSound ==
  ASSUME NEW D, NoItem \notin TableItems(D)
  PROVE  Sound(variant_hash_init, D) /\ Items(variant_hash_init) = {}
<1> DEFINE t == variant_hash_init
<1>1. t.node = [i \in 0 .. DefaultHashSize - 1 |-> NoItem] /\ t.count = 0
  BY DEF variant_hash_init
<1>2. t.node \in [0 .. DefaultHashSize - 1 -> {NoItem} \cup TableItems(D)]
  BY <1>1
<1>3. t \in Tables(D)
  BY <1>1, <1>2, HashAssumption DEF Tables, Arrays, variant_hash_init
<1>4. Occupied(t) = {} /\ Items(t) = {}
  BY <1>1 DEF Occupied, Items
<1> QED
  BY <1>1, <1>3, <1>4, FS_EmptySet DEF Sound

\* A look-up after an insertion finds what was inserted, and the rest unchanged.
LEMMA GetInserted ==
  ASSUME NEW D, NEW t, Sound(t, D), NEW k \in 0 .. KeyBound - 1, NEW d \in D,
         NEW other \in 0 .. KeyBound - 1
  PROVE  Get(Insert(t, k, d), other) = IF other = k THEN d ELSE Get(t, other)
<1> DEFINE u == Insert(t, k, d)
<1>1. Sound(u, D) /\ Items(u) = {x \in Items(t) : x.key # k} \cup {Item(k, d)}
  BY InsertSound
<1>2. Item(k, d).key = k /\ Item(k, d).data = d
  BY DEF Item
<1> HIDE DEF u
<1>3. CASE other = k
  BY <1>1, <1>2, <1>3, Found DEF u
<1>4. CASE other # k /\ \E x \in Items(t) : x.key = other
  <2>1. PICK x \in Items(t) : x.key = other
    BY <1>4
  <2>2. x \in Items(u)
    BY <1>1, <1>4, <2>1
  <2>3. Get(t, other) = x.data /\ Get(u, other) = x.data
    BY <1>1, <2>1, <2>2, Found
  <2> QED
    BY <1>4, <2>3 DEF u
<1>5. CASE other # k /\ \A x \in Items(t) : x.key # other
  <2>1. \A x \in Items(u) : x.key # other
    BY <1>1, <1>2, <1>5
  <2>2. Get(t, other) = NoItem /\ Get(u, other) = NoItem
    BY <1>1, <1>5, <2>1, Found
  <2> QED
    BY <1>5, <2>2 DEF u
<1> QED
  BY <1>3, <1>4, <1>5

\* A look-up after a removal finds nothing at the index of the removed key.
LEMMA GetRemoved ==
  ASSUME NEW D, NEW t, Sound(t, D), NEW k \in 0 .. KeyBound - 1, NEW other \in 0 .. KeyBound - 1
  PROVE  Get(Without(t, k), other) =
           IF Index(other, Size(t)) = Index(k, Size(t)) THEN NoItem ELSE Get(t, other)
<1> DEFINE u == Without(t, k)
<1>1. /\ Sound(u, D) /\ Size(u) = Size(t) /\ u.node[Index(k, Size(t))] = NoItem
      /\ Items(u) = {x \in Items(t) : Index(x.key, Size(t)) # Index(k, Size(t))}
  BY Removed
<1> HIDE DEF u
<1>2. CASE Index(other, Size(t)) = Index(k, Size(t))
  BY <1>1, <1>2 DEF Get, u
<1>3. CASE Index(other, Size(t)) # Index(k, Size(t)) /\ \E x \in Items(t) : x.key = other
  <2>1. PICK x \in Items(t) : x.key = other
    BY <1>3
  <2>2. x \in Items(u)
    BY <1>1, <1>3, <2>1
  <2>3. Get(t, other) = x.data /\ Get(u, other) = x.data
    BY <1>1, <2>1, <2>2, Found
  <2> QED
    BY <1>3, <2>3 DEF u
<1>4. CASE Index(other, Size(t)) # Index(k, Size(t)) /\ \A x \in Items(t) : x.key # other
  <2>1. Get(t, other) = NoItem /\ Get(u, other) = NoItem
    BY <1>1, <1>4, Found
  <2> QED
    BY <1>4, <2>1 DEF u
<1> QED
  BY <1>2, <1>3, <1>4

-----------------------------------------------------------------------------
\* The table as its clients use it: as a map, and through an iterator, which has seen the
\* keys of all items behind it that have been there since it began.
HashInv ==
  /\ Sound(hashTable, Data) /\ KeysOf(hashTable) \subseteq Keys
  /\ it \in Int /\ it >= NoIterator
  /\ stayed \subseteq KeysOf(hashTable)
  /\ it = NoIterator => stayed = {}
  /\ it # NoIterator /\ ~grown =>
       \A x \in Items(hashTable) :
         x.key \in stayed /\ Index(x.key, Size(hashTable)) <= it => x.key \in seen

\* The table and its iterator: the invariant holds at first.
LEMMA HashInitInv == HashInit => HashInv
<1> SUFFICES ASSUME HashInit PROVE HashInv
  OBVIOUS
<1>1. NoItem \notin TableItems(Data)
  BY TableAssumption DEF TableItems
<1>2. Sound(hashTable, Data) /\ Items(hashTable) = {}
  BY <1>1, InitSound DEF HashInit
<1> QED
  BY <1>2 DEF HashInit, HashInv, KeysOf, NoIterator

\* The table and its iterator: every step keeps the invariant.
LEMMA HashStep == HashInv /\ [HashNext]_hashVars => HashInv'
<1> SUFFICES ASSUME HashInv, [HashNext]_hashVars PROVE HashInv'
  OBVIOUS
<1>1. Keys \subseteq 0 .. KeyBound - 1 /\ NoItem \notin Data
  BY TableAssumption
<1>2. Sound(hashTable, Data) /\ Size(hashTable) \in Nat \ {0}
  BY SizeIs DEF HashInv, Sound
<1>3. ASSUME NEW k \in Keys, NEW d \in Data, Add(k, d) PROVE HashInv'
  <2>1. k \in 0 .. KeyBound - 1
    BY <1>1
  <2>2. /\ Sound(hashTable', Data)
        /\ Items(hashTable') = {x \in Items(hashTable) : x.key # k} \cup {Item(k, d)}
    BY <1>2, <1>3, <2>1, InsertSound DEF Add
  <2>3. Item(k, d).key = k
    BY DEF Item
  <2>4. KeysOf(hashTable') = KeysOf(hashTable) \cup {k}
    BY <2>2, <2>3 DEF KeysOf
  <2>5. it' = it /\ seen' = seen /\ stayed' = stayed
        /\ grown' = (it # NoIterator /\ (grown \/ Size(hashTable') # Size(hashTable)))
    BY <1>3 DEF Add
  <2>6. ASSUME it' # NoIterator, ~grown', NEW x \in Items(hashTable'),
               x.key \in stayed', Index(x.key, Size(hashTable')) <= it'
        PROVE  x.key \in seen'
    <3>1. ~grown /\ Size(hashTable') = Size(hashTable) /\ it # NoIterator
      BY <2>5, <2>6
    <3>2. PICK y \in Items(hashTable) : y.key = x.key
      BY <2>5, <2>6 DEF HashInv, KeysOf
    <3> QED
      BY <2>5, <2>6, <3>1, <3>2 DEF HashInv
  <2> QED
    BY <2>2, <2>4, <2>5, <2>6 DEF HashInv
<1>4. ASSUME NEW k \in Keys, RemoveKey(k) PROVE HashInv'
  <2>1. k \in 0 .. KeyBound - 1
    BY <1>1
  <2>2. /\ Sound(hashTable', Data) /\ Size(hashTable') = Size(hashTable)
        /\ Items(hashTable') \subseteq Items(hashTable)
    BY <1>2, <1>4, <2>1, Removed DEF RemoveKey
  <2> QED
    BY <1>4, <2>2 DEF HashInv, RemoveKey, KeysOf
<1>5. CASE BeginIteration
  <2>1. \A x \in Items(hashTable) : Index(x.key, Size(hashTable)) >= 0
    BY <1>2, ItemsPlaced, IndexIn DEF TableItems
  <2>2. \A x \in Items(hashTable) : Index(x.key, Size(hashTable)) \in Int
    BY <1>2, ItemsPlaced, IndexIn DEF TableItems
  <2> QED
    BY <1>5, <2>1, <2>2 DEF BeginIteration, HashInv, NoIterator
<1>6. CASE NextItem
  <2> DEFINE S == After(hashTable, it)
  <2>1. S \in SUBSET Nat /\ S # {}
    BY <1>2, <1>6, SizeIs DEF NextItem, After, Occupied, Sound
  <2>2. it' = Min(S) /\ it' \in S /\ \A i \in S : it' <= i
    BY <1>6, <2>1, LeastNat DEF NextItem
  <2>3. UNCHANGED <<hashTable, stayed, grown>> /\ it # NoIterator
        /\ seen' = seen \cup {hashTable.node[it'].key}
    BY <1>6 DEF NextItem
  <2>4. it' \in Nat /\ it' > it
    BY <2>1, <2>2 DEF After
  <2>5. ASSUME ~grown, NEW x \in Items(hashTable), x.key \in stayed,
               Index(x.key, Size(hashTable)) <= it'
        PROVE  x.key \in seen'
    <3> DEFINE i == Index(x.key, Size(hashTable))
    <3>1. i \in Occupied(hashTable) /\ hashTable.node[i] = x /\ i \in Nat
      BY <1>2, ItemsPlaced, SizeIs DEF Occupied, Sound
    <3>2. CASE i <= it
      BY <2>3, <2>5, <3>2 DEF HashInv
    <3>3. CASE ~(i <= it)
      <4>1. i \in S
        BY <3>1, <3>3 DEF After, HashInv
      <4>2. i = it'
        BY <2>2, <2>4, <2>5, <3>1, <4>1
      <4> QED
        BY <2>3, <3>1, <4>2
    <3> QED
      BY <3>2, <3>3
  <2> HIDE DEF S
  <2> QED
    BY <2>3, <2>4, <2>5 DEF HashInv, NoIterator
<1>7. CASE EndIteration
  BY <1>7 DEF EndIteration, HashInv, NoIterator
<1>8. CASE UNCHANGED hashVars
  BY <1>8 DEF hashVars, HashInv
<1> QED
  BY <1>3, <1>4, <1>5, <1>6, <1>7, <1>8 DEF HashNext

\* Whatever is inserted and removed, a table of any size is the map that its clients take
\* it for, although it has no chains: a growth loses and moves nothing that Get would miss.
THEOREM TableIsAMap == HashSpec => ImplementsMap
<1>1. HashInit => Contents!Init
  <2> SUFFICES ASSUME HashInit PROVE Contents!Init
    OBVIOUS
  <2>1. NoItem \notin TableItems(Data) /\ Keys \subseteq 0 .. KeyBound - 1
    BY TableAssumption DEF TableItems
  <2>2. Sound(hashTable, Data) /\ Items(hashTable) = {}
    BY <2>1, InitSound DEF HashInit
  <2>3. \A k \in Keys : Get(hashTable, k) = NoItem
    BY <2>1, <2>2, Found
  <2> QED
    BY <2>3 DEF Contents!Init
<1>2. ASSUME HashInv, [HashNext]_hashVars
      PROVE  [Contents!Next]_([k \in Keys |-> Get(hashTable, k)])
  <2> DEFINE c == [k \in Keys |-> Get(hashTable, k)]
             e == [k \in Keys |-> Get(hashTable', k)]
  <2>1. Keys \subseteq 0 .. KeyBound - 1 /\ NoItem \notin Data /\ Sound(hashTable, Data)
    BY <1>2, TableAssumption DEF HashInv
  <2>2. ASSUME NEW k \in Keys, NEW d \in Data, Add(k, d) PROVE Contents!Put(k, d)
    <3>1. hashTable' = Insert(hashTable, k, d)
      BY <2>2 DEF Add
    <3>2. \A o \in Keys : Get(hashTable', o) = IF o = k THEN d ELSE Get(hashTable, o)
      BY <2>1, <3>1, GetInserted
    <3>3. e = [c EXCEPT ![k] = d]
      BY <3>2
    <3> QED
      BY <3>3 DEF Contents!Put
  <2>3. ASSUME NEW k \in Keys, RemoveKey(k) PROVE Contents!Drop(k) \/ Contents!DropAbsent(k)
    <3> DEFINE i(o) == Index(o, Size(hashTable))
    <3>1. hashTable' = Without(hashTable, k)
      BY <2>3 DEF RemoveKey
    <3>2. \A o \in Keys : Get(hashTable', o) = IF i(o) = i(k) THEN NoItem ELSE Get(hashTable, o)
      BY <2>1, <3>1, GetRemoved
    <3>3. \A o \in Keys : Get(hashTable, o) # NoItem =>
            \E x \in Items(hashTable) : x.key = o
      BY <2>1, Found
    <3>4. \A o, p \in Keys : /\ Get(hashTable, o) # NoItem /\ Get(hashTable, p) # NoItem
                             /\ i(o) = i(p)
                             => o = p
      BY <2>1, <3>3, ItemsPlaced
    <3>5. CASE Get(hashTable, k) # NoItem
      <4>1. \A o \in Keys : Get(hashTable', o) = IF o = k THEN NoItem ELSE Get(hashTable, o)
        BY <3>2, <3>4, <3>5
      <4>2. e = [c EXCEPT ![k] = NoItem] /\ c[k] # NoItem
        BY <3>5, <4>1
      <4> QED
        BY <4>2 DEF Contents!Drop
    <3>6. CASE Get(hashTable, k) = NoItem
      <4>1. PICK p \in Keys :
              \A o \in Keys : i(o) = i(k) /\ Get(hashTable, o) # NoItem <=> o = p /\ Get(hashTable, p) # NoItem
        <5>1. CASE \E o \in Keys : i(o) = i(k) /\ Get(hashTable, o) # NoItem
          BY <3>4, <5>1
        <5>2. CASE \A o \in Keys : i(o) = i(k) => Get(hashTable, o) = NoItem
          BY <3>6, <5>2
        <5> QED
          BY <5>1, <5>2
      <4>2. \A o \in Keys : Get(hashTable', o) = IF o = p THEN NoItem ELSE Get(hashTable, o)
        BY <3>2, <4>1
      <4>3. e = [c EXCEPT ![p] = NoItem] /\ c[k] = NoItem
        BY <3>6, <4>2
      <4> QED
        BY <4>3 DEF Contents!DropAbsent
    <3> QED
      BY <3>5, <3>6
  <2>4. CASE UNCHANGED hashTable
    <3>1. \A k \in Keys : Get(hashTable', k) = Get(hashTable, k)
      BY <2>4
    <3>2. e = c
      BY <3>1
    <3> QED
      BY <3>2
  <2> QED
    BY <1>2, <2>2, <2>3, <2>4 DEF HashNext, BeginIteration, NextItem, EndIteration, Contents!Next, hashVars
<1> QED
  BY <1>1, <1>2, HashInitInv, HashStep, PTL DEF HashSpec, ImplementsMap, Contents!Map

\* Unless the table grows meanwhile, an iteration reaches every key that is there from its
\* beginning to its end, whatever else is inserted, replaced and removed.
THEOREM IterationReaches == HashSpec => IterationComplete
<1>1. ASSUME HashInv, [HashNext]_hashVars
      PROVE  [EndIteration /\ ~grown => stayed \subseteq seen]_hashVars
  <2> SUFFICES ASSUME EndIteration, ~grown, NEW k \in stayed PROVE k \in seen
    OBVIOUS
  <2>1. PICK x \in Items(hashTable) : x.key = k
    BY <1>1 DEF HashInv, KeysOf
  <2> DEFINE i == Index(x.key, Size(hashTable))
  <2>2. i \in Occupied(hashTable) /\ i \in Int
    BY <1>1, ItemsPlaced, SizeIs DEF Occupied, Sound, HashInv
  <2>3. i <= it
    BY <1>1, <2>2 DEF EndIteration, After, HashInv
  <2> QED
    BY <1>1, <2>1, <2>3 DEF HashInv, EndIteration
<1> QED
  BY <1>1, HashInitInv, HashStep, PTL DEF HashSpec, IterationComplete

-----------------------------------------------------------------------------
\* The argument stacks.
LEMMA ArgsCreated ==
  ASSUME NEW a, NEW st
  PROVE  /\ DOMAIN Created(a, st) = DOMAIN a \cup {st}
         /\ \A x \in DOMAIN a : Created(a, st)[x] = a[x]
         /\ st \notin DOMAIN a => DOMAIN Created(a, st)[st] = {}
  BY DEF Created

\* service_args_stack_add changes one argument of one stack.
LEMMA ArgsAdded ==
  ASSUME NEW a, NEW st \in DOMAIN a, NEW n, NEW v
  PROVE  LET b == Added(a, st, n, v)
         IN /\ DOMAIN b = DOMAIN a
            /\ \A x \in DOMAIN a \ {st} : b[x] = a[x]
            /\ DOMAIN b[st] = DOMAIN a[st] \cup {n} /\ b[st][n] = v
            /\ \A m \in DOMAIN a[st] \ {n} : b[st][m] = a[st][m]
  BY DEF Added

\* service_args_stack_destroy takes whole stacks away.
LEMMA ArgsDestroyed ==
  ASSUME NEW a, NEW X
  PROVE  /\ DOMAIN Destroyed(a, X) = DOMAIN a \ X
         /\ \A x \in DOMAIN a \ X : Destroyed(a, X)[x] = a[x]
  BY DEF Destroyed

-----------------------------------------------------------------------------
\* The scenes and the frames. Sources, conditions, actions and arguments are those of the
\* start and those that are added by hand.
SourceNames == NewSources \cup UNION {ToSet(c.sources) : c \in ToSet(Startup)}
Conditions == NewConditions \cup UNION {ToSet(c.conds) : c \in ToSet(Startup)}
GivenActions == NewActions \cup UNION {ToSet(c.acts) : c \in ToSet(Startup)}
Arguments == NewArguments \cup UNION {ToSet(a.env) : a \in GivenActions}
Stacks == {"SensorEvent"} \cup {x.stack : x \in Arguments}
ArgumentNames == {"EventData"} \cup {x.name : x \in Arguments}

Actions ==
  {x \in [type : {a.type : a \in GivenActions}, target : {a.target : a \in GivenActions},
          expr : {a.expr : a \in GivenActions}, env : Seq(Arguments)] :
     x.type \in {"scene", "enable", "disable"} => x.target \in Names}
SceneRecords ==
  [name : Names, live : BOOLEAN, enabled : BOOLEAN,
   sources : Seq(SourceNames), conds : Seq(Conditions), acts : Seq(Actions)]
Frames ==
  [kind : {"event", "activation", "scene", "command"}, obj : Nat,
   at : {"ready", "waiting", "called"}, phase : {"none", "cond", "act", "args", "run"},
   i : Nat, item : Nat, act : Nat, arg : {NoItem} \cup Arguments, lost : BOOLEAN,
   src : {NoSource} \cup DeviceEvents \cup {[name |-> x, class |-> x] : x \in Services},
   pos : {-1} \cup Nat,
   put : SUBSET [stack : Stacks, name : ArgumentNames, value : Nat], clash : SUBSET Stacks,
   ran : Seq(Nat), stay : SUBSET Nat, grew : BOOLEAN]

\* The action that a frame runs, unless it was freed, and the stacks that it may store in and
\* destroy yet.
ActionOf(sc, f) == sc[f.obj].acts[f.act]
RunsCommand(sc, f) == f.kind = "command" /\ f.act # 0 /\ ActionOf(sc, f).type = "command"
Uses(sc, f) ==
  {st \in Stacks :
     \/ f.kind = "event" /\ st = "SensorEvent"
     \/ RunsCommand(sc, f) /\ st \in StacksOf(ActionOf(sc, f))
     \/ RunsCommand(sc, f) /\ f.arg # NoItem /\ st = f.arg.stack}

\* What a frame stands on exists; the element it walks is in the list or before it.
Standing(sc, f) ==
  /\ f.kind # "event" \/ f.obj # 0 => f.obj \in DOMAIN sc
  /\ f.kind = "scene" => f.phase = "cond" \/ (f.phase = "act" /\ f.at = "ready")
  /\ f.kind \in {"event", "activation"} => f.at = "ready" /\ f.phase = "none"
  /\ f.kind = "command" =>
       /\ f.act \in DOMAIN sc[f.obj].acts \/ (f.act = 0 /\ f.lost)
       /\ f.phase \in {"args", "run"}
       /\ f.phase = "run" /\ f.act # 0 => ActionOf(sc, f).type = "command"
  /\ f.item <= f.i + 1 /\ (f.at = "ready" => f.item >= 1)
  /\ f.arg # NoItem <=> f.phase = "args" /\ f.at # "ready"

\* What was stored, but for what is clashed with, is not stored again: the arguments of the
\* same names are behind.
Gone(env, item, x) == \A q \in DOMAIN env : SameArgument(env[q], x) => q < item
Progressing(sc, f) ==
  RunsCommand(sc, f) /\ f.phase = "args" /\ ~f.lost =>
    /\ \A x \in f.put :
         \/ x.stack \in f.clash
         \/ /\ Gone(ActionOf(sc, f).env, f.item, x)
            /\ f.arg # NoItem => ~SameArgument(f.arg, x)
    /\ f.arg # NoItem =>
         \/ f.arg.stack \in f.clash
         \/ Gone(ActionOf(sc, f).env, f.item + 1, f.arg)

\* What was stored is there, and so is the stack where the next value is going to be stored.
Held(sc, ar, f) ==
  /\ \A x \in f.put : x.stack \notin f.clash =>
       x.stack \in DOMAIN ar /\ x.name \in DOMAIN ar[x.stack] /\ ar[x.stack][x.name] = x.value
  /\ RunsCommand(sc, f) /\ f.arg # NoItem /\ f.arg.stack \notin f.clash =>
       f.arg.stack \in DOMAIN ar

\* A handler has executed the scenes behind its iterator as often as they have sources that
\* match, and the one it stands at as often as there are such sources behind its walk.
Place(sc, tb, o) == Index(Crc[sc[o].name], Size(tb))
Behinds(sc, f, o, m) ==
  {p \in DOMAIN sc[o].sources : p < m /\ Matching(sc[o].sources[p], f.src)}
MatchesOf(sc, f, o) ==
  Cardinality({p \in DOMAIN sc[o].sources : Matching(sc[o].sources[p], f.src)})
Iterating(sc, tb, f) ==
  f.kind = "event" /\ ~f.grew =>
    \A o \in f.stay \cap DOMAIN f.ran :
      /\ Place(sc, tb, o) < f.pos => f.ran[o] = MatchesOf(sc, f, o)
      /\ Place(sc, tb, o) = f.pos =>
           f.item = f.i + 1 /\ f.ran[o] = Cardinality(Behinds(sc, f, o, f.item))
      /\ Place(sc, tb, o) > f.pos => f.ran[o] = 0
      /\ Place(sc, tb, o) = f.pos <=> o = f.obj

Good(sc, tb, ar, f) ==
  /\ f \in Frames /\ Standing(sc, f) /\ Progressing(sc, f) /\ Held(sc, ar, f)
  /\ Iterating(sc, tb, f)

\* The table knows the scenes by the keys of their names, and all that have stayed.
Listing(sc, tb, s) ==
  /\ Sound(tb, Nat)
  /\ \A x \in Items(tb) : x.data \in DOMAIN sc /\ x.key = Crc[sc[x.data].name]
  /\ \A k \in DOMAIN s : s[k].stay \subseteq {x.data : x \in Items(tb)}

\* No two arguments of an action have the same name.
Typed(sc, ar, s) ==
  /\ sc \in Seq(SceneRecords) /\ s \in Seq(Frames)
  /\ \A o \in DOMAIN sc : \A a \in DOMAIN sc[o].acts : \A p, q \in DOMAIN sc[o].acts[a].env :
       SameArgument(sc[o].acts[a].env[p], sc[o].acts[a].env[q]) => p = q
  /\ \A st \in DOMAIN ar : \A n \in DOMAIN ar[st] : ar[st][n] \in Nat

\* What a frame uses clashes with those below it.
Claimed(sc, s) == \A j, k \in DOMAIN s : j < k => Uses(sc, s[k]) \subseteq s[j].clash

\* Each stack is used by a frame, as long as no running action was edited.
Owned(sc, ar, s, u) ==
  ~u => /\ \A st \in DOMAIN ar : \E k \in DOMAIN s : st \in Uses(sc, s[k])
        /\ \A k \in DOMAIN s : RunsCommand(sc, s[k]) /\ s[k].arg # NoItem =>
             s[k].arg.stack \in StacksOf(ActionOf(sc, s[k]))

\* What evaluates an expression, below others, waits for what it has called.
Evaluates(f) == f.phase \in {"cond", "args", "run"}
Nested(s) == \A k \in DOMAIN s : k < Len(s) /\ Evaluates(s[k]) => s[k].at # "ready"

EngineInv(sc, tb, ar, s, u) ==
  /\ Typed(sc, ar, s)
  /\ Nested(s)
  /\ Listing(sc, tb, s)
  /\ \A k \in DOMAIN s : Good(sc, tb, ar, s[k])
  /\ Claimed(sc, s)
  /\ Owned(sc, ar, s, u)

SceneInv == EngineInv(scene, table, args, stack, inUse) /\ events \in Nat

-----------------------------------------------------------------------------
\* Changes of the stack: what has to be shown of a step at its top.
LEMMA WithoutLast ==
  ASSUME NEW S, NEW s \in Seq(S), s # << >>
  PROVE  LET b == SubSeq(s, 1, Len(s) - 1)
         IN /\ Len(s) \in Nat \ {0} /\ DOMAIN s = 1 .. Len(s)
            /\ b \in Seq(S) /\ Len(b) = Len(s) - 1 /\ DOMAIN b = 1 .. Len(s) - 1
            /\ \A k \in 1 .. Len(s) - 1 : b[k] = s[k]
<1>1. Len(s) \in Nat \ {0} /\ DOMAIN s = 1 .. Len(s)
  OBVIOUS
<1>2. Len(SubSeq(s, 1, Len(s) - 1)) = Len(s) - 1
  BY ONLY <1>1, s \in Seq(S)
<1>3. SubSeq(s, 1, Len(s) - 1) \in Seq(S)
  BY ONLY <1>1, s \in Seq(S)
<1>4. \A k \in 1 .. Len(s) - 1 : SubSeq(s, 1, Len(s) - 1)[k] = s[k]
  BY ONLY <1>1, s \in Seq(S)
<1> QED
  BY <1>1, <1>2, <1>3, <1>4

\* A sequence with one more element.
LEMMA WithLast ==
  ASSUME NEW S, NEW s \in Seq(S), NEW f \in S
  PROVE  LET b == Append(s, f)
         IN /\ Len(s) \in Nat /\ DOMAIN s = 1 .. Len(s)
            /\ b \in Seq(S) /\ Len(b) = Len(s) + 1 /\ DOMAIN b = 1 .. Len(s) + 1
            /\ b[Len(s) + 1] = f /\ \A k \in 1 .. Len(s) : b[k] = s[k]
  OBVIOUS

KeepsBut(ar, a, X) == \A st \in DOMAIN ar \ X : st \in DOMAIN a /\ a[st] = ar[st]
NumbersIn(a) == \A st \in DOMAIN a : \A n \in DOMAIN a[st] : a[st][n] \in Nat
OwnArgument(sc, f) ==
  RunsCommand(sc, f) /\ f.arg # NoItem => f.arg.stack \in StacksOf(ActionOf(sc, f))

\* All but the last element of a sequence, joined with a new last one.
LEMMA Rejoined ==
  ASSUME NEW S, NEW s \in Seq(S), s # << >>, NEW f \in S, NEW t \in Seq(S), Len(t) = Len(s) - 1,
         \A k \in 1 .. Len(s) - 1 : t[k] = s[k]
  PROVE  LET b == Append(t, f)
         IN /\ b \in Seq(S) /\ Len(b) = Len(s) /\ Len(s) \in Nat \ {0} /\ b[Len(s)] = f
            /\ DOMAIN b = 1 .. Len(s) /\ DOMAIN s = 1 .. Len(s)
            /\ \A k \in 1 .. Len(s) : k # Len(s) => b[k] = s[k]
<1>1. Len(s) \in Nat \ {0} /\ DOMAIN s = 1 .. Len(s)
  OBVIOUS
<1>2. /\ Append(t, f) \in Seq(S) /\ Len(Append(t, f)) = Len(s)
      /\ DOMAIN Append(t, f) = 1 .. Len(s) /\ Append(t, f)[Len(s)] = f
      /\ \A k \in 1 .. Len(s) - 1 : Append(t, f)[k] = t[k]
  BY <1>1
<1>3. \A k \in 1 .. Len(s) : k # Len(s) => k \in 1 .. Len(s) - 1
  BY <1>1
<1> QED
  BY <1>1, <1>2, <1>3

\* The frame on top is replaced, for sequences of any kind.
LEMMA LastReplaced ==
  ASSUME NEW S, NEW s \in Seq(S), s # << >>, NEW f \in S
  PROVE  LET b == Append(SubSeq(s, 1, Len(s) - 1), f)
         IN /\ b \in Seq(S) /\ Len(b) = Len(s) /\ Len(s) \in Nat \ {0} /\ b[Len(s)] = f
            /\ DOMAIN b = 1 .. Len(s) /\ DOMAIN s = 1 .. Len(s)
            /\ \A k \in 1 .. Len(s) : k # Len(s) => b[k] = s[k]
<1>1. SubSeq(s, 1, Len(s) - 1) \in Seq(S) /\ Len(SubSeq(s, 1, Len(s) - 1)) = Len(s) - 1
      /\ \A k \in 1 .. Len(s) - 1 : SubSeq(s, 1, Len(s) - 1)[k] = s[k]
  BY WithoutLast
<1> QED
  BY ONLY s \in Seq(S), s # << >>, f \in S, <1>1, Rejoined

Replaces(sc, tb, ar, s, u, a, f) ==
  /\ EngineInv(sc, tb, ar, s, u) /\ s # << >>
  /\ Good(sc, tb, a, f) /\ NumbersIn(a)
  /\ f.stay \subseteq s[Len(s)].stay
  /\ Uses(sc, f) \subseteq Uses(sc, s[Len(s)])
  /\ KeepsBut(ar, a, Uses(sc, s[Len(s)]))
  /\ ~u => /\ DOMAIN a \subseteq DOMAIN ar \cup Uses(sc, f)
           /\ DOMAIN a \cap Uses(sc, s[Len(s)]) \subseteq Uses(sc, f)
           /\ OwnArgument(sc, f)

\* What a frame has stored is there as long as only stacks that clash with it change.
LEMMA KeptHeld ==
  ASSUME NEW sc, NEW ar, NEW a, NEW X, KeepsBut(ar, a, X), NEW f, Held(sc, ar, f), X \subseteq f.clash
  PROVE  Held(sc, a, f)
  BY DEF Held, KeepsBut

\* A frame stays good as long as only stacks that clash with it change.
LEMMA KeptGood ==
  ASSUME NEW sc, NEW tb, NEW ar, NEW a, NEW X, KeepsBut(ar, a, X), NEW f, Good(sc, tb, ar, f),
         X \subseteq f.clash
  PROVE  Good(sc, tb, a, f)
  BY KeptHeld DEF Good

\* The same but for its last element, which is f.
SameButLast(b, s, n, f) ==
  /\ n \in Nat \ {0} /\ DOMAIN b = 1 .. n /\ DOMAIN s = 1 .. n
  /\ b[n] = f /\ \A k \in 1 .. n : k # n => b[k] = s[k]

\* The invariant survives the replacement of the last frame.
LEMMA ReplacedLast ==
  ASSUME NEW sc, NEW tb, NEW ar, NEW s, NEW u, NEW a, NEW f, Replaces(sc, tb, ar, s, u, a, f),
         NEW b \in Seq(Frames), NEW n, n = Len(s), SameButLast(b, s, n, f)
  PROVE  EngineInv(sc, tb, a, b, u)
<1>1. /\ n \in Nat \ {0} /\ DOMAIN b = 1 .. n /\ DOMAIN s = 1 .. n
      /\ b[n] = f /\ \A k \in 1 .. n : k # n => b[k] = s[k]
  BY DEF SameButLast
<1>2. /\ Typed(sc, ar, s) /\ Listing(sc, tb, s) /\ Claimed(sc, s) /\ Owned(sc, ar, s, u)
      /\ Nested(s)
      /\ \A k \in 1 .. n : Good(sc, tb, ar, s[k])
      /\ Good(sc, tb, a, f) /\ NumbersIn(a)
      /\ f.stay \subseteq s[n].stay /\ Uses(sc, f) \subseteq Uses(sc, s[n])
      /\ KeepsBut(ar, a, Uses(sc, s[n]))
  BY <1>1 DEF Replaces, EngineInv
<1>3. ASSUME NEW k \in 1 .. n, k # n PROVE Uses(sc, s[n]) \subseteq s[k].clash
  BY <1>1, <1>2, <1>3 DEF Claimed
<1>4. \A k \in DOMAIN b : Good(sc, tb, a, b[k])
  <2>1. ASSUME NEW k \in 1 .. n, k # n PROVE Good(sc, tb, a, s[k])
    BY <1>1, <1>2, <1>3, <2>1, KeptGood
  <2> QED
    BY <1>1, <1>2, <2>1
<1>5. Typed(sc, a, b)
  BY <1>2 DEF Typed, NumbersIn
<1>6. Listing(sc, tb, b)
  BY <1>1, <1>2 DEF Listing
<1>7. Claimed(sc, b)
  <2>1. ASSUME NEW j \in 1 .. n, NEW k \in 1 .. n, j < k PROVE Uses(sc, b[k]) \subseteq b[j].clash
    <3>1. j # n /\ b[j] = s[j] /\ Uses(sc, s[k]) \subseteq s[j].clash
      BY <1>1, <1>2, <2>1 DEF Claimed
    <3>2. Uses(sc, b[k]) \subseteq Uses(sc, s[k])
      BY <1>1, <1>2
    <3> QED
      BY <3>1, <3>2
  <2> QED
    BY <1>1, <2>1 DEF Claimed
<1>9. Nested(b)
  <2>1. Len(b) = n
    BY <1>1
  <2> QED
    BY <1>1, <1>2, <2>1 DEF Nested
<1>8. Owned(sc, a, b, u)
  <2> SUFFICES ASSUME ~u PROVE Owned(sc, a, b, u)
    BY DEF Owned
  <2>1. Owned(sc, ar, s, u) /\ OwnArgument(sc, f) /\ DOMAIN a \subseteq DOMAIN ar \cup Uses(sc, f)
        /\ DOMAIN a \cap Uses(sc, s[n]) \subseteq Uses(sc, f)
    BY DEF Replaces, EngineInv
  <2>2. ASSUME NEW st \in DOMAIN a PROVE \E k \in DOMAIN b : st \in Uses(sc, b[k])
    <3>1. CASE st \in Uses(sc, f)
      <4>1. n \in DOMAIN b /\ b[n] = f
        BY <1>1
      <4> QED
        BY <3>1, <4>1
    <3>2. CASE st \notin Uses(sc, f)
      <4>1. st \in DOMAIN ar /\ st \notin Uses(sc, s[n])
        BY <2>1, <3>2
      <4>2. PICK k \in DOMAIN s : st \in Uses(sc, s[k])
        BY <2>1, <4>1 DEF Owned
      <4> QED
        BY <1>1, <4>1, <4>2
    <3> QED
      BY <3>1, <3>2
  <2>3. \A k \in DOMAIN b : OwnArgument(sc, b[k])
    BY <1>1, <2>1 DEF Owned, OwnArgument
  <2> QED
    BY <2>2, <2>3 DEF Owned, OwnArgument
<1> QED
  BY <1>2, <1>4, <1>5, <1>6, <1>7, <1>8, <1>9 DEF EngineInv

\* The invariant survives a step of the function on top.
LEMMA ReplacedTop ==
  ASSUME NEW sc, NEW tb, NEW ar, NEW s, NEW u, NEW a, NEW f, Replaces(sc, tb, ar, s, u, a, f)
  PROVE  EngineInv(sc, tb, a, Append(SubSeq(s, 1, Len(s) - 1), f), u)
<1>1. s \in Seq(Frames) /\ s # << >> /\ f \in Frames
  BY DEF Replaces, EngineInv, Typed, Good
<1>2. Append(SubSeq(s, 1, Len(s) - 1), f) \in Seq(Frames)
      /\ SameButLast(Append(SubSeq(s, 1, Len(s) - 1), f), s, Len(s), f)
  BY ONLY <1>1, LastReplaced DEF SameButLast
<1> QED
  BY <1>2, ReplacedLast

Pops(sc, tb, ar, s, u, a) ==
  /\ EngineInv(sc, tb, ar, s, u) /\ s # << >> /\ NumbersIn(a)
  /\ KeepsBut(ar, a, Uses(sc, s[Len(s)]))
  /\ ~u => DOMAIN a \subseteq DOMAIN ar \ Uses(sc, s[Len(s)])

\* The invariant survives the return of the function on top.
LEMMA PoppedTop ==
  ASSUME NEW sc, NEW tb, NEW ar, NEW s, NEW u, NEW a, Pops(sc, tb, ar, s, u, a)
  PROVE  EngineInv(sc, tb, a, SubSeq(s, 1, Len(s) - 1), u)
<1> DEFINE b == SubSeq(s, 1, Len(s) - 1)
           top == s[Len(s)]
<1>1. s \in Seq(Frames) /\ s # << >>
  BY DEF Pops, EngineInv, Typed
<1>2. /\ b \in Seq(Frames) /\ Len(b) = Len(s) - 1 /\ Len(s) \in Nat \ {0}
      /\ DOMAIN b = 1 .. Len(s) - 1 /\ DOMAIN s = 1 .. Len(s)
      /\ \A k \in 1 .. Len(s) - 1 : b[k] = s[k]
  BY <1>1, WithoutLast
<1> HIDE DEF b
<1>3. \A k \in DOMAIN b : Uses(sc, top) \subseteq s[k].clash
  BY <1>2 DEF Pops, EngineInv, Claimed
<1>4. \A k \in DOMAIN b : Good(sc, tb, a, b[k])
  BY <1>2, <1>3, KeptGood DEF Pops, EngineInv
<1>5. Typed(sc, a, b)
  BY <1>2 DEF Pops, EngineInv, Typed, NumbersIn
<1>6. Listing(sc, tb, b)
  BY <1>2 DEF Pops, EngineInv, Listing
<1>7. Claimed(sc, b)
  BY <1>2 DEF Pops, EngineInv, Claimed
<1>8. Owned(sc, a, b, u)
  <2> SUFFICES ASSUME ~u PROVE Owned(sc, a, b, u)
    BY DEF Owned
  <2>1. Owned(sc, ar, s, u) /\ DOMAIN a \subseteq DOMAIN ar \ Uses(sc, top)
    BY DEF Pops, EngineInv
  <2>2. ASSUME NEW st \in DOMAIN a PROVE \E k \in DOMAIN b : st \in Uses(sc, b[k])
    <3>1. PICK k \in DOMAIN s : st \in Uses(sc, s[k])
      BY <2>1 DEF Owned
    <3> QED
      BY <1>2, <2>1, <3>1
  <2> QED
    BY <1>2, <2>1, <2>2 DEF Owned
<1>9. Nested(b)
  BY <1>2 DEF Pops, EngineInv, Nested
<1> QED
  BY <1>9, <1>4, <1>5, <1>6, <1>7, <1>8 DEF EngineInv, b, Pops

Pushes(sc, tb, ar, s, u, a, f) ==
  /\ EngineInv(sc, tb, ar, s, u)
  /\ Good(sc, tb, a, f) /\ NumbersIn(a) /\ f.arg = NoItem
  /\ f.stay \subseteq {x.data : x \in Items(tb)}
  /\ \A k \in DOMAIN s : Uses(sc, f) \subseteq s[k].clash
  /\ KeepsBut(ar, a, Uses(sc, f))
  /\ ~u => DOMAIN a \subseteq DOMAIN ar \cup Uses(sc, f)
  /\ s # << >> /\ Evaluates(s[Len(s)]) => s[Len(s)].at # "ready"

\* The invariant survives a call by the function on top.
LEMMA PushedTop ==
  ASSUME NEW sc, NEW tb, NEW ar, NEW s, NEW u, NEW a, NEW f, Pushes(sc, tb, ar, s, u, a, f)
  PROVE  EngineInv(sc, tb, a, Append(s, f), u)
<1> DEFINE b == Append(s, f)
<1>1. s \in Seq(Frames) /\ f \in Frames
  BY DEF Pushes, EngineInv, Typed, Good
<1>2. /\ b \in Seq(Frames) /\ Len(b) = Len(s) + 1 /\ Len(s) \in Nat /\ b[Len(s) + 1] = f
      /\ DOMAIN b = 1 .. Len(s) + 1 /\ DOMAIN s = 1 .. Len(s)
      /\ \A k \in 1 .. Len(s) : b[k] = s[k]
  BY <1>1, WithLast
<1> HIDE DEF b
<1>3. \A k \in DOMAIN b : Good(sc, tb, a, b[k])
  <2>1. ASSUME NEW k \in 1 .. Len(s) PROVE Good(sc, tb, a, s[k])
    BY <1>2, <2>1, KeptGood DEF Pushes, EngineInv
  <2> QED
    BY <1>2, <2>1 DEF Pushes
<1>4. Typed(sc, a, b)
  BY <1>2 DEF Pushes, EngineInv, Typed, NumbersIn
<1>5. Listing(sc, tb, b)
  BY <1>2 DEF Pushes, EngineInv, Listing
<1>6. Claimed(sc, b)
  BY <1>2 DEF Pushes, EngineInv, Claimed
<1>7. Owned(sc, a, b, u)
  <2> SUFFICES ASSUME ~u PROVE Owned(sc, a, b, u)
    BY DEF Owned
  <2>1. Owned(sc, ar, s, u) /\ DOMAIN a \subseteq DOMAIN ar \cup Uses(sc, f) /\ f.arg = NoItem
    BY DEF Pushes, EngineInv
  <2>2. ASSUME NEW st \in DOMAIN a PROVE \E k \in DOMAIN b : st \in Uses(sc, b[k])
    <3>1. CASE st \in Uses(sc, f)
      BY <1>2, <3>1
    <3>2. CASE st \notin Uses(sc, f)
      <4>1. PICK k \in DOMAIN s : st \in Uses(sc, s[k])
        BY <2>1, <3>2 DEF Owned
      <4> QED
        BY <1>2, <4>1
    <3> QED
      BY <3>1, <3>2
  <2> QED
    BY <1>2, <2>1, <2>2 DEF Owned
<1>9. Nested(b)
  <2>1. ASSUME NEW k \in 1 .. Len(s), Evaluates(s[k]) PROVE s[k].at # "ready"
    BY <1>2, <2>1 DEF Pushes, EngineInv, Nested
  <2> QED
    BY <1>2, <2>1 DEF Nested
<1> QED
  BY <1>9, <1>3, <1>4, <1>5, <1>6, <1>7 DEF EngineInv, b, Pushes

\* A frame that is clashed with stays what it is.
ClashedWith(f, X) == [f EXCEPT !.clash = @ \cup X]

\* Nothing but the stacks it clashes with changes in such a frame.
LEMMA ClashTyped ==
  ASSUME NEW f \in Frames, NEW X \in SUBSET Stacks
  PROVE  LET g == ClashedWith(f, X)
         IN  /\ g \in Frames
             /\ g.clash = f.clash \cup X /\ g.stay = f.stay /\ g.put = f.put /\ g.kind = f.kind
             /\ g.obj = f.obj /\ g.act = f.act /\ g.arg = f.arg /\ g.phase = f.phase
             /\ g.lost = f.lost /\ g.at = f.at /\ g.item = f.item /\ g.i = f.i
             /\ g.src = f.src /\ g.pos = f.pos /\ g.ran = f.ran /\ g.grew = f.grew
  BY DEF Frames, ClashedWith

\* The invariant survives a claim of stacks, and every frame clashes with them then.
LEMMA Claims ==
  ASSUME NEW sc, NEW tb, NEW ar, NEW s, NEW u, EngineInv(sc, tb, ar, s, u), NEW X \in SUBSET Stacks
  PROVE  /\ EngineInv(sc, tb, ar, Clashing(s, X), u)
         /\ DOMAIN Clashing(s, X) = DOMAIN s
         /\ \A k \in DOMAIN s : /\ X \subseteq Clashing(s, X)[k].clash
                               /\ Clashing(s, X)[k].stay = s[k].stay
                               /\ Clashing(s, X)[k].at = s[k].at
                               /\ Clashing(s, X)[k].kind = s[k].kind
                               /\ Clashing(s, X)[k].phase = s[k].phase
         /\ Len(Clashing(s, X)) = Len(s) /\ (s = << >> <=> Clashing(s, X) = << >>)
<1> DEFINE b == Clashing(s, X)
<1>1. s \in Seq(Frames)
  BY DEF EngineInv, Typed
<1>2. DOMAIN b = DOMAIN s /\ \A k \in DOMAIN s : b[k] = ClashedWith(s[k], X)
  BY DEF Clashing, ClashedWith
<1>3. b \in Seq(Frames)
  <2>1. ASSUME NEW k \in 1 .. Len(s) PROVE b[k] \in Frames
    <3>1. s[k] \in Frames /\ b[k] = ClashedWith(s[k], X)
      <4>1. s[k] \in Frames /\ k \in DOMAIN s
        BY <1>1
      <4> QED
        BY <1>2, <4>1
    <3> QED
      BY <3>1, ClashTyped
  <2>2. b = [k \in 1 .. Len(s) |-> b[k]]
    BY <1>1, <1>2 DEF Clashing
  <2> HIDE DEF b
  <2> QED
    BY <1>1, <2>1, <2>2
<1> HIDE DEF b
<1>4. ASSUME NEW k \in DOMAIN s
      PROVE  /\ b[k].clash = s[k].clash \cup X /\ b[k].stay = s[k].stay /\ b[k].put = s[k].put
             /\ b[k].kind = s[k].kind /\ b[k].obj = s[k].obj /\ b[k].act = s[k].act
             /\ b[k].arg = s[k].arg /\ b[k].phase = s[k].phase /\ b[k].lost = s[k].lost
             /\ b[k].at = s[k].at /\ b[k].item = s[k].item /\ b[k].i = s[k].i
             /\ b[k].src = s[k].src /\ b[k].pos = s[k].pos
             /\ b[k].ran = s[k].ran /\ b[k].grew = s[k].grew
  <2>1. s[k] \in Frames /\ b[k] = ClashedWith(s[k], X)
    BY <1>1, <1>2
  <2> QED
    BY <2>1, ClashTyped
<1>5. ASSUME NEW k \in DOMAIN s
      PROVE  /\ ActionOf(sc, b[k]) = ActionOf(sc, s[k]) /\ RunsCommand(sc, b[k]) = RunsCommand(sc, s[k])
             /\ Uses(sc, b[k]) = Uses(sc, s[k])
  BY <1>4 DEF ActionOf, RunsCommand, Uses
<1>6. ASSUME NEW k \in DOMAIN s PROVE Good(sc, tb, ar, b[k])
  <2>1. Good(sc, tb, ar, s[k])
    BY DEF EngineInv
  <2>2. b[k] \in Frames
    BY <1>2, <1>3
  <2>3. Standing(sc, b[k])
    BY <1>4, <1>5, <2>1 DEF Good, Standing
  <2>4. Progressing(sc, b[k])
    BY <1>4, <1>5, <2>1 DEF Good, Progressing
  <2>5. Held(sc, ar, b[k]) /\ Iterating(sc, tb, b[k])
    BY <1>4, <1>5, <2>1 DEF Good, Held, Iterating, MatchesOf, Behinds
  <2> QED
    BY <2>2, <2>3, <2>4, <2>5 DEF Good
<1>7. Typed(sc, ar, b)
  BY <1>3 DEF EngineInv, Typed
<1>9. Nested(b)
  <2>1. Len(b) = Len(s)
    BY <1>1, <1>2, <1>3
  <2> QED
    BY <1>1, <1>2, <1>4, <2>1 DEF EngineInv, Nested, Evaluates
<1>8. Listing(sc, tb, b) /\ Claimed(sc, b) /\ Owned(sc, ar, b, u)
  BY <1>2, <1>4, <1>5 DEF EngineInv, Listing, Claimed, Owned
<1>10. Len(b) = Len(s) /\ (s = << >> <=> b = << >>)
  BY <1>1, <1>2, <1>3
<1> QED
  BY <1>2, <1>4, <1>6, <1>7, <1>8, <1>9, <1>10 DEF EngineInv, b

-----------------------------------------------------------------------------
\* What the frame on top may become while the same function goes on.
SameRun(f, g) ==
  /\ g.kind = f.kind /\ g.obj = f.obj /\ g.act = f.act /\ g.lost = f.lost /\ g.src = f.src
  /\ g.pos = f.pos /\ g.clash = f.clash /\ g.ran = f.ran /\ g.stay = f.stay
  /\ g.grew = f.grew

\* A function that goes on is in the same action.
LEMMA SameRunSame ==
  ASSUME NEW sc, NEW tb, NEW f, NEW g, SameRun(f, g)
  PROVE  /\ ActionOf(sc, g) = ActionOf(sc, f) /\ RunsCommand(sc, g) = RunsCommand(sc, f)
         /\ f.kind # "event" => Iterating(sc, tb, g)
         /\ g.arg = f.arg => Uses(sc, g) = Uses(sc, f)
         /\ g.arg = NoItem => Uses(sc, g) \subseteq Uses(sc, f)
<1>1. ActionOf(sc, g) = ActionOf(sc, f)
  BY DEF SameRun, ActionOf
<1>2. RunsCommand(sc, g) = RunsCommand(sc, f)
  BY <1>1 DEF SameRun, RunsCommand
<1>3. f.kind # "event" => Iterating(sc, tb, g)
  BY DEF SameRun, Iterating
<1>4. g.arg = f.arg => Uses(sc, g) = Uses(sc, f)
  BY <1>1, <1>2 DEF SameRun, Uses
<1>5. g.arg = NoItem => Uses(sc, g) \subseteq Uses(sc, f)
  BY <1>1, <1>2 DEF SameRun, Uses
<1> QED
  BY <1>1, <1>2, <1>3, <1>4, <1>5

\* The frame on top is one of the frames.
LEMMA TopGood ==
  ASSUME NEW sc, NEW tb, NEW ar, NEW s, NEW u, EngineInv(sc, tb, ar, s, u), s # << >>
  PROVE  /\ s[Len(s)] \in Frames /\ Good(sc, tb, ar, s[Len(s)]) /\ NumbersIn(ar)
         /\ Len(s) \in DOMAIN s /\ Len(s) \in Nat \ {0}
         /\ s[Len(s)].stay \subseteq {x.data : x \in Items(tb)}
<1>1. s \in Seq(Frames)
  BY DEF EngineInv, Typed
<1>2. Len(s) \in DOMAIN s /\ Len(s) \in Nat \ {0} /\ s[Len(s)] \in Frames
  BY <1>1
<1> QED
  BY <1>2 DEF EngineInv, Typed, NumbersIn, Listing

\* A handler or a scene goes on: arguments are not its concern.
LEMMA GoesOn ==
  ASSUME NEW sc, NEW tb, NEW ar, NEW s, NEW u, EngineInv(sc, tb, ar, s, u), s # << >>,
         NEW g \in Frames, s[Len(s)].kind # "command", g.kind = s[Len(s)].kind,
         g.put = s[Len(s)].put, g.clash = s[Len(s)].clash, g.stay = s[Len(s)].stay,
         Standing(sc, g), Iterating(sc, tb, g), g.arg = NoItem
  PROVE  Replaces(sc, tb, ar, s, u, ar, g)
<1> DEFINE f == s[Len(s)]
<1>1. Good(sc, tb, ar, f) /\ NumbersIn(ar)
  BY TopGood
<1>2. ~RunsCommand(sc, f) /\ ~RunsCommand(sc, g)
  BY DEF RunsCommand
<1>3. Uses(sc, g) = Uses(sc, f)
  BY <1>2 DEF Uses
<1>4. Good(sc, tb, ar, g)
  BY <1>1, <1>2 DEF Good, Held, Progressing
<1> HIDE DEF f
<1> QED
  BY <1>1, <1>2, <1>3, <1>4 DEF Replaces, KeepsBut, OwnArgument, f

\* A command goes on: it may have created the stack of the argument it is at, or have
\* stored in it.
LEMMA CommandGoesOn ==
  ASSUME NEW sc, NEW tb, NEW ar, NEW s, NEW u, EngineInv(sc, tb, ar, s, u), s # << >>,
         NEW g \in Frames, s[Len(s)].kind = "command", SameRun(s[Len(s)], g),
         Standing(sc, g), Progressing(sc, g), NEW a, NumbersIn(a), Held(sc, a, g),
         KeepsBut(ar, a, Uses(sc, s[Len(s)])), Uses(sc, g) \subseteq Uses(sc, s[Len(s)]),
         DOMAIN a \subseteq DOMAIN ar \cup Uses(sc, s[Len(s)]), OwnArgument(sc, s[Len(s)]) => OwnArgument(sc, g)
  PROVE  Replaces(sc, tb, ar, s, u, a, g)
<1> DEFINE f == s[Len(s)]
<1>1. Good(sc, tb, ar, f)
  BY TopGood
<1>2. Good(sc, tb, a, g)
  BY <1>1, SameRunSame DEF Good
<1>3. ~u => OwnArgument(sc, f)
  BY TopGood DEF EngineInv, Owned, OwnArgument
<1>4. OwnArgument(sc, f) /\ OwnArgument(sc, g) => Uses(sc, f) = Uses(sc, g)
  BY SameRunSame DEF Uses, OwnArgument, SameRun
<1>5. g.stay = f.stay
  BY DEF SameRun
<1> HIDE DEF f
<1> QED
  BY <1>2, <1>3, <1>4, <1>5 DEF Replaces, f

-----------------------------------------------------------------------------
\* The handlers.
LEMMA IdleStep ==
  ASSUME NEW s, Idle(s), EngineInv(scene, table, args', s, inUse), events' \in Nat
  PROVE  SceneInv'
  BY DEF Idle, SceneInv

\* A scene that is found by its name exists and is in the table.
LEMMA SceneIs ==
  ASSUME SceneInv, NEW n \in Names, Exists(n)
  PROVE  /\ Scene(n) \in DOMAIN scene /\ Scene(n) \in Nat
         /\ \E x \in Items(table) : x.key = Crc[n] /\ x.data = Scene(n)
<1>1. Sound(table, Nat) /\ Crc[n] \in 0 .. KeyBound - 1
  BY ScenesAssumption DEF SceneInv, EngineInv, Listing
<1>2. \E x \in Items(table) : x.key = Crc[n] /\ x.data = Scene(n)
  BY <1>1, Found DEF Exists, Scene
<1>3. \A x \in Items(table) : x.data \in DOMAIN scene
  BY DEF SceneInv, EngineInv, Listing
<1>4. scene \in Seq(SceneRecords)
  BY DEF SceneInv, EngineInv, Typed
<1>5. \A o \in DOMAIN scene : o \in Nat
  BY <1>4
<1> QED
  BY <1>2, <1>3, <1>5

\* The scenes that are there.
LEMMA PlacesTaken ==
  ASSUME SceneInv, NEW o \in Present
  PROVE  /\ o \in DOMAIN scene /\ o \in Nat
         /\ Place(scene, table, o) \in Occupied(table) /\ Place(scene, table, o) \in Nat
         /\ table.node[Place(scene, table, o)].data = o
<1>1. Sound(table, Nat) /\ \A x \in Items(table) : x.data \in DOMAIN scene /\ x.key = Crc[scene[x.data].name]
  BY DEF SceneInv, EngineInv, Listing
<1>2. PICK x \in Items(table) : x.data = o
  BY DEF Present
<1>3. Index(x.key, Size(table)) \in Occupied(table) /\ table.node[Index(x.key, Size(table))] = x
  BY <1>1, ItemsPlaced
<1>4. Place(scene, table, o) = Index(x.key, Size(table))
  BY <1>1, <1>2 DEF Place
<1>5. \A i \in Occupied(table) : i \in Nat
  BY <1>1, SizeIs DEF Sound, Occupied
<1>6. scene \in Seq(SceneRecords)
  BY DEF SceneInv, EngineInv, Typed
<1>7. \A i \in DOMAIN scene : i \in Nat
  BY <1>6
<1> QED
  BY <1>1, <1>2, <1>3, <1>4, <1>5, <1>7

\* A new frame is a frame.
LEMMA NewFrameIs ==
  ASSUME NEW kind \in {"event", "activation", "scene", "command"}, NEW o \in Nat
  PROVE  /\ NewFrame(kind, o) \in Frames
         /\ NewFrame(kind, o).kind = kind /\ NewFrame(kind, o).obj = o
         /\ NewFrame(kind, o).arg = NoItem /\ NewFrame(kind, o).put = {}
         /\ NewFrame(kind, o).at = "ready" /\ NewFrame(kind, o).phase = "none"
         /\ NewFrame(kind, o).item = 1 /\ NewFrame(kind, o).i = 0
         /\ NewFrame(kind, o).stay = {}
         /\ NewFrame(kind, o).pos = -1 /\ NewFrame(kind, o).grew = FALSE
  BY DEF NewFrame, Frames

\* Scene o is entered above s.
LEMMA Entered ==
  ASSUME NEW s, NEW a, EngineInv(scene, table, a, s, inUse), NEW o \in DOMAIN scene,
         s # << >> /\ Evaluates(s[Len(s)]) => s[Len(s)].at # "ready"
  PROVE  EngineInv(scene, table, a, Executing(s, o), inUse)
<1> DEFINE f == [NewFrame("scene", o) EXCEPT !.phase = "cond"]
<1>1. scene \in Seq(SceneRecords)
  BY DEF EngineInv, Typed
<1>2. o \in Nat
  BY <1>1
<1>3. f \in Frames /\ f.kind = "scene" /\ f.obj = o /\ f.phase = "cond" /\ f.arg = NoItem
      /\ f.put = {} /\ f.stay = {} /\ f.at = "ready" /\ f.item = 1 /\ f.i = 0
  <2>1. NewFrame("scene", o) \in Frames
    BY <1>2, NewFrameIs
  <2>2. f \in Frames
    BY <2>1 DEF Frames
  <2> QED
    BY <2>2 DEF NewFrame
<1> HIDE DEF f
<1>4. ~RunsCommand(scene, f)
  BY <1>3 DEF RunsCommand
<1>5. Uses(scene, f) = {}
  BY <1>3, <1>4 DEF Uses
<1>6. Good(scene, table, a, f)
  BY <1>3, <1>4 DEF Good, Standing, Progressing, Held, Iterating
<1>7. NumbersIn(a)
  BY DEF EngineInv, Typed, NumbersIn
<1>8. Pushes(scene, table, a, s, inUse, a, f)
  BY <1>3, <1>5, <1>6, <1>7 DEF Pushes, KeepsBut
<1>9. EngineInv(scene, table, a, Append(s, f), inUse)
  BY <1>8, PushedTop
<1> QED
  BY <1>9 DEF Executing, f

\* When the command line or an event has its turn, the function on top waits.
LEMMA ClientPauses ==
  ASSUME Client
  PROVE  stack # << >> => stack[Len(stack)].at # "ready"
  BY DEF Client, Top

\* The handler of a device event, entered: it claims SensorEvent.
LEMMA DeviceEventKeeps == ASSUME SceneInv, NEW src \in DeviceEvents, DeviceEvent(src) PROVE SceneInv'
<1> DEFINE X == {"SensorEvent"}
           s == Clashing(stack, X)
           b == Added(Created(args, "SensorEvent"), "SensorEvent", "EventData", events + 1)
           x == [stack |-> "SensorEvent", name |-> "EventData", value |-> events + 1]
           ran == [o \in DOMAIN scene |-> 0]
           f == [NewFrame("event", 0) EXCEPT !.src = src, !.stay = Present, !.ran = ran, !.put = {x}]
<1>1. events \in Nat /\ X \in SUBSET Stacks /\ scene \in Seq(SceneRecords)
      /\ EngineInv(scene, table, args, stack, inUse) /\ NumbersIn(args)
  BY DEF SceneInv, Stacks, EngineInv, Typed, NumbersIn
<1>2. /\ EngineInv(scene, table, args, s, inUse) /\ DOMAIN s = DOMAIN stack /\ Len(s) = Len(stack)
      /\ \A k \in DOMAIN s : X \subseteq s[k].clash
      /\ s # << >> => s[Len(s)].at # "ready"
  <2>1. stack # << >> => Len(stack) \in DOMAIN stack
    BY <1>1, TopGood
  <2> QED
    BY <1>1, <2>1, Claims, ClientPauses DEF DeviceEvent
<1> HIDE DEF s
<1>3. /\ "SensorEvent" \in DOMAIN b /\ "EventData" \in DOMAIN b["SensorEvent"]
      /\ b["SensorEvent"]["EventData"] = events + 1
      /\ DOMAIN b = DOMAIN args \cup X /\ \A st \in DOMAIN args \ X : b[st] = args[st]
      /\ \A m \in DOMAIN b["SensorEvent"] \ {"EventData"} :
           "SensorEvent" \in DOMAIN args /\ m \in DOMAIN args["SensorEvent"]
           /\ b["SensorEvent"][m] = args["SensorEvent"][m]
  BY DEF Added, Created
<1>4. args' = b /\ Idle(Append(s, f)) /\ events' = events + 1
  BY DEF DeviceEvent, s
<1> HIDE DEF b
<1>5. NumbersIn(b) /\ KeepsBut(args, b, X)
  BY <1>1, <1>3 DEF NumbersIn, KeepsBut
<1>6. ran \in Seq(Nat)
  <2>1. ran = [o \in 1 .. Len(scene) |-> 0] /\ Len(scene) \in Nat
    BY <1>1
  <2> QED
    BY <2>1
<1>7. Present \subseteq Nat
  BY PlacesTaken
<1>8. x \in [stack : Stacks, name : ArgumentNames, value : Nat]
  BY <1>1 DEF Stacks, ArgumentNames
<1>9. f \in Frames /\ f.kind = "event" /\ f.phase = "none" /\ f.arg = NoItem /\ f.put = {x}
      /\ f.stay = Present /\ f.at = "ready" /\ f.pos = -1 /\ f.ran = ran /\ f.obj = 0
      /\ f.item = 1 /\ f.i = 0
  <2>1. NewFrame("event", 0) \in Frames
    BY NewFrameIs
  <2> HIDE DEF x, ran
  <2>2. f \in Frames
    BY <1>6, <1>7, <1>8, <2>1 DEF Frames
  <2> QED
    BY <2>2 DEF NewFrame
<1> HIDE DEF f
<1>10. ~RunsCommand(scene, f) /\ Uses(scene, f) = X
  BY <1>1, <1>9 DEF RunsCommand, Uses
<1>11. Standing(scene, f) /\ Progressing(scene, f) /\ Held(scene, b, f)
  BY <1>3, <1>9, <1>10 DEF Standing, Progressing, Held
<1>12. Iterating(scene, table, f)
  <2>1. ASSUME NEW o \in f.stay \cap DOMAIN f.ran
        PROVE  Place(scene, table, o) \in Nat /\ o # 0 /\ f.ran[o] = 0
    <3>1. o \in Present /\ o \in DOMAIN scene
      BY <1>9
    <3>2. o # 0
      BY <1>1, <3>1
    <3> QED
      BY <1>9, <3>1, <3>2, PlacesTaken
  <2> QED
    BY <1>9, <2>1 DEF Iterating
<1>13. Pushes(scene, table, args, s, inUse, b, f)
  BY <1>2, <1>3, <1>5, <1>9, <1>10, <1>11, <1>12 DEF Pushes, Good, Present
<1>14. EngineInv(scene, table, b, Append(s, f), inUse)
  BY <1>13, PushedTop
<1> QED
  BY <1>1, <1>4, <1>14, IdleStep

\* The handler of an activation event, entered.
LEMMA ActivationEventKeeps ==
  ASSUME SceneInv, NEW service \in Services, NEW n \in Names, ActivationEvent(service, n)
  PROVE  SceneInv'
<1> DEFINE f == [NewFrame("activation", Scene(n)) EXCEPT
                 !.src = [name |-> service, class |-> service]]
<1>1. EngineInv(scene, table, args, stack, inUse) /\ events \in Nat /\ NumbersIn(args)
  BY DEF SceneInv, EngineInv, Typed, NumbersIn
<1>2. args' = args /\ events' = events + 1
  BY DEF ActivationEvent
<1>3. CASE Exists(n)
  <2>1. Scene(n) \in DOMAIN scene /\ Scene(n) \in Nat
    BY <1>3, SceneIs
  <2>2. f \in Frames /\ f.kind = "activation" /\ f.phase = "none" /\ f.arg = NoItem /\ f.put = {}
        /\ f.stay = {} /\ f.at = "ready" /\ f.obj = Scene(n) /\ f.item = 1 /\ f.i = 0
    <3>1. NewFrame("activation", Scene(n)) \in Frames
      BY <2>1, NewFrameIs
    <3>2. f \in Frames
      BY <3>1 DEF Frames
    <3> QED
      BY <3>2 DEF NewFrame
  <2>3. Idle(Append(stack, f))
    BY <1>3 DEF ActivationEvent
  <2> HIDE DEF f
  <2>4. ~RunsCommand(scene, f) /\ Uses(scene, f) = {}
    BY <2>2 DEF RunsCommand, Uses
  <2>5. Good(scene, table, args, f)
    BY <2>1, <2>2, <2>4 DEF Good, Standing, Progressing, Held, Iterating
  <2>6. Pushes(scene, table, args, stack, inUse, args, f)
    BY <1>1, <2>2, <2>4, <2>5, ClientPauses DEF Pushes, KeepsBut, ActivationEvent
  <2> QED
    BY <1>1, <1>2, <2>3, <2>6, PushedTop, IdleStep
<1>4. CASE ~Exists(n)
  <2>1. Idle(stack)
    BY <1>4 DEF ActivationEvent
  <2> QED
    BY <1>1, <1>2, <2>1, IdleStep
<1> QED
  BY <1>3, <1>4

\* The invariant, at the frame on top.
LEMMA TopIs ==
  ASSUME SceneInv, stack # << >>
  PROVE  /\ EngineInv(scene, table, args, stack, inUse) /\ events \in Nat /\ NumbersIn(args)
         /\ scene \in Seq(SceneRecords)
         /\ Top = stack[Len(stack)] /\ Top \in Frames /\ Good(scene, table, args, Top)
         /\ Standing(scene, Top) /\ Progressing(scene, Top) /\ Held(scene, args, Top)
         /\ Iterating(scene, table, Top)
<1>1. EngineInv(scene, table, args, stack, inUse) /\ events \in Nat /\ scene \in Seq(SceneRecords)
  BY DEF SceneInv, EngineInv, Typed
<1>2. stack[Len(stack)] \in Frames /\ Good(scene, table, args, stack[Len(stack)]) /\ NumbersIn(args)
  BY <1>1, TopGood
<1> QED
  BY <1>1, <1>2 DEF Top, Good

\* The sources of a scene that match are counted one by one.
LEMMA MatchesCounted ==
  ASSUME NEW sc, NEW f, NEW o, NEW S, sc[o].sources \in Seq(S), NEW m \in Nat
  PROVE  /\ Cardinality(Behinds(sc, f, o, 1)) = 0
         /\ m > Len(sc[o].sources) => Cardinality(Behinds(sc, f, o, m)) = MatchesOf(sc, f, o)
         /\ m \in DOMAIN sc[o].sources =>
              Cardinality(Behinds(sc, f, o, m + 1)) =
                Cardinality(Behinds(sc, f, o, m)) + (IF Matching(sc[o].sources[m], f.src) THEN 1 ELSE 0)
<1> DEFINE l == sc[o].sources
<1>1. DOMAIN l = 1 .. Len(l) /\ Len(l) \in Nat
  OBVIOUS
<1>2. Behinds(sc, f, o, 1) = {}
  BY <1>1 DEF Behinds
<1>3. ASSUME m > Len(l) PROVE Cardinality(Behinds(sc, f, o, m)) = MatchesOf(sc, f, o)
  <2>1. Behinds(sc, f, o, m) = {p \in DOMAIN l : Matching(l[p], f.src)}
    BY <1>1, <1>3 DEF Behinds
  <2> QED
    BY <2>1 DEF MatchesOf
<1>4. ASSUME m \in DOMAIN l
      PROVE  Cardinality(Behinds(sc, f, o, m + 1)) =
               Cardinality(Behinds(sc, f, o, m)) + (IF Matching(l[m], f.src) THEN 1 ELSE 0)
  <2>1. IsFiniteSet(Behinds(sc, f, o, m))
    <3>1. IsFiniteSet(1 .. Len(l))
      BY <1>1, FS_Interval
    <3>2. Behinds(sc, f, o, m) \subseteq 1 .. Len(l)
      BY <1>1 DEF Behinds
    <3> QED
      BY <3>1, <3>2, FS_Subset
  <2>2. m \notin Behinds(sc, f, o, m)
    BY <1>1, <1>4 DEF Behinds
  <2>3. Behinds(sc, f, o, m + 1) =
          IF Matching(l[m], f.src) THEN Behinds(sc, f, o, m) \cup {m} ELSE Behinds(sc, f, o, m)
    BY <1>1, <1>4 DEF Behinds
  <2>4. Cardinality(Behinds(sc, f, o, m)) \in Nat
        /\ Cardinality(Behinds(sc, f, o, m) \cup {m}) = Cardinality(Behinds(sc, f, o, m)) + 1
    BY <2>1, <2>2, FS_AddElement, FS_CardinalityType
  <2> QED
    BY <2>3, <2>4
<1> QED
  BY <1>2, <1>3, <1>4, FS_EmptySet

\* The sources of the scene that a handler stands at.
LEMMA SourcesAre ==
  ASSUME SceneInv, stack # << >>, Top.obj \in DOMAIN scene
  PROVE  Sources \in Seq(SourceNames) /\ Len(Sources) \in Nat /\ Top.i \in Nat /\ Top.obj # 0
<1>1. scene \in Seq(SceneRecords) /\ Top \in Frames
  BY TopIs
<1>2. scene[Top.obj] \in SceneRecords
  BY <1>1
<1>3. Sources \in Seq(SourceNames)
  BY <1>2 DEF Sources, SceneRecords
<1>4. Top.obj # 0
  BY <1>1
<1> QED
  BY <1>1, <1>3, <1>4 DEF Frames

\* The frame that replaces the one on top is on top.
LEMMA LastIs ==
  ASSUME NEW S, NEW s \in Seq(S), s # << >>, NEW f \in S
  PROVE  LET b == Append(SubSeq(s, 1, Len(s) - 1), f) IN b # << >> /\ b[Len(b)] = f
<1>1. Append(SubSeq(s, 1, Len(s) - 1), f) \in Seq(S)
      /\ Len(Append(SubSeq(s, 1, Len(s) - 1), f)) = Len(s) /\ Len(s) \in Nat \ {0}
      /\ Append(SubSeq(s, 1, Len(s) - 1), f)[Len(s)] = f
  BY LastReplaced
<1> QED
  BY <1>1

\* The iterator moves on, or the walk of the sources does and counts an execution.
At(f, p, o) == [f EXCEPT !.pos = p, !.obj = o, !.i = 0, !.item = 1]
Ran(f, r) == [f EXCEPT !.i = @ + 1, !.item = @ + 1, !.at = "ready", !.arg = NoItem, !.ran = r]

SameHandler(f, g) ==
  /\ g.kind = f.kind /\ g.phase = f.phase /\ g.put = f.put /\ g.stay = f.stay
  /\ g.clash = f.clash /\ g.grew = f.grew /\ g.src = f.src /\ g.lost = f.lost

\* The iterator of a handler is moved.
LEMMA Turned ==
  ASSUME NEW f \in Frames, NEW p \in Nat, NEW o \in Nat
  PROVE  LET g == At(f, p, o)
         IN  /\ g \in Frames /\ SameHandler(f, g) /\ g.at = f.at /\ g.arg = f.arg
             /\ g.pos = p /\ g.obj = o /\ g.i = 0 /\ g.item = 1 /\ g.ran = f.ran
  BY DEF Frames, At, SameHandler

\* A source of a handler's scene is behind.
LEMMA Counted ==
  ASSUME NEW f \in Frames, NEW r \in Seq(Nat)
  PROVE  LET g == Ran(f, r)
         IN  /\ g \in Frames /\ SameHandler(f, g) /\ g.at = "ready" /\ g.arg = NoItem
             /\ g.pos = f.pos /\ g.obj = f.obj /\ g.i = f.i + 1 /\ g.item = f.item + 1 /\ g.ran = r
<1>1. f.i + 1 \in Nat /\ f.item + 1 \in Nat
  BY DEF Frames
<1>2. \A m, n \in Nat :
        [f EXCEPT !.i = m, !.item = n, !.at = "ready", !.arg = NoItem, !.ran = r] \in Frames
  BY DEF Frames
<1>3. Ran(f, r) \in Frames
  BY <1>1, <1>2 DEF Ran
<1> QED
  BY <1>3 DEF Frames, Ran, SameHandler

\* The iterator moves on to the least index that holds a scene: none is passed by.
LEMMA NextSceneKeeps == ASSUME SceneInv, NextScene PROVE SceneInv'
<1> DEFINE A == After(table, Top.pos)
           p == Min(A)
           o == table.node[p].data
           f == Top
           g == At(f, p, o)
<1>1. EngineInv(scene, table, args, stack, inUse) /\ events \in Nat /\ stack # << >>
      /\ f.kind = "event" /\ f.at = "ready" /\ SourcesDone /\ A # {}
      /\ Sound(table, Nat) /\ scene \in Seq(SceneRecords)
      /\ \A x \in Items(table) : x.data \in DOMAIN scene
  BY DEF NextScene, Ready, Running, SceneInv, EngineInv, Listing, Typed
<1>2. f \in Frames /\ Good(scene, table, args, f) /\ f.stay \subseteq Present /\ f = stack[Len(stack)]
  BY <1>1, TopGood DEF Top, Present
<1>3. A \in SUBSET Nat /\ A \subseteq Occupied(table) /\ \A i \in A : i > f.pos
  BY <1>1, SizeIs DEF Sound, After, Occupied
<1>4. p \in A /\ \A i \in A : p <= i
  BY <1>1, <1>3, LeastNat
<1>5. p \in Nat /\ p > f.pos /\ p \in Occupied(table)
  BY <1>3, <1>4
<1>6. o \in DOMAIN scene /\ o \in Nat
  BY <1>1, <1>5 DEF Items
<1>7. Idle(WithTop(g)) /\ args' = args /\ events' = events
  BY DEF NextScene, At
<1>8. ASSUME NEW q \in DOMAIN scene
      PROVE  /\ Cardinality(Behinds(scene, f, q, 1)) = 0
             /\ q = f.obj /\ f.item = f.i + 1 =>
                  Cardinality(Behinds(scene, f, q, f.item)) = MatchesOf(scene, f, q)
  <2>1. scene[q] \in SceneRecords
    BY <1>1
  <2> HIDE DEF f
  <2>0. f.item \in Nat /\ f.i \in Nat
    BY <1>2 DEF Frames
  <2>2. scene[q].sources \in Seq(SourceNames)
    BY <2>1 DEF SceneRecords
  <2>3. q = f.obj => f.i >= Len(scene[q].sources)
    BY <1>1, <1>8, SourcesAre DEF SourcesDone, Sources, f
  <2>4. Len(scene[q].sources) \in Nat
    BY <2>2
  <2>5. q = f.obj /\ f.item = f.i + 1 => f.item > Len(scene[q].sources)
    BY <2>0, <2>3, <2>4
  <2>6. /\ Cardinality(Behinds(scene, f, q, 1)) = 0
        /\ f.item > Len(scene[q].sources) =>
             Cardinality(Behinds(scene, f, q, f.item)) = MatchesOf(scene, f, q)
    BY ONLY <2>0, <2>2, MatchesCounted
  <2> QED
    BY <2>5, <2>6
<1> HIDE DEF p, o, A, f
<1>9. g \in Frames /\ g.kind = "event" /\ g.phase = f.phase /\ g.arg = f.arg /\ g.put = f.put
      /\ g.stay = f.stay /\ g.at = "ready" /\ g.pos = p /\ g.ran = f.ran /\ g.i = 0 /\ g.item = 1
      /\ g.obj = o /\ g.clash = f.clash /\ g.grew = f.grew /\ g.src = f.src
  <2>1. f \in Frames /\ p \in Nat /\ o \in Nat
    BY <1>2, <1>5, <1>6
  <2>2. /\ g \in Frames /\ SameHandler(f, g) /\ g.at = f.at /\ g.arg = f.arg
        /\ g.pos = p /\ g.obj = o /\ g.i = 0 /\ g.item = 1 /\ g.ran = f.ran
    BY ONLY <2>1, Turned
  <2>3. f.kind = "event" /\ f.at = "ready"
    BY <1>1
  <2> HIDE DEF g
  <2> QED
    BY ONLY <2>2, <2>3 DEF SameHandler
<1> HIDE DEF g
<1>10. f.arg = NoItem /\ f.phase = "none" /\ f.pos \in {-1} \cup Nat
  BY <1>1, <1>2 DEF Good, Standing, Frames
<1>11. Standing(scene, g)
  BY <1>6, <1>9, <1>10 DEF Standing
<1>12. Iterating(scene, table, g)
  <2> SUFFICES ASSUME ~g.grew, NEW q \in g.stay \cap DOMAIN g.ran
               PROVE  /\ Place(scene, table, q) < p => f.ran[q] = MatchesOf(scene, g, q)
                      /\ Place(scene, table, q) = p => f.ran[q] = Cardinality(Behinds(scene, g, q, 1))
                      /\ Place(scene, table, q) > p => f.ran[q] = 0
                      /\ Place(scene, table, q) = p <=> q = o
    BY <1>9 DEF Iterating
  <2> DEFINE m == Place(scene, table, q)
  <2>1. m \in Occupied(table) /\ m \in Nat /\ table.node[m].data = q /\ q \in DOMAIN scene
    BY <1>2, <1>9, PlacesTaken
  <2>2. /\ m < f.pos => f.ran[q] = MatchesOf(scene, f, q)
        /\ m = f.pos => /\ q = f.obj /\ f.item = f.i + 1
                        /\ f.ran[q] = Cardinality(Behinds(scene, f, q, f.item))
        /\ m > f.pos => f.ran[q] = 0
    BY <1>1, <1>2, <1>9 DEF Good, Iterating
  <2>3. MatchesOf(scene, g, q) = MatchesOf(scene, f, q)
        /\ Behinds(scene, g, q, 1) = Behinds(scene, f, q, 1)
    BY <1>9 DEF MatchesOf, Behinds
  <2>4. m > f.pos => m >= p
    BY <1>4, <2>1, <1>5 DEF After, A, f
  <2>6. m = p => q = o
    BY <2>1 DEF o
  <2>7. q = o => m = p
    <3>1. table.node[p] \in Items(table)
      BY <1>5 DEF Items
    <3>2. Index(table.node[p].key, Size(table)) = p
      BY <1>1, <1>5 DEF Sound
    <3>3. table.node[p].key = Crc[scene[o].name]
      BY <3>1 DEF SceneInv, EngineInv, Listing, o
    <3> QED
      BY <3>2, <3>3 DEF Place
  <2>11. m = f.pos => f.ran[q] = MatchesOf(scene, f, q)
    BY <1>8, <2>1, <2>2
  <2> HIDE DEF m
  <2>8. m < p => f.ran[q] = MatchesOf(scene, g, q)
    BY <1>5, <1>10, <2>1, <2>2, <2>3, <2>4, <2>11
  <2>9. m = p => f.ran[q] = Cardinality(Behinds(scene, g, q, 1))
    BY <1>5, <1>8, <1>10, <2>1, <2>2, <2>3
  <2>10. m > p => f.ran[q] = 0
    BY <1>5, <1>10, <2>1, <2>2
  <2> QED
    BY <2>6, <2>7, <2>8, <2>9, <2>10 DEF m
<1>13. Replaces(scene, table, args, stack, inUse, args, g)
  BY <1>1, <1>2, <1>9, <1>10, <1>11, <1>12, GoesOn
<1>14. EngineInv(scene, table, args, WithTop(g), inUse)
  BY <1>13, ReplacedTop DEF WithTop, Below
<1> QED
  BY <1>1, <1>7, <1>14, IdleStep

\* The walk of the sources moves on, and its executions are counted in r.
LEMMA RanKeeps ==
  ASSUME SceneInv, RunScene, NEW r \in Seq(Nat), DOMAIN r = DOMAIN Top.ran,
         \A x \in DOMAIN r :
           r[x] = Top.ran[x] + IF x = Top.obj /\ Matching(Sources[Top.item], Top.src) THEN 1 ELSE 0
  PROVE  /\ EngineInv(scene, table, args, WithTop(Ran(Top, r)), inUse)
         /\ WithTop(Ran(Top, r)) # << >>
         /\ WithTop(Ran(Top, r))[Len(WithTop(Ran(Top, r)))].phase = "none"
         /\ Top.obj \in DOMAIN scene
<1> DEFINE f == Top
           o == f.obj
           g == Ran(f, r)
           hit == Matching(Sources[f.item], f.src)
<1>1. EngineInv(scene, table, args, stack, inUse) /\ stack # << >>
      /\ f.kind \in {"event", "activation"} /\ f.at = "ready" /\ o # 0 /\ ~(f.i >= Len(Sources))
  BY DEF RunScene, Ready, Running, SceneInv, SourcesDone
<1>2. f \in Frames /\ Good(scene, table, args, f) /\ f.stay \subseteq Present /\ f = stack[Len(stack)]
      /\ scene \in Seq(SceneRecords)
  BY <1>1, TopGood, TopIs DEF Top, Present
<1>3. f.ran \in Seq(Nat) /\ o \in DOMAIN scene /\ f.item \in Nat /\ f.i \in Nat
      /\ f.item <= f.i + 1 /\ f.item >= 1
  BY <1>1, <1>2 DEF Frames, Good, Standing
<1>4. Sources \in Seq(SourceNames) /\ Len(Sources) \in Nat
  BY <1>1, <1>3, SourcesAre
<1>5. f.item \in DOMAIN Sources /\ Sources = scene[o].sources
  BY <1>1, <1>3, <1>4 DEF Sources
<1>6. Cardinality(Behinds(scene, f, o, f.item + 1)) =
        Cardinality(Behinds(scene, f, o, f.item)) + (IF hit THEN 1 ELSE 0)
  BY <1>3, <1>4, <1>5, MatchesCounted
<1>8. DOMAIN r = DOMAIN f.ran
  OBVIOUS
<1>7. \A x \in DOMAIN f.ran : /\ r[x] = f.ran[x] + (IF x = o /\ hit THEN 1 ELSE 0)
                               /\ f.ran[x] \in Nat
  <2>1. \A x \in DOMAIN f.ran : r[x] = f.ran[x] + (IF x = o /\ hit THEN 1 ELSE 0)
    BY <1>8
  <2> HIDE DEF f
  <2>2. \A x \in DOMAIN f.ran : f.ran[x] \in Nat
    BY <1>3
  <2> QED
    BY <2>1, <2>2
<1> HIDE DEF f, hit
<1>9. g \in Frames /\ g.kind = f.kind /\ g.phase = f.phase /\ g.arg = NoItem /\ g.put = f.put
      /\ g.stay = f.stay /\ g.at = "ready" /\ g.pos = f.pos /\ g.ran = r
      /\ g.i = f.i + 1 /\ g.item = f.item + 1
      /\ g.obj = o /\ g.clash = f.clash /\ g.grew = f.grew /\ g.src = f.src
  <2>1. /\ g \in Frames /\ SameHandler(f, g) /\ g.at = "ready" /\ g.arg = NoItem
        /\ g.pos = f.pos /\ g.obj = f.obj /\ g.i = f.i + 1 /\ g.item = f.item + 1 /\ g.ran = r
    BY <1>2, Counted
  <2> HIDE DEF g
  <2> QED
    BY ONLY <2>1 DEF SameHandler
<1> HIDE DEF g
<1>10. f.arg = NoItem /\ f.phase = "none" /\ f.pos \in {-1} \cup Nat
  BY <1>1, <1>2 DEF Good, Standing, Frames
<1>11. Standing(scene, g)
  BY <1>1, <1>3, <1>9, <1>10 DEF Standing
<1>12. Iterating(scene, table, g)
  <2> SUFFICES ASSUME g.kind = "event", ~g.grew, NEW q \in g.stay \cap DOMAIN g.ran
               PROVE  /\ Place(scene, table, q) < f.pos => r[q] = MatchesOf(scene, g, q)
                      /\ Place(scene, table, q) = f.pos =>
                           /\ f.item + 1 = f.i + 1 + 1
                           /\ r[q] = Cardinality(Behinds(scene, g, q, f.item + 1))
                      /\ Place(scene, table, q) > f.pos => r[q] = 0
                      /\ Place(scene, table, q) = f.pos <=> q = o
    BY <1>9 DEF Iterating
  <2> DEFINE m == Place(scene, table, q)
  <2>1. /\ m < f.pos => f.ran[q] = MatchesOf(scene, f, q)
        /\ m = f.pos => f.item = f.i + 1 /\ f.ran[q] = Cardinality(Behinds(scene, f, q, f.item))
        /\ m > f.pos => f.ran[q] = 0
        /\ m = f.pos <=> q = o
    BY <1>1, <1>2, <1>8, <1>9 DEF Good, Iterating
  <2>2. MatchesOf(scene, g, q) = MatchesOf(scene, f, q)
        /\ Behinds(scene, g, q, f.item + 1) = Behinds(scene, f, q, f.item + 1)
    BY <1>9 DEF MatchesOf, Behinds
  <2>0. q \in DOMAIN f.ran
    BY <1>8, <1>9
  <2>3. r[q] = (f.ran[q] + IF q = o /\ hit THEN 1 ELSE 0) /\ f.ran[q] \in Nat
    BY <1>7, <2>0
  <2>4. m \in Nat
    BY <1>2, <1>9, PlacesTaken
  <2> HIDE DEF m
  <2>5. q # o => r[q] = f.ran[q]
    BY <2>3
  <2>6. q = o => r[q] = Cardinality(Behinds(scene, f, q, f.item + 1))
    BY <1>6, <2>1, <2>3
  <2> HIDE DEF o
  <2>7. m < f.pos => r[q] = MatchesOf(scene, g, q)
    BY <1>10, <2>1, <2>2, <2>4, <2>5
  <2>9. m > f.pos => r[q] = 0
    BY <1>10, <2>1, <2>4, <2>5
  <2>10. m = f.pos => f.item + 1 = f.i + 1 + 1 /\ r[q] = Cardinality(Behinds(scene, g, q, f.item + 1))
    BY <2>1, <2>2, <2>6
  <2> QED
    BY <2>1, <2>7, <2>9, <2>10 DEF m
<1>13. Replaces(scene, table, args, stack, inUse, args, g)
  BY <1>1, <1>2, <1>9, <1>10, <1>11, <1>12, GoesOn
<1>14. EngineInv(scene, table, args, WithTop(g), inUse)
  BY <1>13, ReplacedTop DEF WithTop, Below
<1>15. WithTop(g) # << >> /\ WithTop(g)[Len(WithTop(g))] = g
  <2>1. stack \in Seq(Frames)
    BY <1>1 DEF EngineInv, Typed
  <2> QED
    BY <1>1, <1>9, <2>1, LastIs DEF WithTop, Below
<1> QED
  BY <1>3, <1>9, <1>10, <1>14, <1>15 DEF f, g, o

\* A source of the scene at the iterator: the scene is executed once more if it matches.
LEMMA RunSceneKeeps == ASSUME SceneInv, RunScene PROVE SceneInv'
<1> DEFINE f == Top
           o == f.obj
           hit == Matching(Sources[f.item], f.src)
           ran == [x \in DOMAIN f.ran |-> f.ran[x] + IF x = o THEN 1 ELSE 0]
<1>1. f \in Frames /\ events \in Nat /\ args' = args /\ events' = events
  BY TopIs DEF RunScene, Ready, Running, SceneInv
<1>2. f.ran \in Seq(Nat)
  BY <1>1 DEF Frames
<1>3. /\ hit => Idle(Executing(WithTop(Ran(f, ran)), o))
      /\ ~hit => Idle(WithTop(Ran(f, f.ran)))
  <2>1. [Advanced(f) EXCEPT !.ran = ran] = Ran(f, ran) /\ Advanced(f) = Ran(f, f.ran)
        /\ Advanced(f).ran = f.ran
    BY <1>1 DEF Advanced, Ran, Frames
  <2>2. [Advanced(f) EXCEPT !.ran = [x \in DOMAIN @ |-> @[x] + IF x = o THEN 1 ELSE 0]] = Ran(f, ran)
    BY <2>1
  <2> QED
    BY <2>1, <2>2 DEF RunScene
<1>4. ran \in Seq(Nat) /\ DOMAIN ran = DOMAIN f.ran
      /\ \A x \in DOMAIN f.ran : /\ ran[x] = f.ran[x] + IF x = o THEN 1 ELSE 0
                                 /\ f.ran[x] \in Nat
  <2>1. \A x \in DOMAIN f.ran : f.ran[x] \in Nat
    BY <1>2
  <2>2. DOMAIN f.ran = 1 .. Len(f.ran) /\ Len(f.ran) \in Nat
    BY <1>2
  <2>3. \A x \in DOMAIN f.ran : f.ran[x] + (IF x = o THEN 1 ELSE 0) \in Nat
    BY <2>1
  <2>4. ran \in [1 .. Len(f.ran) -> Nat]
    BY <2>2, <2>3
  <2> QED
    BY <2>1, <2>2, <2>4
<1> HIDE DEF ran, f, hit
<1>5. CASE hit
  <2>1. \A x \in DOMAIN ran : ran[x] = f.ran[x] + IF x = o /\ hit THEN 1 ELSE 0
    BY <1>4, <1>5
  <2>2. /\ EngineInv(scene, table, args, WithTop(Ran(f, ran)), inUse) /\ o \in DOMAIN scene
        /\ WithTop(Ran(f, ran)) # << >>
        /\ WithTop(Ran(f, ran))[Len(WithTop(Ran(f, ran)))].phase = "none"
    BY <1>4, <2>1, RanKeeps DEF f, hit
  <2>3. EngineInv(scene, table, args, Executing(WithTop(Ran(f, ran)), o), inUse)
    BY <2>2, Entered DEF Evaluates
  <2> QED
    BY <1>1, <1>3, <1>5, <2>3, IdleStep
<1>6. CASE ~hit
  <2>1. \A x \in DOMAIN f.ran : f.ran[x] = f.ran[x] + IF x = o /\ hit THEN 1 ELSE 0
    BY <1>4, <1>6
  <2>2. EngineInv(scene, table, args, WithTop(Ran(f, f.ran)), inUse)
    BY <1>2, <2>1, RanKeeps DEF f, hit
  <2> QED
    BY <1>1, <1>3, <1>6, <2>2, IdleStep
<1> QED
  BY <1>5, <1>6

\* The handler returns and destroys the stack it has claimed.
LEMMA EventDoneKeeps == ASSUME SceneInv, EventDone PROVE SceneInv'
<1> DEFINE f == Top
<1>1. EngineInv(scene, table, args, stack, inUse) /\ events \in Nat /\ stack # << >>
      /\ f.kind \in {"event", "activation"} /\ NumbersIn(args)
  BY DEF EventDone, Ready, Running, SceneInv, EngineInv, Typed, NumbersIn
<1>2. /\ args' = IF f.kind = "event" THEN Destroyed(args, {"SensorEvent"}) ELSE args
      /\ Idle(Below) /\ events' = events
  BY DEF EventDone, EventArguments
<1>3. Uses(scene, f) = IF f.kind = "event" THEN {"SensorEvent"} ELSE {}
  BY <1>1 DEF Uses, RunsCommand, Stacks
<1>4. f = stack[Len(stack)]
  BY DEF Top
<1> HIDE DEF f
<1>5. NumbersIn(args') /\ KeepsBut(args, args', Uses(scene, f))
      /\ DOMAIN args' = DOMAIN args \ Uses(scene, f)
  <2>1. CASE f.kind = "event"
    <3>1. /\ DOMAIN args' = DOMAIN args \ {"SensorEvent"}
          /\ \A st \in DOMAIN args \ {"SensorEvent"} : args'[st] = args[st]
      BY <1>2, <2>1, ArgsDestroyed
    <3> QED
      BY <1>1, <1>3, <2>1, <3>1 DEF NumbersIn, KeepsBut
  <2>2. CASE f.kind # "event"
    <3>1. args' = args /\ Uses(scene, f) = {}
      BY <1>2, <1>3, <2>2
    <3> QED
      BY <1>1, <3>1 DEF NumbersIn, KeepsBut
  <2> QED
    BY <2>1, <2>2
<1>6. Pops(scene, table, args, stack, inUse, args')
  BY <1>1, <1>4, <1>5 DEF Pops
<1>7. EngineInv(scene, table, args', Below, inUse)
  BY <1>6, PoppedTop DEF Below
<1> QED
  BY <1>1, <1>2, <1>7, IdleStep

-----------------------------------------------------------------------------
\* What evaluates an expression: a condition, an argument, a command.
AdvancedTo(f, g) ==
  /\ g.put = f.put /\ g.phase = f.phase /\ g.i = f.i + 1 /\ g.item = f.item + 1
  /\ g.at = "ready" /\ g.arg = NoItem

\* A walk moves on by an element.
LEMMA AdvancedIs ==
  ASSUME NEW f \in Frames
  PROVE  Advanced(f) \in Frames /\ SameRun(f, Advanced(f)) /\ AdvancedTo(f, Advanced(f))
<1>1. Advanced(f) \in Frames
  <2>1. f.i + 1 \in Nat /\ f.item + 1 \in Nat
    BY DEF Frames
  <2>2. \A m, n \in Nat :
          [f EXCEPT !.i = m, !.item = n, !.at = "ready", !.arg = NoItem] \in Frames
    BY DEF Frames
  <2> QED
    BY <2>1, <2>2 DEF Advanced
<1> QED
  BY <1>1 DEF Frames, Advanced, SameRun, AdvancedTo

PutIn(f, x) == [f EXCEPT !.put = @ \cup {x}]
PutTo(f, g, x) ==
  /\ g.put = f.put \cup {x} /\ g.phase = f.phase /\ g.i = f.i /\ g.item = f.item
  /\ g.at = f.at /\ g.arg = f.arg

\* A frame has stored an argument.
LEMMA PutInIs ==
  ASSUME NEW f \in Frames, NEW x \in [stack : Stacks, name : ArgumentNames, value : Nat]
  PROVE  PutIn(f, x) \in Frames /\ SameRun(f, PutIn(f, x)) /\ PutTo(f, PutIn(f, x), x)
<1>1. PutIn(f, x) \in Frames
  BY DEF Frames, PutIn
<1> QED
  BY <1>1 DEF Frames, PutIn, SameRun, PutTo

AwayTo(f, at, p) == [f EXCEPT !.at = at, !.arg = p]
Left(f, g, at, p) ==
  /\ g.put = f.put /\ g.phase = f.phase /\ g.i = f.i /\ g.item = f.item /\ g.at = at /\ g.arg = p

\* An evaluation leaves its function.
LEMMA AwayIs ==
  ASSUME NEW f \in Frames, NEW at \in {"waiting", "called"}, NEW p \in {NoItem} \cup Arguments
  PROVE  AwayTo(f, at, p) \in Frames /\ SameRun(f, AwayTo(f, at, p)) /\ Left(f, AwayTo(f, at, p), at, p)
<1>1. AwayTo(f, at, p) \in Frames
  BY DEF Frames, AwayTo
<1> QED
  BY <1>1 DEF Frames, AwayTo, SameRun, Left

Phased(f, g, ph, i) ==
  /\ g.put = f.put /\ g.phase = ph /\ g.i = i /\ g.item = f.item /\ g.at = "ready" /\ g.arg = f.arg

\* What stays of a scene that goes on, to another element or to its actions.
SameScene(f, g) ==
  /\ g.kind = f.kind /\ g.obj = f.obj /\ g.clash = f.clash /\ g.stay = f.stay /\ g.put = f.put
  /\ g.item <= g.i + 1 /\ (g.at = "ready" => g.item >= 1)

Begun(f) == [f EXCEPT !.phase = "act", !.i = 0, !.item = 1, !.at = "ready", !.lost = FALSE]

\* A scene comes to its actions.
LEMMA BegunIs ==
  ASSUME NEW f \in Frames
  PROVE  /\ Begun(f) \in Frames /\ SameScene(f, Begun(f)) /\ Begun(f).phase = "act"
         /\ Begun(f).at = "ready" /\ Begun(f).arg = f.arg
<1>1. Begun(f) \in Frames
  BY DEF Frames, Begun
<1>2. LET g == Begun(f)
      IN  /\ g.kind = f.kind /\ g.obj = f.obj /\ g.clash = f.clash /\ g.stay = f.stay
          /\ g.put = f.put /\ g.item = 1 /\ g.i = 0 /\ g.at = "ready" /\ g.phase = "act"
          /\ g.arg = f.arg
  BY DEF Frames, Begun
<1> QED
  BY <1>1, <1>2 DEF SameScene

\* A scene comes to another element.
LEMMA AdvancedScene ==
  ASSUME NEW f \in Frames, f.item <= f.i + 1
  PROVE  SameScene(f, Advanced(f))
<1>1. f.item \in Nat /\ f.i \in Nat
  BY DEF Frames
<1> QED
  BY <1>1, AdvancedIs DEF SameRun, AdvancedTo, SameScene

\* f evaluates the argument p: it is not one that was stored, and comes once only.
AtArgument(sc, f, p) ==
  /\ p \in Arguments
  /\ RunsCommand(sc, f) =>
       /\ \A x \in f.put : \/ x.stack \in f.clash
                           \/ (~SameArgument(p, x) /\ Gone(ActionOf(sc, f).env, f.item, x))
       /\ p.stack \in f.clash \/ Gone(ActionOf(sc, f).env, f.item + 1, p)
       /\ p.stack \in Uses(sc, f)
       /\ OwnArgument(sc, f) => p.stack \in StacksOf(ActionOf(sc, f))

\* The argument's stack exists by now; everything else is as in ar.
Provided(sc, ar, f, p, a) ==
  /\ NumbersIn(a) /\ DOMAIN ar \subseteq DOMAIN a /\ \A st \in DOMAIN ar : a[st] = ar[st]
  /\ DOMAIN a \subseteq DOMAIN ar \cup Uses(sc, f)
  /\ RunsCommand(sc, f) => p.stack \in DOMAIN a \/ p.stack \in f.clash

\* The action that a command on top runs.
LEMMA ActionIs ==
  ASSUME SceneInv, stack # << >>, Top.kind = "command", ~Top.lost
  PROVE  /\ Action = ActionOf(scene, Top) /\ Action \in Actions
         /\ Top.act # 0 /\ (RunsCommand(scene, Top) <=> Action.type = "command")
         /\ Env = Action.env /\ Env \in Seq(Arguments)
         /\ \A p, q \in DOMAIN Env : SameArgument(Env[p], Env[q]) => p = q
<1> DEFINE f == Top
<1>1. Standing(scene, f) /\ scene \in Seq(SceneRecords) /\ EngineInv(scene, table, args, stack, inUse)
  BY TopIs
<1>2. f.obj \in DOMAIN scene /\ f.act \in DOMAIN scene[f.obj].acts
  BY <1>1 DEF Standing
<1>3. scene[f.obj] \in SceneRecords
  BY <1>1, <1>2
<1>4. scene[f.obj].acts \in Seq(Actions)
  BY <1>3 DEF SceneRecords
<1>5. Action \in Actions
  BY <1>2, <1>4 DEF Action
<1>6. Action.env \in Seq(Arguments)
  BY <1>5 DEF Actions
<1>7. \A p, q \in DOMAIN Action.env : SameArgument(Action.env[p], Action.env[q]) => p = q
  BY <1>1, <1>2 DEF EngineInv, Typed, Action
<1>8. f.act # 0
  BY <1>2, <1>4
<1>9. RunsCommand(scene, f) <=> Action.type = "command"
  BY <1>8 DEF RunsCommand, Action, ActionOf
<1> QED
  BY <1>5, <1>6, <1>7, <1>8, <1>9 DEF Action, ActionOf, Env

\* The argument a command evaluates is one that it has not stored.
LEMMA ArgIs ==
  ASSUME SceneInv, Running, Top.phase = "args", Top.at = "ready" => Evaluating
  PROVE  Top.kind = "command" /\ AtArgument(scene, Top, Arg)
<1> DEFINE f == Top
           p == Arg
<1>1. stack # << >> /\ ~f.lost
  BY DEF Running, Intact
<1>2. f \in Frames /\ Standing(scene, f) /\ Progressing(scene, f)
  BY <1>1, TopIs
<1>3. f.kind = "command"
  BY <1>2 DEF Standing, Frames
<1>4. /\ Action = ActionOf(scene, f) /\ Env = Action.env /\ Env \in Seq(Arguments)
      /\ \A m, q \in DOMAIN Env : SameArgument(Env[m], Env[q]) => m = q
  BY <1>1, <1>3, ActionIs
<1>5. f.arg # NoItem <=> f.at # "ready"
  BY <1>2 DEF Standing
<1>6. /\ f.item \in Nat /\ f.i \in Nat /\ f.item <= f.i + 1 /\ f.arg \in {NoItem} \cup Arguments
      /\ f.at = "ready" => f.item >= 1
  BY <1>2, <1>3 DEF Standing, Frames
<1>7. CASE f.at = "ready"
  <2>1. f.i < Len(Env) /\ p = Env[f.item]
    BY <1>7 DEF Evaluating, Arg
  <2>2. f.item \in DOMAIN Env /\ p \in Arguments
    BY <1>4, <1>6, <1>7, <2>1
  <2>3. ASSUME RunsCommand(scene, f), NEW x \in f.put
        PROVE  \/ x.stack \in f.clash
               \/ (~SameArgument(p, x) /\ Gone(ActionOf(scene, f).env, f.item, x))
    <3>1. x.stack \in f.clash \/ Gone(ActionOf(scene, f).env, f.item, x)
      BY <1>1, <1>2, <2>3 DEF Progressing
    <3>2. Gone(ActionOf(scene, f).env, f.item, x) => ~SameArgument(p, x)
      <4>1. Gone(Env, f.item, x) /\ SameArgument(Env[f.item], x) => f.item < f.item
        BY <2>2 DEF Gone
      <4> QED
        BY <1>4, <1>6, <2>1, <4>1
    <3> QED
      BY <3>1, <3>2
  <2>4. Gone(ActionOf(scene, f).env, f.item + 1, p)
    <3>1. \A q \in DOMAIN Env : SameArgument(Env[q], p) => q = f.item
      BY <1>4, <2>1, <2>2
    <3> QED
      BY <1>4, <1>6, <3>1 DEF Gone
  <2>5. RunsCommand(scene, f) => p.stack \in StacksOf(ActionOf(scene, f))
    BY <1>4, <2>1, <2>2 DEF RunsCommand, StacksOf
  <2>6. RunsCommand(scene, f) => p.stack \in Uses(scene, f)
    BY <2>2, <2>5 DEF Uses, Stacks
  <2> QED
    BY <1>3, <2>2, <2>3, <2>4, <2>5, <2>6 DEF AtArgument
<1>8. CASE f.at # "ready"
  <2>1. p = f.arg /\ p \in Arguments /\ f.arg # NoItem
    BY <1>5, <1>6, <1>8 DEF Arg
  <2>2. p.stack \in Stacks
    BY <2>1 DEF Stacks
  <2>3. RunsCommand(scene, f) => p.stack \in Uses(scene, f)
    BY <2>1, <2>2 DEF Uses
  <2> QED
    BY <1>1, <1>2, <1>3, <2>1, <2>3 DEF AtArgument, Progressing, OwnArgument
<1> QED
  BY <1>7, <1>8

\* The arguments when an evaluation begins and, unless it could not wait, when it returns.
LEMMA ProvidedIs ==
  ASSUME SceneInv, Running, Top.phase = "args", Top.at = "ready" => Evaluating
  PROVE  Provided(scene, args, Top, Arg, IF Top.at = "ready" THEN Prepared ELSE args)
<1> DEFINE f == Top
           p == Arg
<1>1. stack # << >> /\ ~f.lost
  BY DEF Running, Intact
<1>2. AtArgument(scene, f, p) /\ f.kind = "command" /\ NumbersIn(args) /\ Held(scene, args, f)
      /\ Standing(scene, f) /\ Action = ActionOf(scene, f)
      /\ (RunsCommand(scene, f) <=> Action.type = "command")
  BY <1>1, ArgIs, TopIs, ActionIs
<1>3. RunsCommand(scene, f) <=> Action.type = "command"
  BY <1>2
<1>4. CASE f.at = "ready" /\ RunsCommand(scene, f)
  <2>1. Prepared = Created(args, p.stack)
    BY <1>3, <1>4 DEF Prepared
  <2>2. /\ DOMAIN Created(args, p.stack) = DOMAIN args \cup {p.stack}
        /\ \A x \in DOMAIN args : Created(args, p.stack)[x] = args[x]
        /\ p.stack \notin DOMAIN args => DOMAIN Created(args, p.stack)[p.stack] = {}
    BY ArgsCreated
  <2>3. p.stack \in Uses(scene, f)
    BY <1>2, <1>4 DEF AtArgument
  <2> HIDE DEF p
  <2>4. NumbersIn(Created(args, p.stack))
    BY <1>2, <2>2 DEF NumbersIn
  <2> QED
    BY <1>4, <2>1, <2>2, <2>3, <2>4 DEF Provided, p
<1>5. CASE f.at = "ready" /\ ~RunsCommand(scene, f)
  <2>1. Prepared = args
    BY <1>3, <1>5 DEF Prepared
  <2> QED
    BY <1>2, <1>5, <2>1 DEF Provided
<1>6. CASE f.at # "ready"
  <2>1. p = f.arg /\ f.arg # NoItem
    BY <1>2, <1>6 DEF Arg, Standing
  <2> QED
    BY <1>2, <1>6, <2>1 DEF Provided, Held
<1> QED
  BY <1>4, <1>5, <1>6

\* What an expression evaluates to.
Values == Nat \cup {NoItem}

\* NoItem stands for NULL: it is no value.
LEMMA NoItemApart == NoItem \notin Nat
  BY ScenesAssumption

\* A scene on top goes on with g.
LEMMA SceneTopBecomes ==
  ASSUME SceneInv, stack # << >>, Top.kind = "scene", NEW g \in Frames, SameScene(Top, g),
         g.arg = NoItem, g.phase \in {"cond", "act"},
         g.at = "ready" \/ (g.phase = "cond" /\ g.at \in {"waiting", "called"})
  PROVE  /\ EngineInv(scene, table, args, WithTop(g), inUse)
         /\ WithTop(g) # << >> /\ WithTop(g)[Len(WithTop(g))] = g
<1> DEFINE f == Top
<1>1. /\ EngineInv(scene, table, args, stack, inUse) /\ f = stack[Len(stack)] /\ f \in Frames
      /\ Standing(scene, f) /\ Iterating(scene, table, f)
  BY TopIs
<1>2. f.kind = "scene"
  OBVIOUS
<1> HIDE DEF f
<1>3. SameScene(f, g)
  BY DEF f
<1>4. /\ g.kind = "scene" /\ g.obj = f.obj /\ g.clash = f.clash /\ g.stay = f.stay /\ g.put = f.put
      /\ g.item <= g.i + 1 /\ (g.at = "ready" => g.item >= 1)
  BY <1>2, <1>3 DEF SameScene
<1>5. Standing(scene, g)
  BY <1>1, <1>2, <1>4 DEF Standing
<1>6. Iterating(scene, table, g)
  BY <1>4 DEF Iterating
<1>7. Replaces(scene, table, args, stack, inUse, args, g)
  BY <1>1, <1>2, <1>4, <1>5, <1>6, GoesOn
<1>8. EngineInv(scene, table, args, WithTop(g), inUse)
  BY <1>7, ReplacedTop DEF WithTop, Below
<1>9. stack \in Seq(Frames)
  BY <1>1 DEF EngineInv, Typed
<1> QED
  BY <1>8, <1>9, LastIs DEF WithTop, Below

\* The outcome of a condition.
LEMMA ConditionOutcomeKeeps ==
  ASSUME SceneInv, stack # << >>, Top.phase = "cond", NEW v \in Values,
         ConditionOutcome(args, v), events' \in Nat
  PROVE  SceneInv'
<1>1. Top \in Frames /\ Standing(scene, Top)
  BY TopIs
<1>2. Top.kind = "scene" /\ Top.arg = NoItem /\ Top.item <= Top.i + 1
  BY <1>1 DEF Standing, Frames
<1>3. args' = args
  BY DEF ConditionOutcome
<1>4. CASE Idle(WithTop(Advanced(Top)))
  <2>1. Advanced(Top) \in Frames /\ AdvancedTo(Top, Advanced(Top)) /\ SameScene(Top, Advanced(Top))
    BY <1>1, <1>2, AdvancedIs, AdvancedScene
  <2>2. /\ Advanced(Top).arg = NoItem
        /\ Advanced(Top).phase = "cond" /\ Advanced(Top).at = "ready"
    BY <2>1 DEF AdvancedTo
  <2>3. EngineInv(scene, table, args, WithTop(Advanced(Top)), inUse)
    BY <1>2, <2>1, <2>2, SceneTopBecomes
  <2> QED
    BY <1>3, <1>4, <2>3, IdleStep
<1>5. CASE Idle(WithTop(Begun(Top)))
  <2>1. /\ Begun(Top) \in Frames /\ SameScene(Top, Begun(Top)) /\ Begun(Top).phase = "act"
        /\ Begun(Top).at = "ready" /\ Begun(Top).arg = NoItem
    BY <1>1, <1>2, BegunIs
  <2>3. EngineInv(scene, table, args, WithTop(Begun(Top)), inUse)
    BY <1>2, <2>1, SceneTopBecomes
  <2> QED
    BY <1>3, <1>5, <2>3, IdleStep
<1>6. Idle(WithTop(Advanced(Top))) \/ Idle(WithTop(Begun(Top)))
  BY DEF ConditionOutcome, Begun
<1> QED
  BY <1>4, <1>5, <1>6

\* The argument p was not stored.
LEMMA NotStored ==
  ASSUME SceneInv, stack # << >>, Top.kind = "command", Top.phase = "args", ~Top.lost,
         NEW p, NEW a, AtArgument(scene, Top, p), Provided(scene, args, Top, p, a)
  PROVE  Replaces(scene, table, args, stack, inUse, a, Advanced(Top))
<1> DEFINE f == Top
           g == Advanced(f)
<1>1. /\ EngineInv(scene, table, args, stack, inUse) /\ f = stack[Len(stack)] /\ f \in Frames
      /\ Standing(scene, f) /\ Progressing(scene, f) /\ Held(scene, args, f)
  BY TopIs
<1>2. /\ f.kind = "command" /\ f.phase = "args" /\ ~f.lost /\ AtArgument(scene, f, p)
      /\ Provided(scene, args, f, p, a)
  OBVIOUS
<1> HIDE DEF f
<1>3. g \in Frames /\ SameRun(f, g) /\ AdvancedTo(f, g)
  BY <1>1, AdvancedIs
<1> HIDE DEF g
<1>4. /\ g.put = f.put /\ g.phase = "args" /\ g.i = f.i + 1 /\ g.item = f.item + 1
      /\ g.at = "ready" /\ g.arg = NoItem /\ g.kind = "command" /\ g.obj = f.obj /\ g.act = f.act
      /\ g.clash = f.clash /\ g.lost = f.lost
  BY <1>2, <1>3 DEF AdvancedTo, SameRun
<1>5. /\ ActionOf(scene, g) = ActionOf(scene, f) /\ RunsCommand(scene, g) = RunsCommand(scene, f)
      /\ Uses(scene, g) \subseteq Uses(scene, f)
  BY <1>3, <1>4, SameRunSame
<1>6. f.item \in Nat /\ f.i \in Nat
  BY <1>1 DEF Frames
<1>7. Standing(scene, g)
  BY <1>1, <1>2, <1>4, <1>5, <1>6 DEF Standing
<1>8. Progressing(scene, g)
  <2> SUFFICES ASSUME RunsCommand(scene, f), NEW x \in f.put, x.stack \notin f.clash
               PROVE  Gone(ActionOf(scene, f).env, f.item + 1, x)
    BY <1>4, <1>5 DEF Progressing
  <2>1. Gone(ActionOf(scene, f).env, f.item, x)
    BY <1>2 DEF AtArgument
  <2>2. ActionOf(scene, f).env \in Seq(Arguments)
    BY <1>1, <1>2, ActionIs DEF f
  <2> QED
    BY <1>6, <2>1, <2>2 DEF Gone
<1>9. Held(scene, a, g)
  BY <1>1, <1>2, <1>4 DEF Held, Provided
<1>10. NumbersIn(a) /\ KeepsBut(args, a, Uses(scene, f)) /\ DOMAIN a \subseteq DOMAIN args \cup Uses(scene, f)
  BY <1>2 DEF Provided, KeepsBut
<1>11. OwnArgument(scene, g)
  BY <1>4 DEF OwnArgument
<1> QED
  BY <1>1, <1>2, <1>3, <1>5, <1>7, <1>8, <1>9, <1>10, <1>11, CommandGoesOn DEF f, g

\* The argument p was stored, with the value v.
LEMMA StoredArgument ==
  ASSUME SceneInv, stack # << >>, Top.kind = "command", Top.phase = "args", ~Top.lost,
         NEW p, NEW a, AtArgument(scene, Top, p), Provided(scene, args, Top, p, a),
         NEW v \in Nat, RunsCommand(scene, Top)
  PROVE  Replaces(scene, table, args, stack, inUse, Added(a, p.stack, p.name, v),
                  Advanced(PutIn(Top, [stack |-> p.stack, name |-> p.name, value |-> v])))
<1> DEFINE f == Top
           y == [stack |-> p.stack, name |-> p.name, value |-> v]
           h == PutIn(f, y)
           g == Advanced(h)
           b == Added(a, p.stack, p.name, v)
<1>1. /\ EngineInv(scene, table, args, stack, inUse) /\ f = stack[Len(stack)] /\ f \in Frames
      /\ Standing(scene, f) /\ Progressing(scene, f) /\ Held(scene, args, f)
  BY TopIs
<1>2. /\ f.kind = "command" /\ f.phase = "args" /\ ~f.lost /\ AtArgument(scene, f, p)
      /\ Provided(scene, args, f, p, a) /\ RunsCommand(scene, f)
  OBVIOUS
<1>3. ActionOf(scene, f).env \in Seq(Arguments)
  BY <1>1, <1>2, ActionIs
<1> HIDE DEF f
<1>4. p \in Arguments
  BY <1>2 DEF AtArgument
<1>5. y \in [stack : Stacks, name : ArgumentNames, value : Nat]
      /\ y.stack = p.stack /\ y.name = p.name /\ y.value = v
  BY <1>4 DEF Stacks, ArgumentNames
<1> HIDE DEF y
<1>6. h \in Frames /\ SameRun(f, h) /\ PutTo(f, h, y)
  BY <1>1, <1>5, PutInIs
<1> HIDE DEF h
<1>7. g \in Frames /\ SameRun(h, g) /\ AdvancedTo(h, g)
  BY <1>6, AdvancedIs
<1> HIDE DEF g
<1>8. SameRun(f, g)
  BY <1>6, <1>7 DEF SameRun
<1>9. /\ g.put = f.put \cup {y} /\ g.phase = "args" /\ g.i = f.i + 1 /\ g.item = f.item + 1
      /\ g.at = "ready" /\ g.arg = NoItem
  BY <1>2, <1>6, <1>7 DEF AdvancedTo, PutTo
<1>10. g.kind = "command" /\ g.obj = f.obj /\ g.act = f.act /\ g.clash = f.clash /\ g.lost = f.lost
  BY <1>2, <1>8 DEF SameRun
<1>11. /\ ActionOf(scene, g) = ActionOf(scene, f) /\ RunsCommand(scene, g) = RunsCommand(scene, f)
       /\ Uses(scene, g) \subseteq Uses(scene, f)
  BY <1>8, <1>9, SameRunSame
<1>12. f.item \in Nat /\ f.i \in Nat
  BY <1>1 DEF Frames
<1>13. Standing(scene, g)
  BY <1>1, <1>2, <1>9, <1>10, <1>11, <1>12 DEF Standing
<1>14. ASSUME NEW x \in f.put, x.stack \notin f.clash
       PROVE  ~SameArgument(p, x) /\ Gone(ActionOf(scene, f).env, f.item, x)
  BY <1>2, <1>14 DEF AtArgument
<1>15. Progressing(scene, g)
  <2> SUFFICES ASSUME NEW x \in g.put, x.stack \notin f.clash
               PROVE  Gone(ActionOf(scene, f).env, f.item + 1, x)
    BY <1>9, <1>10, <1>11 DEF Progressing
  <2>1. CASE x \in f.put
    <3>1. Gone(ActionOf(scene, f).env, f.item, x)
      BY <1>14, <2>1
    <3> QED
      BY <1>3, <1>12, <3>1 DEF Gone
  <2>2. CASE x = y
    <3>1. Gone(ActionOf(scene, f).env, f.item + 1, p)
      BY <1>2, <1>5, <2>2 DEF AtArgument
    <3> QED
      BY <1>5, <2>2, <3>1 DEF Gone, SameArgument
  <2> QED
    BY <1>9, <2>1, <2>2
<1>16. /\ DOMAIN b = DOMAIN a /\ \A st \in DOMAIN a : st # p.stack => b[st] = a[st]
       /\ p.stack \in DOMAIN a =>
            /\ DOMAIN b[p.stack] = DOMAIN a[p.stack] \cup {p.name} /\ b[p.stack][p.name] = v
            /\ \A m \in DOMAIN a[p.stack] : m # p.name => b[p.stack][m] = a[p.stack][m]
  BY DEF Added
<1> HIDE DEF b
<1>17. Held(scene, b, g)
  <2> SUFFICES ASSUME NEW x \in g.put, x.stack \notin f.clash
               PROVE  /\ x.stack \in DOMAIN b /\ x.name \in DOMAIN b[x.stack]
                      /\ b[x.stack][x.name] = x.value
    BY <1>9, <1>10 DEF Held
  <2>1. CASE x \in f.put
    <3>1. x.stack \in DOMAIN args /\ x.name \in DOMAIN args[x.stack] /\ args[x.stack][x.name] = x.value
      BY <1>1, <2>1 DEF Held
    <3>2. x.stack \in DOMAIN a /\ a[x.stack] = args[x.stack]
      BY <1>2, <3>1 DEF Provided
    <3>3. x.stack # p.stack \/ x.name # p.name
      BY <1>14, <2>1 DEF SameArgument
    <3> QED
      BY <1>16, <3>1, <3>2, <3>3
  <2>2. CASE x = y
    <3>1. p.stack \in DOMAIN a
      BY <1>2, <1>5, <2>2 DEF Provided
    <3> QED
      BY <1>5, <1>16, <2>2, <3>1
  <2> QED
    BY <1>9, <2>1, <2>2
<1>18. NumbersIn(b)
  <2> SUFFICES ASSUME NEW st \in DOMAIN b, NEW m \in DOMAIN b[st] PROVE b[st][m] \in Nat
    BY DEF NumbersIn
  <2>1. NumbersIn(a)
    BY <1>2 DEF Provided
  <2> QED
    BY <1>16, <2>1 DEF NumbersIn
<1>19. KeepsBut(args, b, Uses(scene, f)) /\ DOMAIN b \subseteq DOMAIN args \cup Uses(scene, f)
  <2>1. p.stack \in Uses(scene, f)
    BY <1>2 DEF AtArgument
  <2> QED
    BY <1>2, <1>16, <2>1 DEF Provided, KeepsBut
<1>20. OwnArgument(scene, g)
  BY <1>9 DEF OwnArgument
<1> QED
  BY <1>1, <1>2, <1>7, <1>8, <1>11, <1>13, <1>15, <1>17, <1>18, <1>19, <1>20, CommandGoesOn
  DEF f, g, h, y, b

\* The outcome of an argument: its value is stored in a stack that exists.
LEMMA ArgumentOutcomeKeeps ==
  ASSUME SceneInv, Running, Top.phase = "args", Top.at = "ready" => Evaluating,
         NEW a, a = IF Top.at = "ready" THEN Prepared ELSE args,
         NEW v \in Values, ArgumentOutcome(a, v), events' \in Nat
  PROVE  SceneInv'
<1>1. stack # << >> /\ ~Top.lost
  BY DEF Running, Intact
<1>2. Top.kind = "command" /\ AtArgument(scene, Top, Arg) /\ Provided(scene, args, Top, Arg, a)
  BY ArgIs, ProvidedIs
<1>3. RunsCommand(scene, Top) <=> Action.type = "command"
  BY <1>1, <1>2, ActionIs
<1> DEFINE stored == v # NoItem /\ Action.type = "command"
           y == [stack |-> Arg.stack, name |-> Arg.name, value |-> v]
<1>4. CASE stored
  <2>1. v \in Nat /\ RunsCommand(scene, Top)
    BY <1>3, <1>4 DEF Values
  <2>2. /\ args' = Added(a, Arg.stack, Arg.name, v)
        /\ Idle(WithTop(Advanced(PutIn(Top, y))))
    BY <1>4 DEF ArgumentOutcome, PutIn
  <2>3. Replaces(scene, table, args, stack, inUse, Added(a, Arg.stack, Arg.name, v), Advanced(PutIn(Top, y)))
    BY <1>1, <1>2, <2>1, StoredArgument
  <2> HIDE DEF y
  <2>4. EngineInv(scene, table, args', WithTop(Advanced(PutIn(Top, y))), inUse)
    BY <2>2, <2>3, ReplacedTop DEF WithTop, Below
  <2> QED
    BY <2>2, <2>4, IdleStep
<1>5. CASE ~stored
  <2>1. args' = a /\ Idle(WithTop(Advanced(Top)))
    BY <1>5 DEF ArgumentOutcome
  <2>2. Replaces(scene, table, args, stack, inUse, a, Advanced(Top))
    BY <1>1, <1>2, NotStored
  <2>3. EngineInv(scene, table, args', WithTop(Advanced(Top)), inUse)
    BY <2>1, <2>2, ReplacedTop DEF WithTop, Below
  <2> QED
    BY <2>1, <2>3, IdleStep
<1> QED
  BY <1>4, <1>5

\* The outcome of a command: it returns, and its stacks are destroyed.
LEMMA CommandOutcomeKeeps ==
  ASSUME SceneInv, Running, Top.phase = "run", CommandOutcome(args), events' \in Nat
  PROVE  SceneInv'
<1> DEFINE f == Top
           X == StacksOf(Action)
<1>0. stack # << >> /\ ~Top.lost
  BY DEF Running, Intact
<1>1. /\ EngineInv(scene, table, args, stack, inUse) /\ f = stack[Len(stack)] /\ f \in Frames
      /\ Standing(scene, f) /\ NumbersIn(args)
  BY <1>0, TopIs
<1>2. f.kind = "command" /\ f.arg = NoItem
  BY <1>1 DEF Standing, Frames
<1>3. Action = ActionOf(scene, f) /\ Action \in Actions /\ Action.env \in Seq(Arguments)
      /\ f.act # 0 /\ (RunsCommand(scene, f) <=> Action.type = "command")
  BY <1>0, <1>2, ActionIs
<1>4. RunsCommand(scene, f) /\ Action.type = "command"
  BY <1>1, <1>2, <1>3 DEF Standing
<1>5. X \subseteq Stacks
  BY <1>3, <1>4 DEF StacksOf, Stacks
<1>6. Uses(scene, f) = X
  BY <1>2, <1>3, <1>4, <1>5 DEF Uses
<1>7. args' = Destroyed(args, X) /\ Idle(Below)
  BY DEF CommandOutcome
<1> HIDE DEF f, X
<1>8. NumbersIn(args') /\ KeepsBut(args, args', X) /\ DOMAIN args' = DOMAIN args \ X
  <2>1. DOMAIN Destroyed(args, X) = DOMAIN args \ X
        /\ \A x \in DOMAIN args \ X : Destroyed(args, X)[x] = args[x]
    BY ArgsDestroyed
  <2> QED
    BY <1>1, <1>7, <2>1 DEF NumbersIn, KeepsBut
<1>9. Pops(scene, table, args, stack, inUse, args')
  BY <1>0, <1>1, <1>6, <1>8 DEF Pops
<1>10. EngineInv(scene, table, args', Below, inUse)
  BY <1>9, PoppedTop DEF Below
<1> QED
  BY <1>7, <1>10, IdleStep

\* The outcome of an evaluation, in whatever phase.
LEMMA OutcomeKeeps ==
  ASSUME SceneInv, Running, Top.phase \in {"cond", "args", "run"}, Top.at = "ready" => Evaluating,
         NEW v \in Values, Outcome(IF Top.at = "ready" THEN Prepared ELSE args, v), UNCHANGED events
  PROVE  SceneInv'
<1> DEFINE a == IF Top.at = "ready" THEN Prepared ELSE args
<1>1. stack # << >> /\ events' \in Nat
  BY DEF Running, SceneInv
<1>2. CASE Top.phase = "args"
  <2>1. ArgumentOutcome(a, v)
    BY <1>2 DEF Outcome
  <2> QED
    BY <1>1, <1>2, <2>1, ArgumentOutcomeKeeps
<1>3. CASE Top.phase # "args"
  <2>1. a = args
    BY <1>3 DEF Prepared
  <2>2. CASE Top.phase = "cond"
    <3>1. ConditionOutcome(args, v)
      BY <2>1, <2>2 DEF Outcome
    <3> QED
      BY <1>1, <2>2, <3>1, ConditionOutcomeKeeps
  <2>3. CASE Top.phase = "run"
    <3>1. CommandOutcome(args)
      BY <2>1, <2>3 DEF Outcome
    <3> QED
      BY <1>1, <2>3, <3>1, CommandOutcomeKeeps
  <2> QED
    BY <1>3, <2>2, <2>3
<1> QED
  BY <1>2, <1>3

\* What the SensorEvent service reads is a number.
LEMMA EventValueNat == SceneInv => EventValue \in Nat
  BY DEF SceneInv, EngineInv, Typed, EventValue

\* A frame that evaluates an expression.
LEMMA EvaluatorIs ==
  ASSUME Evaluator
  PROVE  Running /\ Top.at = "ready" /\ Evaluating /\ Top.phase \in {"cond", "args", "run"}
  BY DEF Evaluator, Ready, Evaluating

\* A frame that an evaluation returns to.
LEMMA ReturningIs ==
  ASSUME SceneInv, Running, Top.at # "ready"
  PROVE  Top.phase \in {"cond", "args", "run"}
<1>1. Top \in Frames /\ Standing(scene, Top)
  BY TopIs DEF Running
<1> QED
  BY <1>1 DEF Standing, Frames

\* An expression that does not compile.
LEMMA NotCompiledKeeps == ASSUME SceneInv, NotCompiled PROVE SceneInv'
  BY EvaluatorIs, OutcomeKeeps DEF NotCompiled, Values

\* An expression that reads the event.
LEMMA ReadEventKeeps == ASSUME SceneInv, ReadEvent PROVE SceneInv'
  BY EvaluatorIs, OutcomeKeeps, EventValueNat DEF ReadEvent, Values

\* The end of a wait.
LEMMA DeviceAnswersKeeps == ASSUME SceneInv, DeviceAnswers PROVE SceneInv'
<1>1. PICK v \in {0, NoItem} : Outcome(args, v)
  BY DEF DeviceAnswers
<1> QED
  BY <1>1, ReturningIs, OutcomeKeeps DEF DeviceAnswers, Values

\* The end of a scene that an expression has called.
LEMMA SceneReturnsKeeps == ASSUME SceneInv, SceneReturns PROVE SceneInv'
  BY ReturningIs, OutcomeKeeps DEF SceneReturns, Values

\* The evaluation leaves the function on top.
LEMMA LeavesTop ==
  ASSUME SceneInv, Evaluator, NEW at \in {"waiting", "called"}
  PROVE  /\ EngineInv(scene, table, Prepared, Away(at), inUse)
         /\ Away(at) # << >> /\ Away(at)[Len(Away(at))].at = at
<1> DEFINE f == Top
           q == IF f.phase = "args" THEN Arg ELSE NoItem
           g == AwayTo(f, at, q)
<1>1. /\ EngineInv(scene, table, args, stack, inUse) /\ f = stack[Len(stack)] /\ f \in Frames
      /\ Standing(scene, f) /\ Progressing(scene, f) /\ Held(scene, args, f) /\ stack # << >>
      /\ Running /\ f.at = "ready" /\ Evaluating /\ f.phase \in {"cond", "args", "run"}
      /\ f.item <= f.i + 1
  BY TopIs, EvaluatorIs DEF Running, Standing
<1>2. Away(at) = WithTop(g)
  BY DEF Away, AwayTo
<1>3. stack \in Seq(Frames)
  BY <1>1 DEF EngineInv, Typed
<1>4. f.phase = "args" => f.kind = "command" /\ AtArgument(scene, f, Arg) /\ Provided(scene, args, f, Arg, Prepared)
  BY <1>1, ArgIs, ProvidedIs
<1>5. q \in {NoItem} \cup Arguments
  BY <1>4 DEF AtArgument
<1>6. f.phase # "args" => Prepared = args /\ q = NoItem
  BY DEF Prepared
<1>7. f.phase = "args" => q = Arg /\ q # NoItem
  <2>1. NoItem \notin Arguments
    <3>1. \A a \in NewActions : ToSet(a.env) = {}
      BY StartupAssumption DEF ToSet
    <3> QED
      BY <3>1, StartupAssumption DEF Arguments, GivenActions
  <2> QED
    BY <1>4, <2>1 DEF AtArgument
<1>8. f.arg = NoItem
  BY <1>1 DEF Standing
<1> HIDE DEF q, f
<1>9. g \in Frames /\ SameRun(f, g) /\ Left(f, g, at, q)
  BY <1>1, <1>5, AwayIs
<1> HIDE DEF g
<1>10. /\ g.put = f.put /\ g.phase = f.phase /\ g.i = f.i /\ g.item = f.item /\ g.at = at /\ g.arg = q
       /\ g.kind = f.kind /\ g.obj = f.obj /\ g.act = f.act /\ g.clash = f.clash /\ g.lost = f.lost
  BY <1>9 DEF Left, SameRun
<1>11. WithTop(g) # << >> /\ WithTop(g)[Len(WithTop(g))] = g
  BY <1>1, <1>3, <1>9, LastIs DEF WithTop, Below
<1>12. CASE f.phase = "cond"
  <2>1. f.kind = "scene"
    BY <1>1, <1>12 DEF Standing, Frames
  <2>3. SameScene(f, g)
    BY <1>1, <1>9, <1>10 DEF SameScene, SameRun
  <2>2. EngineInv(scene, table, args, WithTop(g), inUse)
    BY <1>1, <1>6, <1>9, <1>10, <1>12, <2>1, <2>3, SceneTopBecomes DEF f
  <2> QED
    BY <1>2, <1>6, <1>10, <1>11, <1>12, <2>2
<1>13. CASE f.phase # "cond"
  <2>1. f.kind = "command"
    BY <1>1, <1>13 DEF Standing, Frames
  <2>2. /\ ActionOf(scene, g) = ActionOf(scene, f) /\ RunsCommand(scene, g) = RunsCommand(scene, f)
    BY <1>9, SameRunSame
  <2>3. Standing(scene, g)
    BY <1>1, <1>6, <1>7, <1>10, <1>13, <2>1, <2>2 DEF Standing
  <2>4. Progressing(scene, g)
    BY <1>1, <1>4, <1>6, <1>7, <1>10, <2>1, <2>2 DEF Progressing, AtArgument
  <2>5. Held(scene, Prepared, g)
    BY <1>1, <1>4, <1>6, <1>7, <1>10, <2>2 DEF Held, Provided
  <2>6. OwnArgument(scene, f) => OwnArgument(scene, g)
    BY <1>4, <1>6, <1>7, <1>10, <2>2 DEF OwnArgument, AtArgument
  <2>7. Uses(scene, g) \subseteq Uses(scene, f)
    <3>1. q # NoItem /\ RunsCommand(scene, f) => q.stack \in Uses(scene, f)
      BY <1>4, <1>6, <1>7 DEF AtArgument
    <3> QED
      BY <1>8, <1>10, <2>1, <2>2, <3>1 DEF Uses
  <2>8. /\ NumbersIn(Prepared) /\ KeepsBut(args, Prepared, Uses(scene, f))
        /\ DOMAIN Prepared \subseteq DOMAIN args \cup Uses(scene, f)
    <3>1. NumbersIn(args)
      BY <1>1, TopIs
    <3> QED
      BY <1>4, <1>6, <3>1 DEF Provided, KeepsBut
  <2>9. Replaces(scene, table, args, stack, inUse, Prepared, g)
    BY <1>1, <1>9, <2>1, <2>3, <2>4, <2>5, <2>6, <2>7, <2>8, CommandGoesOn
  <2>10. EngineInv(scene, table, Prepared, WithTop(g), inUse)
    BY <2>9, ReplacedTop DEF WithTop, Below
  <2> QED
    BY <1>2, <1>10, <1>11, <2>10
<1> QED
  BY <1>12, <1>13

\* The beginning of a wait.
LEMMA AskDeviceKeeps == ASSUME SceneInv, AskDevice PROVE SceneInv'
<1>1. events \in Nat
  BY DEF SceneInv
<1> QED
  BY <1>1, LeavesTop, IdleStep DEF AskDevice

\* The expressions of scenes and arguments call scenes by names.
LEMMA ExprIs == ASSUME SceneInv, Evaluator PROVE RefersToName(Expr)
<1> DEFINE f == Top
<1>1. /\ f \in Frames /\ Standing(scene, f) /\ stack # << >> /\ Running /\ Evaluating
      /\ f.at = "ready" /\ f.phase \in {"cond", "args", "run"} /\ scene \in Seq(SceneRecords)
      /\ (f.phase # "cond" => ~f.lost)
  BY TopIs, EvaluatorIs DEF Running, Intact
<1>2. CASE f.phase = "cond"
  <2>1. /\ f.kind = "scene" /\ f.obj \in DOMAIN scene /\ f.i \in Nat /\ f.item \in Nat
        /\ f.item >= 1 /\ f.item <= f.i + 1
    BY <1>1, <1>2 DEF Standing, Frames
  <2>2. f.i < Len(scene[f.obj].conds) /\ Expr = scene[f.obj].conds[f.item]
    BY <1>1, <1>2 DEF Evaluating, Expr
  <2>3. scene[f.obj].conds \in Seq(Conditions)
    <3>1. scene[f.obj] \in SceneRecords
      BY <1>1, <2>1
    <3> QED
      BY <3>1 DEF SceneRecords
  <2>4. f.item \in DOMAIN scene[f.obj].conds
    BY <2>1, <2>2, <2>3
  <2>5. Expr \in Conditions
    BY <2>2, <2>3, <2>4
  <2>6. \A e \in Conditions : RefersToName(e)
    BY StartupAssumption DEF Conditions
  <2> QED
    BY <2>5, <2>6
<1>3. CASE f.phase = "args"
  <2>1. Arg \in Arguments /\ Expr = Arg.value
    BY <1>1, <1>3, ArgIs DEF AtArgument, Expr
  <2>2. \A x \in Arguments : RefersToName(x.value)
    <3>1. \A a \in NewActions : ToSet(a.env) = {}
      BY StartupAssumption DEF ToSet
    <3> QED
      BY <3>1, StartupAssumption DEF Arguments, GivenActions
  <2> QED
    BY <2>1, <2>2
<1>4. CASE f.phase = "run"
  <2>1. f.kind = "command"
    BY <1>1, <1>4 DEF Standing, Frames
  <2>2. Action \in Actions
    BY <1>1, <1>4, <2>1, ActionIs
  <2>3. PICK e \in GivenActions : Action.expr = e.expr
    BY <2>2 DEF Actions
  <2>4. RefersToName(e.expr)
    BY StartupAssumption DEF GivenActions, IsAction
  <2> QED
    BY <1>4, <2>3, <2>4 DEF Expr
<1> QED
  BY <1>1, <1>2, <1>3, <1>4

\* A scene is called by an expression.
LEMMA CallSceneKeeps == ASSUME SceneInv, CallScene PROVE SceneInv'
<1>1. args' = Prepared /\ events' = events /\ events \in Nat /\ Expr.op = "exec" /\ Evaluator
  BY DEF CallScene, SceneInv
<1>2. EngineInv(scene, table, Prepared, Away("called"), inUse)
      /\ Away("called") # << >> /\ Away("called")[Len(Away("called"))].at = "called"
  BY <1>1, LeavesTop
<1>3. CASE Exists(Expr.target)
  <2>1. Expr.target \in Names
    BY <1>1, ExprIs DEF RefersToName
  <2>2. Scene(Expr.target) \in DOMAIN scene
    BY <1>3, <2>1, SceneIs
  <2>3. EngineInv(scene, table, Prepared, Executing(Away("called"), Scene(Expr.target)), inUse)
    BY <1>2, <2>2, Entered
  <2>4. Idle(Executing(Away("called"), Scene(Expr.target)))
    BY <1>3 DEF CallScene
  <2> QED
    BY <1>1, <2>3, <2>4, IdleStep
<1>4. CASE ~Exists(Expr.target)
  <2>1. Idle(Away("called"))
    BY <1>4 DEF CallScene
  <2> QED
    BY <1>1, <1>2, <2>1, IdleStep
<1> QED
  BY <1>3, <1>4

-----------------------------------------------------------------------------
\* The steps of a scene.
LEMMA Leaves ==
  ASSUME SceneInv, stack # << >>, Uses(scene, Top) = {}
  PROVE  EngineInv(scene, table, args, Below, inUse)
<1>1. EngineInv(scene, table, args, stack, inUse) /\ NumbersIn(args) /\ Top = stack[Len(stack)]
  BY TopIs
<1>2. Pops(scene, table, args, stack, inUse, args)
  BY <1>1 DEF Pops, KeepsBut
<1> QED
  BY <1>2, PoppedTop DEF Below

\* A scene of which no condition holds is left.
LEMMA NoConditionKeeps == ASSUME SceneInv, NoCondition PROVE SceneInv'
<1>1. stack # << >> /\ Idle(Below) /\ args' = args /\ events' = events /\ events \in Nat
      /\ Top.kind = "scene"
  BY DEF NoCondition, Ready, Running, SceneInv
<1>2. Uses(scene, Top) = {}
  BY <1>1 DEF Uses, RunsCommand
<1> QED
  BY <1>1, <1>2, Leaves, IdleStep

\* A scene is left after its last action.
LEMMA SceneDoneKeeps == ASSUME SceneInv, SceneDone PROVE SceneInv'
<1>1. stack # << >> /\ Idle(Below) /\ args' = args /\ events' = events /\ events \in Nat
      /\ Top.kind = "scene"
  BY DEF SceneDone, Ready, Running, SceneInv
<1>2. Uses(scene, Top) = {}
  BY <1>1 DEF Uses, RunsCommand
<1> QED
  BY <1>1, <1>2, Leaves, IdleStep

\* A scene that performs its next action.
LEMMA ActingIs ==
  ASSUME SceneInv, NEW types, Acting(types)
  PROVE  /\ stack # << >> /\ Top.kind = "scene" /\ Top.phase = "act" /\ Top.at = "ready"
         /\ Top.obj \in DOMAIN scene /\ Top.obj \in Nat /\ Top.item \in Nat \ {0}
         /\ Top.item \in DOMAIN Acts
         /\ NextAct = scene[Top.obj].acts[Top.item] /\ NextAct \in Actions /\ NextAct.type \in types
         /\ Advanced(Top) \in Frames /\ SameScene(Top, Advanced(Top)) /\ Advanced(Top).arg = NoItem
         /\ Advanced(Top).phase = "act" /\ Advanced(Top).at = "ready" /\ Advanced(Top).kind = "scene"
<1>1. stack # << >> /\ Top.kind = "scene" /\ Top.phase = "act" /\ Top.i < Len(Acts) /\ NextAct.type \in types
      /\ Top.at = "ready"
  BY DEF Acting, Ready, Running
<1>2. Top \in Frames /\ Standing(scene, Top) /\ scene \in Seq(SceneRecords)
  BY <1>1, TopIs
<1>3. /\ Top.obj \in DOMAIN scene /\ Top.obj \in Nat /\ Top.i \in Nat /\ Top.item \in Nat
      /\ Top.item <= Top.i + 1 /\ Top.item >= 1
  BY <1>1, <1>2 DEF Standing, Frames
<1>4. scene[Top.obj].acts \in Seq(Actions)
  <2>1. scene[Top.obj] \in SceneRecords
    BY <1>2, <1>3
  <2> QED
    BY <2>1 DEF SceneRecords
<1>5. Top.item \in DOMAIN Acts /\ NextAct = scene[Top.obj].acts[Top.item] /\ NextAct \in Actions
  BY <1>1, <1>3, <1>4 DEF Acts, NextAct
<1>6. /\ Advanced(Top) \in Frames /\ SameRun(Top, Advanced(Top)) /\ AdvancedTo(Top, Advanced(Top))
      /\ SameScene(Top, Advanced(Top))
  BY <1>2, <1>3, AdvancedIs, AdvancedScene
<1>7. /\ Advanced(Top).arg = NoItem /\ Advanced(Top).kind = "scene"
      /\ Advanced(Top).phase = "act" /\ Advanced(Top).at = "ready"
  BY <1>1, <1>6 DEF AdvancedTo, SameRun
<1> QED
  BY <1>1, <1>3, <1>5, <1>6, <1>7

\* The invariant survives the move of a scene to its next action.
LEMMA ActingGoesOn ==
  ASSUME SceneInv, NEW types, Acting(types)
  PROVE  /\ EngineInv(scene, table, args, WithTop(Advanced(Top)), inUse)
         /\ WithTop(Advanced(Top)) # << >>
         /\ WithTop(Advanced(Top))[Len(WithTop(Advanced(Top)))] = Advanced(Top)
  BY ActingIs, SceneTopBecomes

\* A scene executes another.
LEMMA ExecSceneKeeps == ASSUME SceneInv, ExecScene PROVE SceneInv'
<1> DEFINE s == WithTop(Advanced(Top))
<1>1. Acting({"scene"}) /\ args' = args /\ events' = events /\ events \in Nat
  BY DEF ExecScene, SceneInv
<1>2. EngineInv(scene, table, args, s, inUse) /\ s[Len(s)].phase = "act"
      /\ NextAct \in Actions /\ NextAct.type = "scene"
  BY <1>1, ActingIs, ActingGoesOn
<1>3. CASE Exists(NextAct.target)
  <2>1. NextAct.target \in Names
    BY <1>2 DEF Actions
  <2>2. Scene(NextAct.target) \in DOMAIN scene
    BY <1>3, <2>1, SceneIs
  <2>3. Idle(Executing(s, Scene(NextAct.target)))
    BY <1>3 DEF ExecScene
  <2> HIDE DEF s
  <2>4. EngineInv(scene, table, args, Executing(s, Scene(NextAct.target)), inUse)
    BY <1>2, <2>2, Entered DEF Evaluates
  <2> QED
    BY <1>1, <2>3, <2>4, IdleStep
<1>4. CASE ~Exists(NextAct.target)
  <2>1. Idle(s)
    BY <1>4 DEF ExecScene
  <2> QED
    BY <1>1, <1>2, <2>1, IdleStep
<1> QED
  BY <1>3, <1>4

Performs(f, m) == [f EXCEPT !.act = m, !.phase = "args"]

\* A command is entered, with its arguments to come.
LEMMA PerformsIs ==
  ASSUME NEW f \in Frames, NEW m \in Nat
  PROVE  Performs(f, m) \in Frames
  BY DEF Frames, Performs

\* A command or a script is entered above a scene, and its stacks are claimed.
LEMMA ExecCommandKeeps == ASSUME SceneInv, ExecCommand PROVE SceneInv'
<1> DEFINE s == WithTop(Advanced(Top))
           X == StacksOf(NextAct)
           f == [NewFrame("command", Top.obj) EXCEPT !.act = Top.item, !.phase = "args"]
<1>1. Acting({"command", "script"}) /\ args' = args /\ events' = events /\ events \in Nat
      /\ NumbersIn(args)
  BY DEF ExecCommand, SceneInv, EngineInv, Typed, NumbersIn
<1>2. EngineInv(scene, table, args, s, inUse) /\ s # << >> /\ s[Len(s)].phase = "act"
      /\ NextAct \in Actions
  BY <1>1, ActingIs, ActingGoesOn
<1>3. Top.obj \in DOMAIN scene /\ Top.obj \in Nat /\ Top.item \in Nat \ {0}
      /\ Top.item \in DOMAIN scene[Top.obj].acts /\ NextAct = scene[Top.obj].acts[Top.item]
  BY <1>1, ActingIs DEF Acts
<1>4. X \in SUBSET Stacks
  <2>1. NextAct.env \in Seq(Arguments)
    BY <1>2 DEF Actions
  <2> QED
    BY <2>1 DEF StacksOf, Stacks
<1>5. f \in Frames /\ f.kind = "command" /\ f.obj = Top.obj /\ f.act = Top.item /\ f.phase = "args"
      /\ f.at = "ready" /\ f.item = 1 /\ f.i = 0 /\ f.arg = NoItem /\ f.put = {} /\ f.stay = {}
  <2>1. NewFrame("command", Top.obj) \in Frames
    BY <1>3, NewFrameIs
  <2>2. Top.item \in Nat
    BY <1>3
  <2>3. f \in Frames
    BY <2>1, <2>2, PerformsIs DEF Performs
  <2> QED
    BY <2>3 DEF NewFrame
<1>6. CASE Idle(s)
  BY <1>1, <1>2, <1>6, IdleStep
<1>7. CASE Idle(Append(Clashing(s, X), f))
  <2> HIDE DEF f, s, X
  <2>1. ActionOf(scene, f) = NextAct
    BY <1>3, <1>5 DEF ActionOf
  <2>2. Uses(scene, f) \subseteq X
    BY <1>5, <2>1 DEF Uses, X
  <2>3. Standing(scene, f) /\ Progressing(scene, f) /\ Held(scene, args, f)
        /\ Iterating(scene, table, f)
    BY <1>3, <1>5 DEF Standing, Progressing, Held, Iterating
  <2>4. /\ EngineInv(scene, table, args, Clashing(s, X), inUse)
        /\ DOMAIN Clashing(s, X) = DOMAIN s /\ Len(Clashing(s, X)) = Len(s)
        /\ \A k \in DOMAIN s : X \subseteq Clashing(s, X)[k].clash /\ Clashing(s, X)[k].phase = s[k].phase
    BY <1>2, <1>4, Claims
  <2>5. Len(s) \in DOMAIN s
    BY <1>2, TopGood
  <2>6. Pushes(scene, table, args, Clashing(s, X), inUse, args, f)
    BY <1>1, <1>2, <1>5, <2>2, <2>3, <2>4, <2>5 DEF Pushes, Good, KeepsBut, Evaluates
  <2>7. EngineInv(scene, table, args, Append(Clashing(s, X), f), inUse)
    BY <2>6, PushedTop
  <2> QED
    BY <1>1, <1>7, <2>7, IdleStep
<1> QED
  BY <1>6, <1>7 DEF ExecCommand

InRun(f) == [f EXCEPT !.phase = "run"]

\* A command is executed, with its arguments complete.
LEMMA InRunIs ==
  ASSUME NEW f \in Frames, f.at = "ready"
  PROVE  InRun(f) \in Frames /\ SameRun(f, InRun(f)) /\ Phased(f, InRun(f), "run", f.i)
<1>1. InRun(f) \in Frames
  BY DEF Frames, InRun
<1> QED
  BY <1>1 DEF Frames, InRun, SameRun, Phased

\* The arguments are complete.
LEMMA ArgumentsDoneKeeps == ASSUME SceneInv, ArgumentsDone PROVE SceneInv'
<1> DEFINE f == Top
           g == InRun(f)
<1>1. stack # << >> /\ f.kind = "command" /\ f.phase = "args" /\ f.at = "ready"
      /\ args' = args /\ events' = events /\ events \in Nat /\ ~f.lost
  BY DEF ArgumentsDone, Ready, Running, SceneInv, Intact
<1>2. /\ EngineInv(scene, table, args, stack, inUse) /\ f = stack[Len(stack)] /\ f \in Frames
      /\ Standing(scene, f) /\ Held(scene, args, f) /\ NumbersIn(args)
  BY <1>1, TopIs
<1>3. Action = ActionOf(scene, f)
  BY <1>1, ActionIs
<1>4. CASE Action.type = "command"
  <2>1. Idle(WithTop(g))
    BY <1>4 DEF ArgumentsDone, InRun
  <2> HIDE DEF f
  <2>2. g \in Frames /\ SameRun(f, g) /\ Phased(f, g, "run", f.i)
    BY <1>1, <1>2, InRunIs
  <2> HIDE DEF g
  <2>3. /\ g.put = f.put /\ g.phase = "run" /\ g.i = f.i /\ g.item = f.item /\ g.at = "ready"
        /\ g.arg = f.arg /\ g.kind = f.kind /\ g.obj = f.obj /\ g.act = f.act /\ g.clash = f.clash
        /\ g.lost = f.lost
    BY <2>2 DEF Phased, SameRun
  <2>4. ActionOf(scene, g) = ActionOf(scene, f) /\ RunsCommand(scene, g) = RunsCommand(scene, f)
        /\ Uses(scene, g) = Uses(scene, f)
    BY <2>2, <2>3, SameRunSame
  <2>5. f.arg = NoItem
    BY <1>1, <1>2 DEF Standing
  <2>6. Standing(scene, g)
    BY <1>1, <1>2, <1>3, <1>4, <2>3, <2>4, <2>5 DEF Standing
  <2>7. Progressing(scene, g)
    BY <2>3 DEF Progressing
  <2>8. Held(scene, args, g) /\ OwnArgument(scene, g)
    BY <1>2, <2>3, <2>4, <2>5 DEF Held, OwnArgument
  <2>9. Replaces(scene, table, args, stack, inUse, args, g)
    BY <1>1, <1>2, <2>2, <2>4, <2>6, <2>7, <2>8, CommandGoesOn DEF KeepsBut
  <2>10. EngineInv(scene, table, args, WithTop(g), inUse)
    BY <2>9, ReplacedTop DEF WithTop, Below
  <2> QED
    BY <1>1, <2>1, <2>10, IdleStep
<1>5. CASE Action.type # "command"
  <2>1. Idle(Below)
    BY <1>5 DEF ArgumentsDone
  <2>2. Uses(scene, f) = {}
    BY <1>1, <1>3, <1>5 DEF Uses, RunsCommand
  <2> QED
    BY <1>1, <2>1, <2>2, Leaves, IdleStep
<1> QED
  BY <1>4, <1>5

\* Once freed memory is used nothing that the invariant is about changes any more.
LEMMA UseFreedKeeps == ASSUME SceneInv, UseFreed PROVE SceneInv'
  BY DEF UseFreed, SceneInv

-----------------------------------------------------------------------------
\* Changes of the scenes that their names, sources and actions survive.
SameScenes(sc, b) ==
  /\ DOMAIN sc \subseteq DOMAIN b
  /\ \A o \in DOMAIN sc : b[o].name = sc[o].name /\ b[o].sources = sc[o].sources /\ b[o].acts = sc[o].acts
  /\ \A o \in DOMAIN b \ DOMAIN sc : b[o].acts = << >>

\* The invariant survives a change of scenes that leaves names, sources and actions.
LEMMA ScenesChange ==
  ASSUME NEW sc, NEW tb, NEW ar, NEW s, NEW u, EngineInv(sc, tb, ar, s, u),
         NEW b \in Seq(SceneRecords), SameScenes(sc, b)
  PROVE  EngineInv(b, tb, ar, s, u)
<1>1. /\ Typed(sc, ar, s) /\ Listing(sc, tb, s) /\ Claimed(sc, s) /\ Owned(sc, ar, s, u) /\ Nested(s)
      /\ \A k \in DOMAIN s : Good(sc, tb, ar, s[k])
  BY DEF EngineInv
<1>2. ASSUME NEW k \in DOMAIN s
      PROVE  /\ s[k].kind = "command" => ActionOf(b, s[k]) = ActionOf(sc, s[k])
                                         /\ b[s[k].obj].acts = sc[s[k].obj].acts
             /\ RunsCommand(b, s[k]) <=> RunsCommand(sc, s[k])
             /\ Uses(b, s[k]) = Uses(sc, s[k])
  <2>1. Standing(sc, s[k])
    BY <1>1 DEF Good
  <2>2. s[k].kind = "command" => s[k].obj \in DOMAIN sc
    BY <2>1 DEF Standing
  <2>3. s[k].kind = "command" => ActionOf(b, s[k]) = ActionOf(sc, s[k])
                                 /\ b[s[k].obj].acts = sc[s[k].obj].acts
    BY <2>2 DEF SameScenes, ActionOf
  <2>4. RunsCommand(b, s[k]) <=> RunsCommand(sc, s[k])
    BY <2>3 DEF RunsCommand
  <2> QED
    BY <2>3, <2>4 DEF Uses, RunsCommand
<1>3. ASSUME NEW k \in DOMAIN s PROVE Good(b, tb, ar, s[k])
  <2> DEFINE f == s[k]
  <2>1. /\ f \in Frames /\ Standing(sc, f) /\ Progressing(sc, f) /\ Held(sc, ar, f)
        /\ Iterating(sc, tb, f)
    BY <1>1 DEF Good
  <2>2. Standing(b, f)
    BY <1>2, <2>1 DEF Standing, SameScenes
  <2>3. Progressing(b, f)
    <3>1. RunsCommand(b, f) => ActionOf(b, f) = ActionOf(sc, f)
      BY <1>2 DEF RunsCommand
    <3> QED
      BY <1>2, <2>1, <3>1 DEF Progressing
  <2>4. Held(b, ar, f)
    BY <1>2, <2>1 DEF Held
  <2>5. Iterating(b, tb, f)
    <3>1. f.stay \subseteq DOMAIN sc
      BY <1>1 DEF Listing
    <3>2. \A o \in f.stay : Place(b, tb, o) = Place(sc, tb, o) /\ MatchesOf(b, f, o) = MatchesOf(sc, f, o)
                           /\ \A m : Behinds(b, f, o, m) = Behinds(sc, f, o, m)
      BY <3>1 DEF SameScenes, Place, MatchesOf, Behinds
    <3> QED
      BY <2>1, <3>2 DEF Iterating
  <2> QED
    BY <2>1, <2>2, <2>3, <2>4, <2>5 DEF Good
<1>4. Typed(b, ar, s)
  <2>1. ASSUME NEW o \in DOMAIN b, NEW c \in DOMAIN b[o].acts, NEW p \in DOMAIN b[o].acts[c].env,
               NEW q \in DOMAIN b[o].acts[c].env, SameArgument(b[o].acts[c].env[p], b[o].acts[c].env[q])
        PROVE  p = q
    <3>1. o \in DOMAIN sc
      BY <2>1 DEF SameScenes
    <3>2. b[o].acts = sc[o].acts
      BY <3>1 DEF SameScenes
    <3> QED
      BY <1>1, <2>1, <3>1, <3>2 DEF Typed
  <2> QED
    BY <1>1, <2>1 DEF Typed
<1>5. Listing(b, tb, s)
  BY <1>1 DEF Listing, SameScenes
<1>6. Claimed(b, s)
  BY <1>1, <1>2 DEF Claimed
<1>7. Owned(b, ar, s, u)
  <2>1. ASSUME NEW k \in DOMAIN s, RunsCommand(b, s[k])
        PROVE  ActionOf(b, s[k]) = ActionOf(sc, s[k])
    BY <1>2, <2>1 DEF RunsCommand
  <2> QED
    BY <1>1, <1>2, <2>1 DEF Owned
<1> QED
  BY <1>1, <1>3, <1>4, <1>5, <1>6, <1>7 DEF EngineInv

\* Scene o is switched.
LEMMA Switched ==
  ASSUME NEW sc \in Seq(SceneRecords), NEW o \in DOMAIN sc, NEW e \in BOOLEAN
  PROVE  /\ [sc EXCEPT ![o].enabled = e] \in Seq(SceneRecords)
         /\ SameScenes(sc, [sc EXCEPT ![o].enabled = e])
         /\ [sc EXCEPT ![o].live = e] \in Seq(SceneRecords)
         /\ SameScenes(sc, [sc EXCEPT ![o].live = e])
<1>1. sc[o] \in SceneRecords /\ Len(sc) \in Nat /\ DOMAIN sc = 1 .. Len(sc)
  OBVIOUS
<1>2. \A r \in SceneRecords : [sc EXCEPT ![o] = r] \in Seq(SceneRecords)
  BY <1>1
<1>3. ASSUME NEW r \in SceneRecords, r.name = sc[o].name, r.sources = sc[o].sources, r.acts = sc[o].acts
      PROVE  SameScenes(sc, [sc EXCEPT ![o] = r])
  BY <1>1, <1>3 DEF SameScenes
<1>4. /\ [sc[o] EXCEPT !.enabled = e] \in SceneRecords /\ [sc[o] EXCEPT !.enabled = e].name = sc[o].name
      /\ [sc[o] EXCEPT !.enabled = e].sources = sc[o].sources /\ [sc[o] EXCEPT !.enabled = e].acts = sc[o].acts
  BY <1>1 DEF SceneRecords
<1>5. /\ [sc[o] EXCEPT !.live = e] \in SceneRecords /\ [sc[o] EXCEPT !.live = e].name = sc[o].name
      /\ [sc[o] EXCEPT !.live = e].sources = sc[o].sources /\ [sc[o] EXCEPT !.live = e].acts = sc[o].acts
  BY <1>1 DEF SceneRecords
<1> QED
  BY <1>2, <1>3, <1>4, <1>5

\* A scene enables or disables another.
LEMMA SwitchSceneKeeps == ASSUME SceneInv, SwitchScene PROVE SceneInv'
<1>1. Acting({"enable", "disable"}) /\ stack' = WithTop(Advanced(Top))
      /\ UNCHANGED <<table, args, events, inUse>> /\ events \in Nat /\ scene \in Seq(SceneRecords)
  BY DEF SwitchScene, SceneInv, EngineInv, Typed
<1>2. EngineInv(scene, table, args, stack', inUse)
  BY <1>1, ActingGoesOn
<1>3. CASE Exists(NextAct.target)
  <2>1. NextAct.target \in Names
    BY <1>1, ActingIs DEF Actions
  <2>2. Scene(NextAct.target) \in DOMAIN scene
    BY <1>3, <2>1, SceneIs
  <2>3. scene' = [scene EXCEPT ![Scene(NextAct.target)].enabled = (NextAct.type = "enable")]
    BY <1>3 DEF SwitchScene
  <2>4. scene' \in Seq(SceneRecords) /\ SameScenes(scene, scene')
    <3>1. (NextAct.type = "enable") \in BOOLEAN
      OBVIOUS
    <3> QED
      BY <1>1, <2>2, <2>3, <3>1, Switched
  <2>5. EngineInv(scene', table, args, stack', inUse)
    BY <1>2, <2>4, ScenesChange
  <2> QED
    BY <1>1, <2>5 DEF SceneInv
<1>4. CASE ~Exists(NextAct.target)
  <2>1. scene' = scene
    BY <1>4 DEF SwitchScene
  <2> QED
    BY <1>1, <1>2, <2>1 DEF SceneInv
<1> QED
  BY <1>3, <1>4

\* The command line enables or disables a scene.
LEMMA SwitchByHandKeeps == ASSUME SceneInv, NEW n \in Names, SwitchByHand(n) PROVE SceneInv'
<1>1. Scene(n) \in DOMAIN scene /\ scene \in Seq(SceneRecords)
      /\ EngineInv(scene, table, args, stack, inUse) /\ events \in Nat
  BY SceneIs DEF SwitchByHand, SceneInv, EngineInv, Typed
<1>2. UNCHANGED <<table, args, stack, events, inUse>>
      /\ scene' = [scene EXCEPT ![Scene(n)].enabled = ~scene[Scene(n)].enabled]
  BY DEF SwitchByHand, Edit
<1>3. (~scene[Scene(n)].enabled) \in BOOLEAN
  OBVIOUS
<1>4. scene' \in Seq(SceneRecords) /\ SameScenes(scene, scene')
  BY <1>1, <1>2, <1>3, Switched
<1>5. EngineInv(scene', table, args, stack, inUse)
  BY <1>1, <1>4, ScenesChange
<1> QED
  BY <1>1, <1>2, <1>5 DEF SceneInv

-----------------------------------------------------------------------------
\* Changes of the table: the frames forget what has left, or that it has grown.
SameFrameBut(f, g) ==
  /\ g.clash = f.clash /\ g.put = f.put /\ g.kind = f.kind
  /\ g.obj = f.obj /\ g.act = f.act /\ g.arg = f.arg /\ g.phase = f.phase
  /\ g.lost = f.lost /\ g.at = f.at /\ g.item = f.item /\ g.i = f.i
  /\ g.src = f.src /\ g.pos = f.pos /\ g.ran = f.ran

MarkedGrown(f, e) == [f EXCEPT !.grew = @ \/ e]
Staying(f, X) == [f EXCEPT !.stay = @ \ X]

\* The history of growth is set.
LEMMA Graded ==
  ASSUME NEW f \in Frames, NEW g \in BOOLEAN
  PROVE  /\ [f EXCEPT !.grew = g] \in Frames /\ SameFrameBut(f, [f EXCEPT !.grew = g])
         /\ [f EXCEPT !.grew = g].stay = f.stay /\ [f EXCEPT !.grew = g].grew = g
  BY DEF Frames, SameFrameBut

\* The history of growth is kept up.
LEMMA MarkedIs ==
  ASSUME NEW f \in Frames, NEW e \in BOOLEAN
  PROVE  /\ MarkedGrown(f, e) \in Frames /\ SameFrameBut(f, MarkedGrown(f, e))
         /\ MarkedGrown(f, e).stay = f.stay /\ MarkedGrown(f, e).grew = (f.grew \/ e)
<1> DEFINE g == (f.grew \/ e)
<1>1. g \in BOOLEAN
  OBVIOUS
<1>2. MarkedGrown(f, e) = [f EXCEPT !.grew = g]
  BY DEF MarkedGrown
<1> HIDE DEF g
<1>3. MarkedGrown(f, e) \in Frames /\ SameFrameBut(f, MarkedGrown(f, e))
      /\ MarkedGrown(f, e).stay = f.stay /\ MarkedGrown(f, e).grew = g
  BY <1>1, <1>2, Graded
<1> QED
  BY <1>3 DEF g

\* The scenes that have stayed become fewer.
LEMMA StayingIs ==
  ASSUME NEW f \in Frames, NEW X
  PROVE  /\ Staying(f, X) \in Frames /\ SameFrameBut(f, Staying(f, X))
         /\ Staying(f, X).stay = f.stay \ X /\ Staying(f, X).grew = f.grew
  BY DEF Frames, Staying, SameFrameBut

TableOf(sc, t) ==
  Sound(t, Nat) /\ \A x \in Items(t) : x.data \in DOMAIN sc /\ x.key = Crc[sc[x.data].name]

\* The frames b of the table t come from the frames s of the table tb.
Follows(tb, t, s, b) ==
  /\ b \in Seq(Frames) /\ DOMAIN b = DOMAIN s
  /\ \A k \in DOMAIN s : /\ SameFrameBut(s[k], b[k]) /\ b[k].stay \subseteq s[k].stay
                         /\ b[k].stay \subseteq {x.data : x \in Items(t)}
                         /\ ~b[k].grew => ~s[k].grew /\ Size(t) = Size(tb)

\* The invariant survives a change of the table that the frames follow.
LEMMA TableChange ==
  ASSUME NEW sc, NEW tb, NEW ar, NEW s, NEW u, EngineInv(sc, tb, ar, s, u),
         NEW t, TableOf(sc, t), NEW b, Follows(tb, t, s, b)
  PROVE  EngineInv(sc, t, ar, b, u)
<1>1. /\ Typed(sc, ar, s) /\ Claimed(sc, s) /\ Owned(sc, ar, s, u) /\ Nested(s)
      /\ \A k \in DOMAIN s : Good(sc, tb, ar, s[k])
  BY DEF EngineInv
<1>2. b \in Seq(Frames) /\ DOMAIN b = DOMAIN s /\ Len(b) = Len(s)
  BY <1>1 DEF Follows, Typed
<1>3. ASSUME NEW k \in DOMAIN s
      PROVE  SameFrameBut(s[k], b[k]) /\ b[k].stay \subseteq s[k].stay
             /\ (~b[k].grew => ~s[k].grew /\ Size(t) = Size(tb))
  BY DEF Follows
<1>4. ASSUME NEW k \in DOMAIN s
      PROVE  /\ ActionOf(sc, b[k]) = ActionOf(sc, s[k]) /\ RunsCommand(sc, b[k]) = RunsCommand(sc, s[k])
             /\ Uses(sc, b[k]) = Uses(sc, s[k])
  BY <1>3 DEF ActionOf, RunsCommand, Uses, SameFrameBut
<1>5. ASSUME NEW k \in DOMAIN s PROVE Good(sc, t, ar, b[k])
  <2>1. Good(sc, tb, ar, s[k])
    BY <1>1
  <2>2. b[k] \in Frames
    BY <1>2
  <2>3. Standing(sc, b[k])
    BY <1>3, <1>4, <2>1 DEF Good, Standing, SameFrameBut
  <2>4. Progressing(sc, b[k])
    BY <1>3, <1>4, <2>1 DEF Good, Progressing, SameFrameBut
  <2>5. Held(sc, ar, b[k])
    BY <1>3, <1>4, <2>1 DEF Good, Held, SameFrameBut
  <2>6. Iterating(sc, t, b[k])
    BY <1>3, <2>1 DEF Good, Iterating, MatchesOf, Behinds, Place, SameFrameBut
  <2> QED
    BY <2>2, <2>3, <2>4, <2>5, <2>6 DEF Good
<1>6. Typed(sc, ar, b)
  BY <1>1, <1>2 DEF Typed
<1>7. Nested(b)
  BY <1>1, <1>2, <1>3 DEF Nested, Evaluates, SameFrameBut
<1>8. Claimed(sc, b)
  BY <1>1, <1>2, <1>3, <1>4 DEF Claimed, SameFrameBut
<1>9. Owned(sc, ar, b, u)
  BY <1>1, <1>2, <1>3, <1>4 DEF Owned, SameFrameBut
<1>10. Listing(sc, t, b)
  BY <1>2 DEF Listing, TableOf, Follows
<1> QED
  BY <1>2, <1>5, <1>6, <1>7, <1>8, <1>9, <1>10 DEF EngineInv

\* An empty scene is appended.
LEMMA EmptyAdded ==
  ASSUME NEW sc \in Seq(SceneRecords), NEW n \in Names
  PROVE  LET c == NewScene([name |-> n, sources |-> << >>, conds |-> << >>, acts |-> << >>])
             b == Append(sc, c)
         IN  /\ b \in Seq(SceneRecords) /\ SameScenes(sc, b) /\ Len(sc) + 1 \in DOMAIN b
             /\ b[Len(sc) + 1].name = n /\ Len(sc) + 1 \in Nat
<1> DEFINE c == NewScene([name |-> n, sources |-> << >>, conds |-> << >>, acts |-> << >>])
<1>1. c \in SceneRecords /\ c.name = n /\ c.acts = << >>
  <2>1. << >> \in Seq(Actions) /\ << >> \in Seq(SourceNames) /\ << >> \in Seq(Conditions)
    OBVIOUS
  <2> QED
    BY <2>1 DEF NewScene, SceneRecords
<1> HIDE DEF c
<1>2. /\ Append(sc, c) \in Seq(SceneRecords) /\ Len(sc) \in Nat /\ DOMAIN sc = 1 .. Len(sc)
      /\ DOMAIN Append(sc, c) = 1 .. Len(sc) + 1 /\ Append(sc, c)[Len(sc) + 1] = c
      /\ \A k \in 1 .. Len(sc) : Append(sc, c)[k] = sc[k]
  BY <1>1, WithLast
<1>3. SameScenes(sc, Append(sc, c))
  BY <1>1, <1>2 DEF SameScenes
<1> QED
  BY <1>1, <1>2, <1>3 DEF c

\* A scene is added: its key was free, and a table of the same size moves none.
LEMMA AddSceneKeeps == ASSUME SceneInv, NEW n \in Names, AddScene(n) PROVE SceneInv'
<1> DEFINE o == Len(scene) + 1
           t == Insert(table, Crc[n], o)
           e == (Size(t) # Size(table))
<1>1. /\ EngineInv(scene, table, args, stack, inUse) /\ events \in Nat /\ scene \in Seq(SceneRecords)
      /\ stack \in Seq(Frames) /\ TableOf(scene, table) /\ Crc[n] \in 0 .. KeyBound - 1
      /\ \A k \in DOMAIN stack : stack[k].stay \subseteq {x.data : x \in Items(table)}
  BY ScenesAssumption DEF SceneInv, EngineInv, Typed, Listing, TableOf
<1>2. /\ scene' \in Seq(SceneRecords) /\ SameScenes(scene, scene') /\ o \in DOMAIN scene'
      /\ scene'[o].name = n /\ o \in Nat
  BY <1>1, EmptyAdded DEF AddScene
<1>3. EngineInv(scene', table, args, stack, inUse)
  BY <1>1, <1>2, ScenesChange
<1>4. /\ Sound(t, Nat) /\ Items(t) = {x \in Items(table) : x.key # Crc[n]} \cup {Item(Crc[n], o)}
  BY <1>1, <1>2, InsertSound DEF TableOf
<1>5. \A x \in Items(table) : x.key # Crc[n]
  <2>1. ASSUME NEW x \in Items(table), x.key = Crc[n] PROVE FALSE
    <3>1. Scene(n) = x.data
      BY <1>1, <2>1, Found DEF Scene, TableOf
    <3>2. x.data \in DOMAIN scene
      BY <1>1 DEF TableOf
    <3>3. x.data \in Nat
      BY <1>1, <3>2
    <3> QED
      BY <3>1, <3>3, ScenesAssumption DEF AddScene, Exists
  <2> QED
    BY <2>1
<1>6. Items(t) = Items(table) \cup {Item(Crc[n], o)}
  BY <1>4, <1>5
<1>7. Item(Crc[n], o).key = Crc[n] /\ Item(Crc[n], o).data = o
  BY DEF Item
<1> HIDE DEF t, o
<1>8. TableOf(scene', t)
  <2>1. ASSUME NEW x \in Items(table)
        PROVE  x.data \in DOMAIN scene' /\ x.key = Crc[scene'[x.data].name]
    BY <1>1, <1>2 DEF TableOf, SameScenes
  <2> QED
    BY <1>2, <1>4, <1>6, <1>7, <2>1 DEF TableOf
<1>9. /\ table' = t /\ stack' = [k \in DOMAIN stack |-> MarkedGrown(stack[k], e)]
      /\ UNCHANGED <<args, events, inUse>>
  BY DEF AddScene, Edit, MarkedGrown, t, o
<1>10. Follows(table, t, stack, stack')
  <2>1. ASSUME NEW k \in DOMAIN stack
        PROVE  /\ stack'[k] \in Frames /\ SameFrameBut(stack[k], stack'[k])
               /\ stack'[k].stay = stack[k].stay /\ stack'[k].grew = (stack[k].grew \/ e)
    <3>1. stack[k] \in Frames /\ e \in BOOLEAN
      BY <1>1
    <3>2. stack'[k] = MarkedGrown(stack[k], e)
      BY <1>9
    <3> HIDE DEF e
    <3>3. /\ MarkedGrown(stack[k], e) \in Frames /\ SameFrameBut(stack[k], MarkedGrown(stack[k], e))
          /\ MarkedGrown(stack[k], e).stay = stack[k].stay
          /\ MarkedGrown(stack[k], e).grew = (stack[k].grew \/ e)
      BY ONLY <3>1, MarkedIs
    <3> QED
      BY ONLY <3>2, <3>3
  <2>2. DOMAIN stack' = DOMAIN stack /\ stack' \in Seq(Frames)
    <3>1. DOMAIN stack = 1 .. Len(stack) /\ Len(stack) \in Nat
      BY <1>1
    <3>2. stack' = [k \in 1 .. Len(stack) |-> stack'[k]]
      BY <1>9, <3>1
    <3> QED
      BY <2>1, <3>1, <3>2
  <2> QED
    BY <1>1, <1>6, <2>1, <2>2 DEF Follows
<1>11. EngineInv(scene', t, args, stack', inUse)
  BY <1>3, <1>8, <1>10, TableChange
<1> QED
  BY <1>1, <1>9, <1>11 DEF SceneInv

\* A scene is deleted: what leaves the table is the scene itself and no other.
LEMMA DelSceneKeeps == ASSUME SceneInv, NEW n \in Names, DelScene(n) PROVE SceneInv'
<1> DEFINE o == Scene(n)
           t == Without(table, Crc[n])
<1>1. /\ EngineInv(scene, table, args, stack, inUse) /\ events \in Nat /\ scene \in Seq(SceneRecords)
      /\ stack \in Seq(Frames) /\ TableOf(scene, table) /\ Crc[n] \in 0 .. KeyBound - 1
      /\ \A k \in DOMAIN stack : stack[k].stay \subseteq {x.data : x \in Items(table)}
  BY ScenesAssumption DEF SceneInv, EngineInv, Typed, Listing, TableOf
<1>2. o \in DOMAIN scene /\ \E x \in Items(table) : x.key = Crc[n] /\ x.data = o
  BY SceneIs DEF DelScene
<1>3. scene' \in Seq(SceneRecords) /\ SameScenes(scene, scene')
  BY <1>1, <1>2, Switched DEF DelScene
<1>4. EngineInv(scene', table, args, stack, inUse)
  BY <1>1, <1>3, ScenesChange
<1>5. /\ Sound(t, Nat) /\ Size(t) = Size(table)
      /\ Items(t) = {x \in Items(table) : Index(x.key, Size(table)) # Index(Crc[n], Size(table))}
  BY <1>1, Removed DEF TableOf
<1>6. TableOf(scene', t)
  BY <1>1, <1>3, <1>5 DEF TableOf, SameScenes
<1>7. ASSUME NEW x \in Items(table), x.data # o PROVE x \in Items(t)
  <2>1. PICK y \in Items(table) : y.key = Crc[n] /\ y.data = o
    BY <1>2
  <2>2. Index(x.key, Size(table)) # Index(y.key, Size(table))
    BY <1>1, <1>7, <2>1, ItemsPlaced DEF TableOf
  <2> QED
    BY <1>5, <2>1, <2>2
<1> HIDE DEF t
<1>8. /\ table' = t /\ stack' = [k \in DOMAIN stack |-> Staying(stack[k], {o})]
      /\ UNCHANGED <<args, events, inUse>>
  BY DEF DelScene, Edit, Staying, t
<1>9. Follows(table, t, stack, stack')
  <2>1. ASSUME NEW k \in DOMAIN stack
        PROVE  /\ stack'[k] \in Frames /\ SameFrameBut(stack[k], stack'[k])
               /\ stack'[k].stay = stack[k].stay \ {o} /\ stack'[k].grew = stack[k].grew
    <3>1. stack[k] \in Frames /\ stack'[k] = Staying(stack[k], {o})
      BY <1>1, <1>8
    <3> QED
      BY <3>1, StayingIs
  <2>2. DOMAIN stack' = DOMAIN stack /\ stack' \in Seq(Frames)
    <3>1. DOMAIN stack = 1 .. Len(stack) /\ Len(stack) \in Nat
      BY <1>1
    <3>2. stack' = [k \in 1 .. Len(stack) |-> stack'[k]]
      BY <1>8, <3>1
    <3> QED
      BY <2>1, <3>1, <3>2
  <2>3. ASSUME NEW k \in DOMAIN stack, NEW z \in stack'[k].stay PROVE z \in {x.data : x \in Items(t)}
    <3>1. z \in stack[k].stay /\ z # o
      BY <2>1, <2>3
    <3>2. PICK x \in Items(table) : x.data = z
      BY <1>1, <3>1
    <3> QED
      BY <1>7, <3>1, <3>2
  <2> QED
    BY <1>5, <2>1, <2>2, <2>3 DEF Follows
<1>10. EngineInv(scene', t, args, stack', inUse)
  BY <1>4, <1>6, <1>9, TableChange
<1> QED
  BY <1>1, <1>8, <1>10 DEF SceneInv

-----------------------------------------------------------------------------
\* The arguments of an action are edited.
LEMMA Shortened ==
  ASSUME NEW S, NEW s \in Seq(S), NEW i \in DOMAIN s
  PROVE  /\ RemoveAt(s, i) \in Seq(S) /\ Len(RemoveAt(s, i)) = Len(s) - 1
         /\ i \in Nat \ {0} /\ Len(s) \in Nat
         /\ \A k \in 1 .. Len(s) - 1 : RemoveAt(s, i)[k] = IF k < i THEN s[k] ELSE s[k + 1]
<1> DEFINE n == Len(s)
           a == SubSeq(s, 1, i - 1)
           b == SubSeq(s, i + 1, n)
<1>1. n \in Nat /\ DOMAIN s = 1 .. n /\ i \in 1 .. n /\ \A k \in 1 .. n : s[k] \in S
  BY LenProperties
<1>2. a \in Seq(S) /\ Len(a) = i - 1 /\ \A k \in 1 .. i - 1 : a[k] = s[k]
  BY ONLY <1>1, s \in Seq(S)
<1>3. b \in Seq(S) /\ Len(b) = n - i /\ \A k \in 1 .. n - i : b[k] = s[i + k]
  <2>1. /\ b \in Seq(S) /\ Len(b) = (IF i + 1 <= n THEN n - (i + 1) + 1 ELSE 0)
        /\ \A k \in 1 .. n - (i + 1) + 1 : b[k] = s[(i + 1) + k - 1]
    <3>1. i + 1 \in Int /\ n \in Int /\ \A k \in (i + 1) .. n : s[k] \in S
      BY <1>1
    <3> QED
      BY <3>1, SubSeqProperties
  <2> HIDE DEF b, n
  <2>2. ASSUME NEW k \in 1 .. n - i PROVE b[k] = s[i + k]
    <3>1. k \in 1 .. n - (i + 1) + 1 /\ (i + 1) + k - 1 = i + k
      BY <1>1
    <3> QED
      BY <2>1, <3>1
  <2> QED
    BY <1>1, <2>1, <2>2
<1> HIDE DEF a, b, n
<1>4. /\ a \o b \in Seq(S) /\ Len(a \o b) = n - 1
      /\ \A k \in 1 .. n - 1 : (a \o b)[k] = IF k <= i - 1 THEN a[k] ELSE b[k - (i - 1)]
  <2>1. /\ a \o b \in Seq(S) /\ Len(a \o b) = Len(a) + Len(b)
        /\ \A k \in 1 .. Len(a) + Len(b) : (a \o b)[k] = IF k <= Len(a) THEN a[k] ELSE b[k - Len(a)]
    BY <1>2, <1>3, ConcatProperties
  <2>2. Len(a) + Len(b) = n - 1
    BY <1>1, <1>2, <1>3
  <2> QED
    BY <1>2, <2>1, <2>2
<1>5. ASSUME NEW k \in 1 .. n - 1 PROVE (a \o b)[k] = IF k < i THEN s[k] ELSE s[k + 1]
  <2>1. CASE k < i
    BY <1>1, <1>2, <1>4, <2>1
  <2>2. CASE ~(k < i)
    <3>1. ~(k <= i - 1) /\ k - (i - 1) \in 1 .. n - i /\ i + (k - (i - 1)) = k + 1
      BY <1>1, <2>2
    <3> QED
      BY <1>3, <1>4, <2>2, <3>1
  <2> QED
    BY <2>1, <2>2
<1>6. RemoveAt(s, i) = a \o b
  BY DEF RemoveAt, a, b, n
<1>7. RemoveAt(s, i) \in Seq(S) /\ Len(RemoveAt(s, i)) = n - 1
  BY ONLY <1>4, <1>6
<1>8. \A k \in 1 .. n - 1 : RemoveAt(s, i)[k] = IF k < i THEN s[k] ELSE s[k + 1]
  BY ONLY <1>5, <1>6
<1>9. i \in Nat \ {0} /\ n \in Nat
  BY ONLY <1>1
<1> QED
  BY ONLY <1>7, <1>8, <1>9 DEF n

\* b is sc but for the arguments e of action a of scene o.
EnvIs(sc, b, o, a, e) ==
  /\ b \in Seq(SceneRecords) /\ DOMAIN b = DOMAIN sc
  /\ \A x \in DOMAIN sc \ {o} : b[x] = sc[x]
  /\ b[o].name = sc[o].name /\ b[o].sources = sc[o].sources
  /\ DOMAIN b[o].acts = DOMAIN sc[o].acts
  /\ \A c \in DOMAIN sc[o].acts \ {a} : b[o].acts[c] = sc[o].acts[c]
  /\ b[o].acts[a].type = sc[o].acts[a].type /\ b[o].acts[a].env = e

\* An assignment to the arguments of one action.
LEMMA EnvChanged ==
  ASSUME NEW sc \in Seq(SceneRecords), NEW o \in DOMAIN sc, NEW a \in DOMAIN sc[o].acts,
         NEW e \in Seq(Arguments)
  PROVE  EnvIs(sc, [sc EXCEPT ![o].acts[a].env = e], o, a, e)
<1> DEFINE act == [sc[o].acts[a] EXCEPT !.env = e]
           acts == [sc[o].acts EXCEPT ![a] = act]
           r == [sc[o] EXCEPT !.acts = acts]
           b == [sc EXCEPT ![o] = r]
<1>1. sc[o] \in SceneRecords
  OBVIOUS
<1>2. sc[o].acts \in Seq(Actions) /\ sc[o].acts[a] \in Actions
  BY <1>1 DEF SceneRecords
<1>3. act \in Actions /\ act.env = e /\ act.type = sc[o].acts[a].type
  BY <1>2 DEF Actions
<1>4. [sc EXCEPT ![o].acts[a].env = e] = b
  OBVIOUS
<1> HIDE DEF act
<1>5. acts \in Seq(Actions) /\ DOMAIN acts = DOMAIN sc[o].acts /\ acts[a] = act
      /\ \A c \in DOMAIN sc[o].acts \ {a} : acts[c] = sc[o].acts[c]
  BY <1>2, <1>3
<1> HIDE DEF acts
<1>6. r \in SceneRecords /\ r.name = sc[o].name /\ r.sources = sc[o].sources /\ r.acts = acts
  BY <1>1, <1>5 DEF SceneRecords
<1> HIDE DEF r
<1>7. b \in Seq(SceneRecords) /\ DOMAIN b = DOMAIN sc /\ b[o] = r
      /\ \A x \in DOMAIN sc \ {o} : b[x] = sc[x]
  BY <1>6
<1> HIDE DEF b
<1> QED
  BY <1>3, <1>4, <1>5, <1>6, <1>7 DEF EnvIs

\* The same frame, at another place of the list or of none.
SameWalk(f, g) ==
  /\ g.clash = f.clash /\ g.put = f.put /\ g.kind = f.kind
  /\ g.obj = f.obj /\ g.act = f.act /\ g.arg = f.arg /\ g.phase = f.phase
  /\ g.at = f.at /\ g.i = f.i /\ g.stay = f.stay /\ g.grew = f.grew
  /\ g.src = f.src /\ g.pos = f.pos /\ g.ran = f.ran

\* What makes an edit of the arguments e harmless to the frame f, g afterwards.
Harmless(sc, o, a, e, f, g, s) ==
  /\ g \in Frames /\ SameWalk(f, g)
  /\ ~Runs(f, o, a) => g.item = f.item /\ g.lost = f.lost
  /\ Runs(f, o, a) =>
       /\ g.item <= g.i + 1 /\ f.at # "ready"
       /\ \A q \in DOMAIN e : \/ \E p \in DOMAIN sc[o].acts[a].env : e[q] = sc[o].acts[a].env[p]
                              \/ \A j \in DOMAIN s : e[q].stack \in s[j].clash
       /\ f.phase = "args" /\ ~g.lost =>
            /\ ~f.lost
            /\ \A x : Gone(sc[o].acts[a].env, f.item, x) =>
                        Gone(e, g.item, x) \/ x.stack \in f.clash
            /\ \A x : Gone(sc[o].acts[a].env, f.item + 1, x) =>
                        Gone(e, g.item + 1, x) \/ x.stack \in f.clash

NoneTwice(e) == \A p, q \in DOMAIN e : SameArgument(e[p], e[q]) => p = q

Edited(sc, ar, s, u, b, o, a, e, t, v) ==
  /\ EnvIs(sc, b, o, a, e) /\ NoneTwice(e)
  /\ o \in DOMAIN sc /\ a \in DOMAIN sc[o].acts /\ sc[o].acts[a].type = "command"
  /\ t \in Seq(Frames) /\ DOMAIN t = DOMAIN s
  /\ \A k \in DOMAIN s : Harmless(sc, o, a, e, s[k], t[k], s)
  /\ ~v => ~u /\ \A k \in DOMAIN s : ~Runs(s[k], o, a)

\* The invariant survives an edit that is harmless to every frame.
LEMMA EditedKeeps ==
  ASSUME NEW sc, NEW tb, NEW ar, NEW s, NEW u, EngineInv(sc, tb, ar, s, u),
         NEW b, NEW o, NEW a, NEW e, NEW t, NEW v, Edited(sc, ar, s, u, b, o, a, e, t, v)
  PROVE  EngineInv(b, tb, ar, t, v)
<1>1. /\ Typed(sc, ar, s) /\ Listing(sc, tb, s) /\ Claimed(sc, s) /\ Owned(sc, ar, s, u) /\ Nested(s)
      /\ \A k \in DOMAIN s : Good(sc, tb, ar, s[k])
  BY DEF EngineInv
<1>2. /\ EnvIs(sc, b, o, a, e) /\ NoneTwice(e) /\ o \in DOMAIN sc /\ a \in DOMAIN sc[o].acts
      /\ sc[o].acts[a].type = "command" /\ t \in Seq(Frames) /\ DOMAIN t = DOMAIN s
      /\ \A k \in DOMAIN s : Harmless(sc, o, a, e, s[k], t[k], s)
      /\ (~v => ~u /\ \A k \in DOMAIN s : ~Runs(s[k], o, a))
  BY DEF Edited
<1>3. ASSUME NEW k \in DOMAIN s PROVE SameWalk(s[k], t[k])
  BY <1>2 DEF Harmless
<1>0. a # 0
  <2>1. sc[o] \in SceneRecords
    BY <1>1, <1>2 DEF Typed
  <2>2. sc[o].acts \in Seq(Actions)
    BY <2>1 DEF SceneRecords
  <2> QED
    BY <1>2, <2>2
<1>4. ASSUME NEW k \in DOMAIN s
      PROVE  /\ s[k].kind = "command" =>
                  /\ s[k].obj \in DOMAIN sc
                  /\ s[k].act \in DOMAIN sc[s[k].obj].acts \/ (s[k].act = 0 /\ s[k].lost)
             /\ s[k].kind = "command" => DOMAIN b[s[k].obj].acts = DOMAIN sc[s[k].obj].acts
             /\ s[k].kind = "command" /\ s[k].act # 0 =>
                  ActionOf(b, t[k]).type = ActionOf(sc, s[k]).type
             /\ RunsCommand(b, t[k]) <=> RunsCommand(sc, s[k])
             /\ s[k].kind = "command" /\ s[k].act # 0 /\ ~Runs(s[k], o, a) =>
                  ActionOf(b, t[k]) = ActionOf(sc, s[k])
             /\ Runs(s[k], o, a) => /\ ActionOf(b, t[k]).env = e /\ ActionOf(sc, s[k]) = sc[o].acts[a]
                                    /\ RunsCommand(sc, s[k])
  <2>1. Standing(sc, s[k]) /\ SameWalk(s[k], t[k])
    BY <1>1, <1>3 DEF Good
  <2>2. s[k].kind = "command" =>
          /\ s[k].obj \in DOMAIN sc
          /\ s[k].act \in DOMAIN sc[s[k].obj].acts \/ (s[k].act = 0 /\ s[k].lost)
    BY <2>1 DEF Standing
  <2>3. s[k].kind = "command" => DOMAIN b[s[k].obj].acts = DOMAIN sc[s[k].obj].acts
    BY <1>2, <2>2 DEF EnvIs
  <2>4. s[k].kind = "command" /\ s[k].act # 0 /\ ~Runs(s[k], o, a) =>
          ActionOf(b, t[k]) = ActionOf(sc, s[k])
    BY <1>2, <2>1, <2>2 DEF EnvIs, ActionOf, Runs, SameWalk
  <2>5. Runs(s[k], o, a) => /\ ActionOf(b, t[k]).env = e /\ ActionOf(sc, s[k]) = sc[o].acts[a]
                            /\ ActionOf(b, t[k]).type = "command" /\ RunsCommand(sc, s[k])
    BY <1>0, <1>2, <2>1 DEF EnvIs, ActionOf, Runs, SameWalk, RunsCommand
  <2>6. s[k].kind = "command" /\ s[k].act # 0 => ActionOf(b, t[k]).type = ActionOf(sc, s[k]).type
    BY <1>2, <2>4, <2>5
  <2>7. RunsCommand(b, t[k]) <=> RunsCommand(sc, s[k])
    BY <2>1, <2>6 DEF RunsCommand, SameWalk
  <2> QED
    BY <2>2, <2>3, <2>4, <2>5, <2>6, <2>7
<1>5. ASSUME NEW k \in DOMAIN s, NEW st \in Uses(b, t[k])
      PROVE  st \in Uses(sc, s[k]) \/ (Runs(s[k], o, a) /\ \A j \in DOMAIN s : st \in s[j].clash)
  <2>1. SameWalk(s[k], t[k])
    BY <1>3
  <2>2. CASE ~Runs(s[k], o, a)
    BY <1>4, <1>5, <2>1, <2>2 DEF Uses, SameWalk, RunsCommand
  <2>3. CASE Runs(s[k], o, a) /\ st \in StacksOf(ActionOf(b, t[k]))
    <3>1. PICK q \in DOMAIN e : st = e[q].stack
      BY <1>4, <2>3 DEF StacksOf
    <3>2. \/ \E p \in DOMAIN sc[o].acts[a].env : e[q] = sc[o].acts[a].env[p]
          \/ \A j \in DOMAIN s : e[q].stack \in s[j].clash
      BY <1>2, <2>3 DEF Harmless
    <3>3. ASSUME NEW p \in DOMAIN sc[o].acts[a].env, e[q] = sc[o].acts[a].env[p]
          PROVE  st \in StacksOf(ActionOf(sc, s[k]))
      BY <1>2, <1>4, <2>3, <3>1, <3>3 DEF StacksOf
    <3>4. st \in Stacks
      BY <1>5 DEF Uses
    <3> QED
      BY <1>4, <2>3, <3>1, <3>2, <3>3, <3>4 DEF Uses
  <2>4. CASE Runs(s[k], o, a) /\ st \notin StacksOf(ActionOf(b, t[k]))
    BY <1>4, <1>5, <2>1, <2>4 DEF Uses, SameWalk, RunsCommand
  <2> QED
    BY <2>2, <2>3, <2>4
<1>6. ASSUME NEW k \in DOMAIN s PROVE Good(b, tb, ar, t[k])
  <2>1. /\ SameWalk(s[k], t[k]) /\ Standing(sc, s[k]) /\ Progressing(sc, s[k]) /\ Held(sc, ar, s[k])
        /\ Iterating(sc, tb, s[k]) /\ Harmless(sc, o, a, e, s[k], t[k], s)
    BY <1>1, <1>2, <1>3 DEF Good
  <2>2. t[k] \in Frames
    BY <1>2
  <2>3. Standing(b, t[k])
    <3>1. DOMAIN b = DOMAIN sc
      BY <1>2 DEF EnvIs
    <3>2. t[k].item <= t[k].i + 1 /\ (t[k].at = "ready" => t[k].item >= 1)
      BY <2>1 DEF Harmless, Standing, SameWalk
    <3>3. s[k].act = 0 /\ s[k].lost => t[k].lost
      BY <1>0, <2>1 DEF Harmless, Runs
    <3> QED
      BY <1>4, <2>1, <3>1, <3>2, <3>3 DEF Standing, SameWalk
  <2>4. Progressing(b, t[k])
    <3>1. CASE ~Runs(s[k], o, a)
      <4>1. t[k].item = s[k].item /\ t[k].lost = s[k].lost
        BY <2>1, <3>1 DEF Harmless
      <4>2. RunsCommand(sc, s[k]) => ActionOf(b, t[k]) = ActionOf(sc, s[k])
        BY <1>4, <3>1 DEF RunsCommand
      <4> QED
        BY <1>4, <2>1, <4>1, <4>2 DEF Progressing, SameWalk
    <3>2. CASE Runs(s[k], o, a)
      BY <1>4, <2>1, <3>2 DEF Progressing, SameWalk, Harmless
    <3> QED
      BY <3>1, <3>2
  <2>5. Held(b, ar, t[k])
    BY <1>4, <2>1 DEF Held, SameWalk
  <2>6. Iterating(b, tb, t[k])
    <3>1. s[k].stay \subseteq DOMAIN sc
      BY <1>1 DEF Listing
    <3>2. \A x \in DOMAIN sc : b[x].name = sc[x].name /\ b[x].sources = sc[x].sources
      BY <1>2 DEF EnvIs
    <3>3. \A x \in s[k].stay : /\ Place(b, tb, x) = Place(sc, tb, x)
                                /\ MatchesOf(b, t[k], x) = MatchesOf(sc, s[k], x)
                                /\ \A m : Behinds(b, t[k], x, m) = Behinds(sc, s[k], x, m)
      BY <2>1, <3>1, <3>2 DEF Place, MatchesOf, Behinds, SameWalk
    <3>4. s[k].kind = "event" => t[k].item = s[k].item
      BY <2>1 DEF Harmless, Runs
    <3> QED
      BY <2>1, <3>3, <3>4 DEF Iterating, SameWalk
  <2> QED
    BY <2>2, <2>3, <2>4, <2>5, <2>6 DEF Good
<1>7. Typed(b, ar, t)
  <2>1. ASSUME NEW x \in DOMAIN b, NEW c \in DOMAIN b[x].acts PROVE NoneTwice(b[x].acts[c].env)
    <3>1. CASE x = o /\ c = a
      BY <1>2, <3>1 DEF EnvIs
    <3>2. CASE ~(x = o /\ c = a)
      <4>1. x \in DOMAIN sc /\ c \in DOMAIN sc[x].acts /\ b[x].acts[c] = sc[x].acts[c]
        BY <1>2, <2>1, <3>2 DEF EnvIs
      <4> QED
        BY <1>1, <4>1 DEF Typed, NoneTwice
    <3> QED
      BY <3>1, <3>2
  <2> QED
    BY <1>1, <1>2, <2>1 DEF Typed, EnvIs, NoneTwice
<1>8. Listing(b, tb, t)
  <2>1. \A x \in DOMAIN sc : b[x].name = sc[x].name
    BY <1>2 DEF EnvIs
  <2> QED
    BY <1>1, <1>2, <1>3, <2>1 DEF Listing, EnvIs, SameWalk
<1>9. Claimed(b, t)
  BY <1>1, <1>2, <1>3, <1>5 DEF Claimed, SameWalk
<1>10. Owned(b, ar, t, v)
  <2> SUFFICES ASSUME ~v PROVE Owned(b, ar, t, v)
    BY DEF Owned
  <2>1. ~u /\ \A k \in DOMAIN s : ~Runs(s[k], o, a)
    BY <1>2
  <2>2. ASSUME NEW k \in DOMAIN s
        PROVE  /\ RunsCommand(b, t[k]) => ActionOf(b, t[k]) = ActionOf(sc, s[k])
               /\ Uses(b, t[k]) = Uses(sc, s[k])
    <3>1. SameWalk(s[k], t[k]) /\ (RunsCommand(b, t[k]) <=> RunsCommand(sc, s[k]))
      BY <1>3, <1>4
    <3>2. RunsCommand(sc, s[k]) => ActionOf(b, t[k]) = ActionOf(sc, s[k])
      BY <1>4, <2>1 DEF RunsCommand
    <3> QED
      BY <3>1, <3>2 DEF Uses, SameWalk
  <2> QED
    BY <1>1, <1>2, <1>3, <1>4, <2>1, <2>2 DEF Owned, SameWalk
<1>11. Nested(t)
  <2>1. Len(t) = Len(s)
    BY <1>1, <1>2 DEF Typed
  <2> QED
    BY <1>1, <1>2, <1>3, <2>1 DEF Nested, Evaluates, SameWalk
<1> QED
  BY <1>2, <1>6, <1>7, <1>8, <1>9, <1>10, <1>11 DEF EngineInv

\* A walk that has passed an element has passed it in the shorter list as well.
LEMMA GoneShortened ==
  ASSUME NEW S, NEW env \in Seq(S), NEW p \in DOMAIN env, NEW i \in Nat, NEW x
  PROVE  /\ p > i /\ Gone(env, i, x) => Gone(RemoveAt(env, p), i, x)
         /\ p > i /\ Gone(env, i + 1, x) => Gone(RemoveAt(env, p), i + 1, x)
         /\ p <= i /\ (p < i \/ p = 1) /\ Gone(env, i, x) => Gone(RemoveAt(env, p), i - 1, x)
         /\ p <= i /\ Gone(env, i + 1, x) => Gone(RemoveAt(env, p), i, x)
<1> DEFINE e == RemoveAt(env, p)
           n == Len(env)
<1>1. /\ e \in Seq(S) /\ Len(e) = n - 1 /\ p \in Nat \ {0} /\ n \in Nat
      /\ \A k \in 1 .. n - 1 : e[k] = IF k < p THEN env[k] ELSE env[k + 1]
  BY Shortened
<1>2. DOMAIN env = 1 .. n
  OBVIOUS
<1> HIDE DEF e, n
<1>3. DOMAIN e = 1 .. n - 1
  BY <1>1
<1>4. ASSUME NEW j \in Nat, Gone(env, j, x), NEW q \in DOMAIN e, SameArgument(e[q], x)
      PROVE  q \in Nat \ {0} /\ ((q < p /\ q < j) \/ (q >= p /\ q + 1 < j))
  <2>1. q \in 1 .. n - 1
    BY <1>3, <1>4
  <2>2. CASE q < p
    <3>1. e[q] = env[q] /\ q \in DOMAIN env
      BY <1>1, <1>2, <2>1, <2>2
    <3> QED
      BY <1>4, <2>1, <2>2, <3>1 DEF Gone
  <2>3. CASE q >= p
    <3>1. e[q] = env[q + 1] /\ q + 1 \in DOMAIN env
      BY <1>1, <1>2, <2>1, <2>3
    <3> QED
      BY <1>4, <2>1, <2>3, <3>1 DEF Gone
  <2> QED
    BY <1>1, <2>1, <2>2, <2>3
<1>5. ASSUME p > i, Gone(env, i, x) PROVE Gone(e, i, x)
  BY <1>4, <1>5 DEF Gone
<1>6. ASSUME p > i, Gone(env, i + 1, x) PROVE Gone(e, i + 1, x)
  <2>1. ASSUME NEW q \in DOMAIN e, SameArgument(e[q], x) PROVE q < i + 1
    BY <1>1, <1>4, <1>6, <2>1
  <2> QED
    BY <2>1 DEF Gone
<1>7. ASSUME p <= i, p < i \/ p = 1, Gone(env, i, x) PROVE Gone(e, i - 1, x)
  <2>1. ASSUME NEW q \in DOMAIN e, SameArgument(e[q], x) PROVE q < i - 1
    BY <1>1, <1>4, <1>7, <2>1
  <2> QED
    BY <2>1 DEF Gone
<1>8. ASSUME p <= i, Gone(env, i + 1, x) PROVE Gone(e, i, x)
  <2>1. ASSUME NEW q \in DOMAIN e, SameArgument(e[q], x) PROVE q < i
    BY <1>1, <1>4, <1>8, <2>1
  <2> QED
    BY <2>1 DEF Gone
<1> QED
  BY <1>5, <1>6, <1>7, <1>8 DEF e

\* What becomes of a frame that walks a list from which element p is taken.
Cuts(f, g, p, freed) ==
  \/ p > StandsOn(f) /\ g.item = f.item /\ g.lost = f.lost
  \/ g.item = f.item /\ g.lost
  \/ /\ p <= StandsOn(f) /\ (p < StandsOn(f) \/ ~freed)
     /\ g.item \in Nat /\ g.item = f.item - 1 /\ g.lost = f.lost

\* A frame that walks the list.
LEMMA CutIs ==
  ASSUME NEW f \in Frames, NEW p \in Nat \ {0}, NEW freed \in BOOLEAN
  PROVE  LET g == Cut(f, p, freed)
         IN  g \in Frames /\ SameWalk(f, g) /\ Cuts(f, g, p, freed)
<1> DEFINE j == StandsOn(f)
           loses == (p = j /\ freed) \/ (p = 1 /\ j = 0)
<1>1. f.item \in Nat /\ j \in Int /\ j <= f.item
  BY DEF Frames, StandsOn
<1>2. CASE loses
  <2>1. Cut(f, p, freed) = [f EXCEPT !.lost = TRUE]
    BY <1>2 DEF Cut
  <2>2. [f EXCEPT !.lost = TRUE] \in Frames
    BY DEF Frames
  <2>3. SameWalk(f, [f EXCEPT !.lost = TRUE]) /\ [f EXCEPT !.lost = TRUE].item = f.item
        /\ [f EXCEPT !.lost = TRUE].lost
    BY DEF Frames, SameWalk
  <2> QED
    BY <2>1, <2>2, <2>3 DEF Cuts
<1>3. CASE ~loses /\ p <= j
  <2>1. Cut(f, p, freed) = [f EXCEPT !.item = f.item - 1]
    BY <1>3 DEF Cut
  <2>2. f.item - 1 \in Nat
    BY <1>1, <1>3
  <2>3. ASSUME NEW m \in Nat PROVE [f EXCEPT !.item = m] \in Frames
    BY DEF Frames
  <2>4. ASSUME NEW m \in Nat
        PROVE  /\ SameWalk(f, [f EXCEPT !.item = m]) /\ [f EXCEPT !.item = m].item = m
               /\ [f EXCEPT !.item = m].lost = f.lost
    BY DEF Frames, SameWalk
  <2>5. /\ [f EXCEPT !.item = f.item - 1] \in Frames /\ SameWalk(f, [f EXCEPT !.item = f.item - 1])
        /\ [f EXCEPT !.item = f.item - 1].item = f.item - 1
        /\ [f EXCEPT !.item = f.item - 1].lost = f.lost
    BY <2>2, <2>3, <2>4
  <2>6. p < j \/ ~freed
    BY <1>1, <1>3
  <2> HIDE DEF j
  <2> QED
    BY <1>3, <2>1, <2>2, <2>5, <2>6 DEF Cuts, j
<1>4. CASE ~loses /\ ~(p <= j)
  <2>1. Cut(f, p, freed) = f
    BY <1>4 DEF Cut
  <2>2. p > j
    BY <1>1, <1>4
  <2> QED
    BY <2>1, <2>2 DEF Cuts, SameWalk
<1> QED
  BY <1>2, <1>3, <1>4

\* The frames of those that walk the list.
LEMMA CutAllIs ==
  ASSUME NEW s \in Seq(Frames), NEW K, NEW p \in Nat \ {0}, NEW freed \in BOOLEAN
  PROVE  LET t == CutAll(s, K, p, freed)
         IN  /\ t \in Seq(Frames) /\ DOMAIN t = DOMAIN s
             /\ \A k \in DOMAIN s : /\ t[k] \in Frames /\ SameWalk(s[k], t[k])
                                    /\ k \notin K => t[k] = s[k]
                                    /\ k \in K => Cuts(s[k], t[k], p, freed)
<1> DEFINE t == CutAll(s, K, p, freed)
<1>1. DOMAIN s = 1 .. Len(s) /\ Len(s) \in Nat
  OBVIOUS
<1>2. DOMAIN t = DOMAIN s /\ t = [k \in 1 .. Len(s) |-> t[k]]
  BY <1>1 DEF CutAll
<1>3. ASSUME NEW k \in DOMAIN s
      PROVE  /\ t[k] \in Frames /\ SameWalk(s[k], t[k])
             /\ k \notin K => t[k] = s[k]
             /\ k \in K => Cuts(s[k], t[k], p, freed)
  <2>1. s[k] \in Frames
    OBVIOUS
  <2>2. t[k] = IF k \in K THEN Cut(s[k], p, freed) ELSE s[k]
    BY DEF CutAll
  <2> HIDE DEF t
  <2>3. CASE k \in K
    <3>1. t[k] = Cut(s[k], p, freed)
      BY <2>2, <2>3
    <3>2. /\ Cut(s[k], p, freed) \in Frames /\ SameWalk(s[k], Cut(s[k], p, freed))
          /\ Cuts(s[k], Cut(s[k], p, freed), p, freed)
      BY ONLY <2>1, p \in Nat \ {0}, freed \in BOOLEAN, CutIs
    <3> QED
      BY ONLY <2>3, <3>1, <3>2
  <2>4. CASE k \notin K
    <3>1. t[k] = s[k]
      BY <2>2, <2>4
    <3> QED
      BY <2>1, <2>4, <3>1 DEF SameWalk
  <2> QED
    BY <2>3, <2>4
<1> HIDE DEF t
<1>4. t \in Seq(Frames)
  <2>1. \A k \in 1 .. Len(s) : t[k] \in Frames
    BY <1>1, <1>3
  <2> QED
    BY <1>1, <1>2, <2>1
<1> QED
  BY <1>2, <1>3, <1>4 DEF t

\* Argument p of action a of scene o is taken out.
Removes(sc, o, a, p, freed) ==
  /\ o \in DOMAIN sc /\ a \in DOMAIN sc[o].acts /\ sc[o].acts[a].type = "command"
  /\ p \in DOMAIN sc[o].acts[a].env /\ freed \in BOOLEAN /\ (freed \/ p = 1)

\* What evaluates an expression waits.
Paused(s) == \A k \in DOMAIN s : Evaluates(s[k]) => s[k].at # "ready"
RunsOne(s, o, a) == \E k \in DOMAIN s : Runs(s[k], o, a)
WalkersIn(s, o, a) == {k \in DOMAIN s : Walks(s[k], o, a)}

TakenOut(sc, tb, ar, s, u, b, o, a, p, freed, v) ==
  /\ EngineInv(sc, tb, ar, s, u) /\ Paused(s) /\ Removes(sc, o, a, p, freed)
  /\ EnvIs(sc, b, o, a, RemoveAt(sc[o].acts[a].env, p))
  /\ ~v => ~u /\ ~RunsOne(s, o, a)

\* The invariant survives the removal of an argument from an action that may be running.
LEMMA RemovalKeeps ==
  ASSUME NEW sc, NEW tb, NEW ar, NEW s, NEW u, NEW b, NEW o, NEW a, NEW p, NEW freed, NEW v,
         TakenOut(sc, tb, ar, s, u, b, o, a, p, freed, v)
  PROVE  LET t == CutAll(s, WalkersIn(s, o, a), p, freed)
         IN  /\ EngineInv(b, tb, ar, t, v)
             /\ DOMAIN t = DOMAIN s /\ \A k \in DOMAIN s : SameWalk(s[k], t[k])
<1> DEFINE env == sc[o].acts[a].env
           e == RemoveAt(env, p)
           K == WalkersIn(s, o, a)
           t == CutAll(s, K, p, freed)
<1>0. /\ EngineInv(sc, tb, ar, s, u) /\ Paused(s) /\ Removes(sc, o, a, p, freed)
      /\ EnvIs(sc, b, o, a, e) /\ (~v => ~u /\ ~RunsOne(s, o, a))
  BY DEF TakenOut
<1>1. /\ sc \in Seq(SceneRecords) /\ s \in Seq(Frames) /\ o \in DOMAIN sc /\ a \in DOMAIN sc[o].acts
      /\ p \in DOMAIN env /\ freed \in BOOLEAN /\ sc[o].acts[a].type = "command" /\ NoneTwice(env)
      /\ freed \/ p = 1
  BY <1>0 DEF Removes, EngineInv, Typed, NoneTwice
<1>2. env \in Seq(Arguments)
  <2>1. sc[o] \in SceneRecords
    BY <1>1
  <2>2. sc[o].acts[a] \in Actions
    BY <1>1, <2>1 DEF SceneRecords
  <2> QED
    BY <2>2 DEF Actions
<1>3. /\ e \in Seq(Arguments) /\ Len(e) = Len(env) - 1 /\ p \in Nat \ {0} /\ Len(env) \in Nat
      /\ \A k \in 1 .. Len(env) - 1 : e[k] = IF k < p THEN env[k] ELSE env[k + 1]
  BY <1>1, <1>2, Shortened
<1>4. DOMAIN env = 1 .. Len(env) /\ DOMAIN e = 1 .. Len(env) - 1
  BY <1>2, <1>3
<1>6. /\ DOMAIN t = DOMAIN s /\ t \in Seq(Frames)
      /\ \A k \in DOMAIN s : /\ t[k] \in Frames /\ SameWalk(s[k], t[k])
                             /\ k \notin K => t[k] = s[k]
                             /\ k \in K => Cuts(s[k], t[k], p, freed)
  <2> HIDE DEF K, env, e
  <2> QED
    BY <1>1, <1>3, CutAllIs
<1> HIDE DEF t
<1>5. ASSUME NEW k \in DOMAIN s
      PROVE  /\ t[k] \in Frames /\ SameWalk(s[k], t[k])
             /\ ~Walks(s[k], o, a) => t[k] = s[k]
             /\ Walks(s[k], o, a) =>
                  \/ p > s[k].item /\ t[k].item = s[k].item /\ t[k].lost = s[k].lost
                  \/ t[k].item = s[k].item /\ t[k].lost
                  \/ /\ p <= s[k].item /\ (p < s[k].item \/ ~freed)
                     /\ t[k].item = s[k].item - 1 /\ t[k].lost = s[k].lost
  BY <1>6 DEF Cuts, StandsOn, Walks, WalkersIn
<1> HIDE DEF e, env, K
<1>7. NoneTwice(e)
  <2>1. ASSUME NEW i \in DOMAIN e
        PROVE  \E m \in DOMAIN env : /\ e[i] = env[m] /\ i \in Nat
                                     /\ (i < p /\ m = i) \/ (i >= p /\ m = i + 1)
    <3>1. i \in 1 .. Len(env) - 1
      BY <1>4, <2>1
    <3>2. CASE i < p
      BY <1>3, <1>4, <3>1, <3>2
    <3>3. CASE ~(i < p)
      <4>1. i + 1 \in DOMAIN env /\ e[i] = env[i + 1]
        BY <1>3, <1>4, <3>1, <3>3
      <4> QED
        BY <1>3, <3>1, <3>3, <4>1
    <3> QED
      BY <3>2, <3>3
  <2>2. ASSUME NEW i \in DOMAIN e, NEW j \in DOMAIN e, SameArgument(e[i], e[j]) PROVE i = j
    <3>1. PICK m \in DOMAIN env : /\ e[i] = env[m] /\ i \in Nat
                                  /\ (i < p /\ m = i) \/ (i >= p /\ m = i + 1)
      BY <2>1
    <3>2. PICK n \in DOMAIN env : /\ e[j] = env[n] /\ j \in Nat
                                  /\ (j < p /\ n = j) \/ (j >= p /\ n = j + 1)
      BY <2>1
    <3>3. m = n
      BY <1>1, <2>2, <3>1, <3>2 DEF NoneTwice
    <3> QED
      BY <1>3, <3>1, <3>2, <3>3
  <2> QED
    BY <2>2 DEF NoneTwice
<1>8. ASSUME NEW k \in DOMAIN s PROVE Harmless(sc, o, a, e, s[k], t[k], s)
  <2>1. t[k] \in Frames /\ SameWalk(s[k], t[k])
    BY <1>5
  <2>2. CASE ~Runs(s[k], o, a)
    BY <1>5, <2>1, <2>2 DEF Harmless, Walks
  <2>3. CASE Runs(s[k], o, a)
    <3>1. s[k] \in Frames /\ Standing(sc, s[k]) /\ s[k].kind = "command" /\ s[k].at # "ready"
      BY <1>0, <1>1, <2>3 DEF EngineInv, Good, Paused, Evaluates, Standing, Runs
    <3>2. s[k].item \in Nat /\ s[k].i \in Nat /\ s[k].item <= s[k].i + 1 /\ t[k].i = s[k].i
      BY <2>1, <3>1 DEF Standing, Frames, SameWalk
    <3>3. t[k].item <= t[k].i + 1
      BY <1>5, <3>2
    <3>4. \A q \in DOMAIN e : \E m \in DOMAIN env : e[q] = env[m]
      <4>1. ASSUME NEW q \in DOMAIN e PROVE \E m \in DOMAIN env : e[q] = env[m]
        <5>1. CASE q < p
          BY <1>3, <1>4, <4>1, <5>1
        <5>2. CASE ~(q < p)
          <6>1. q + 1 \in DOMAIN env /\ e[q] = env[q + 1]
            BY <1>3, <1>4, <4>1, <5>2
          <6> QED
            BY <6>1
        <5> QED
          BY <5>1, <5>2
      <4> QED
        BY <4>1
    <3>5. ASSUME s[k].phase = "args", ~t[k].lost, NEW x
          PROVE  /\ ~s[k].lost
                 /\ Gone(env, s[k].item, x) => Gone(e, t[k].item, x)
                 /\ Gone(env, s[k].item + 1, x) => Gone(e, t[k].item + 1, x)
      <4>1. Walks(s[k], o, a)
        BY <2>3, <3>5 DEF Walks
      <4>2. /\ p > s[k].item /\ Gone(env, s[k].item, x) => Gone(e, s[k].item, x)
            /\ p > s[k].item /\ Gone(env, s[k].item + 1, x) => Gone(e, s[k].item + 1, x)
            /\ p <= s[k].item /\ (p < s[k].item \/ p = 1) /\ Gone(env, s[k].item, x) =>
                 Gone(e, s[k].item - 1, x)
            /\ p <= s[k].item /\ Gone(env, s[k].item + 1, x) => Gone(e, s[k].item, x)
        BY <1>1, <1>2, <3>2, GoneShortened DEF e
      <4>3. CASE p > s[k].item /\ t[k].item = s[k].item /\ t[k].lost = s[k].lost
        BY <3>5, <4>2, <4>3
      <4>4. CASE /\ p <= s[k].item /\ (p < s[k].item \/ ~freed)
                 /\ t[k].item = s[k].item - 1 /\ t[k].lost = s[k].lost
        <5>1. t[k].item + 1 = s[k].item /\ (p < s[k].item \/ p = 1)
          BY <1>1, <3>2, <4>4
        <5> QED
          BY <3>5, <4>2, <4>4, <5>1
      <4> QED
        BY <1>5, <3>5, <4>1, <4>3, <4>4
    <3> QED
      BY <2>1, <2>3, <3>1, <3>3, <3>4, <3>5 DEF Harmless, env
  <2> QED
    BY <2>2, <2>3
<1>9. Edited(sc, ar, s, u, b, o, a, e, t, v)
  BY <1>0, <1>1, <1>6, <1>7, <1>8 DEF Edited, RunsOne, e, env
<1>10. EngineInv(b, tb, ar, t, v)
  BY <1>0, <1>9, EditedKeeps
<1> QED
  BY <1>5, <1>6, <1>10 DEF t, K

\* The argument x comes last, and no other has its name.
LEMMA AppendKeeps ==
  ASSUME NEW sc, NEW tb, NEW ar, NEW s, NEW u, EngineInv(sc, tb, ar, s, u), Paused(s),
         NEW o \in DOMAIN sc, NEW a \in DOMAIN sc[o].acts, sc[o].acts[a].type = "command",
         NEW x \in Arguments, \A q \in DOMAIN sc[o].acts[a].env : ~SameArgument(sc[o].acts[a].env[q], x),
         RunsOne(s, o, a) => \A k \in DOMAIN s : x.stack \in s[k].clash,
         NEW b, EnvIs(sc, b, o, a, Append(sc[o].acts[a].env, x)), NEW v, ~v => ~u /\ ~RunsOne(s, o, a)
  PROVE  EngineInv(b, tb, ar, s, v)
<1> DEFINE env == sc[o].acts[a].env
           e == Append(env, x)
<1>1. sc \in Seq(SceneRecords) /\ s \in Seq(Frames) /\ NoneTwice(env)
  BY DEF EngineInv, Typed, NoneTwice
<1>2. env \in Seq(Arguments)
  <2>1. sc[o] \in SceneRecords
    BY <1>1
  <2>2. sc[o].acts[a] \in Actions
    BY <1>1, <2>1 DEF SceneRecords
  <2> QED
    BY <2>2 DEF Actions
<1>3. /\ Len(env) \in Nat /\ DOMAIN env = 1 .. Len(env) /\ DOMAIN e = 1 .. Len(env) + 1
      /\ e[Len(env) + 1] = x /\ \A k \in 1 .. Len(env) : e[k] = env[k]
  BY <1>2, WithLast
<1> HIDE DEF e, env
<1>4. \A q \in DOMAIN e : e[q] = x \/ (q \in DOMAIN env /\ e[q] = env[q])
  BY <1>3
<1>5. \A q \in DOMAIN env : ~SameArgument(env[q], x) /\ ~SameArgument(x, env[q])
  BY DEF env, SameArgument
<1>6. NoneTwice(e)
  <2>1. ASSUME NEW i \in DOMAIN e, NEW j \in DOMAIN e, SameArgument(e[i], e[j]) PROVE i = j
    <3>1. CASE i \in DOMAIN env /\ j \in DOMAIN env
      BY <1>1, <1>3, <2>1, <3>1 DEF NoneTwice
    <3>2. CASE i \notin DOMAIN env \/ j \notin DOMAIN env
      BY <1>3, <1>5, <2>1, <3>2
    <3> QED
      BY <3>1, <3>2
  <2> QED
    BY <2>1 DEF NoneTwice
<1>7. ASSUME NEW k \in DOMAIN s PROVE Harmless(sc, o, a, e, s[k], s[k], s)
  <2>1. s[k] \in Frames /\ SameWalk(s[k], s[k]) /\ Standing(sc, s[k])
    BY <1>1 DEF SameWalk, EngineInv, Good
  <2>2. CASE ~Runs(s[k], o, a)
    BY <2>1, <2>2 DEF Harmless
  <2>3. CASE Runs(s[k], o, a)
    <3>1. s[k].kind = "command" /\ s[k].at # "ready" /\ s[k].item <= s[k].i + 1
      BY <2>1, <2>3 DEF Standing, Paused, Evaluates, Runs
    <3>2. \A j \in DOMAIN s : x.stack \in s[j].clash
      BY <2>3 DEF RunsOne
    <3>3. ASSUME NEW i, NEW y, Gone(env, i, y) PROVE Gone(e, i, y) \/ y.stack \in s[k].clash
      BY <1>4, <3>2, <3>3 DEF Gone, SameArgument
    <3>4. s[k].phase = "args" /\ ~s[k].lost => ~s[k].lost
      OBVIOUS
    <3>5. \A q \in DOMAIN e : \/ \E p \in DOMAIN env : e[q] = env[p]
                              \/ \A j \in DOMAIN s : e[q].stack \in s[j].clash
      BY <1>4, <3>2
    <3> QED
      BY <2>1, <2>3, <3>1, <3>3, <3>4, <3>5 DEF Harmless, env
  <2> QED
    BY <2>2, <2>3
<1>8. Edited(sc, ar, s, u, b, o, a, e, s, v)
  BY <1>1, <1>6, <1>7 DEF Edited, RunsOne, e, env
<1> QED
  BY <1>8, EditedKeeps

\* The command line edits while what runs is paused.
LEMMA ClientFinds ==
  ASSUME SceneInv, Client
  PROVE  Paused(stack)
<1>1. stack \in Seq(Frames) /\ Nested(stack)
  BY DEF SceneInv, EngineInv, Typed
<1>2. ASSUME NEW k \in DOMAIN stack, Evaluates(stack[k]) PROVE stack[k].at # "ready"
  <2>1. k \in 1 .. Len(stack) /\ Len(stack) \in Nat
    BY <1>1
  <2>2. k < Len(stack) => stack[k].at # "ready"
    BY <1>1, <1>2 DEF Nested
  <2>3. stack # << >> /\ stack[Len(stack)].at # "ready"
    BY <1>1, <2>1, ClientPauses
  <2> QED
    BY <2>1, <2>2, <2>3
<1> QED
  BY <1>2 DEF Paused

\* The action to edit.
LEMMA CommandIs ==
  ASSUME SceneInv, NEW n \in Names, Exists(n), NEW a \in Commands(n)
  PROVE  LET o == Scene(n)
             env == scene[o].acts[a].env
         IN  /\ scene \in Seq(SceneRecords) /\ o \in DOMAIN scene /\ a \in DOMAIN scene[o].acts
             /\ scene[o].acts[a].type = "command" /\ env \in Seq(Arguments) /\ NoneTwice(env)
<1> DEFINE o == Scene(n)
           env == scene[o].acts[a].env
<1>1. scene \in Seq(SceneRecords) /\ o \in DOMAIN scene /\ Typed(scene, args, stack)
  BY SceneIs DEF SceneInv, EngineInv, Typed
<1>2. a \in DOMAIN scene[o].acts /\ scene[o].acts[a].type = "command"
  BY DEF Commands
<1>3. scene[o] \in SceneRecords
  BY <1>1
<1>4. scene[o].acts[a] \in Actions
  BY <1>2, <1>3 DEF SceneRecords
<1>5. env \in Seq(Arguments)
  BY <1>4 DEF Actions
<1>6. NoneTwice(env)
  BY <1>1, <1>2 DEF Typed, NoneTwice
<1> QED
  BY <1>1, <1>2, <1>5, <1>6

\* The command line removes an argument.
LEMMA DelArgumentKeeps ==
  ASSUME SceneInv, NEW n \in Names, Exists(n), NEW a \in Commands(n),
         NEW p \in DOMAIN scene[Scene(n)].acts[a].env, DelArgument(n, a, p)
  PROVE  SceneInv'
<1> DEFINE o == Scene(n)
           env == scene[o].acts[a].env
<1>1. /\ scene \in Seq(SceneRecords) /\ o \in DOMAIN scene /\ a \in DOMAIN scene[o].acts
      /\ scene[o].acts[a].type = "command" /\ env \in Seq(Arguments)
  BY CommandIs
<1>2. EngineInv(scene, table, args, stack, inUse) /\ events \in Nat
  BY DEF SceneInv
<1>3. /\ scene' = [scene EXCEPT ![o].acts[a].env = RemoveAt(env, p)]
      /\ stack' = CutAll(stack, WalkersIn(stack, o, a), p, TRUE)
      /\ inUse' = (inUse \/ InUse(o, a)) /\ UNCHANGED <<table, args, events>> /\ Client
  BY DEF DelArgument, Edit, Walkers, WalkersIn
<1>4. EnvIs(scene, scene', o, a, RemoveAt(env, p))
  <2>1. RemoveAt(env, p) \in Seq(Arguments)
    BY <1>1, Shortened
  <2> QED
    BY <1>1, <1>3, <2>1, EnvChanged
<1>5. Removes(scene, o, a, p, TRUE) /\ (~inUse' => ~inUse /\ ~RunsOne(stack, o, a))
  BY <1>1, <1>3 DEF Removes, RunsOne, InUse
<1>6. TakenOut(scene, table, args, stack, inUse, scene', o, a, p, TRUE, inUse')
  BY <1>2, <1>3, <1>4, <1>5, ClientFinds DEF TakenOut
<1>7. EngineInv(scene', table, args, stack', inUse')
  BY <1>3, <1>6, RemovalKeeps
<1> QED
  BY <1>2, <1>3, <1>7 DEF SceneInv

\* The command line adds an argument, in the place of the one of the same name.
LEMMA AddArgumentKeeps ==
  ASSUME SceneInv, NEW n \in Names, Exists(n), NEW a \in Commands(n), NEW x \in NewArguments,
         AddArgument(n, a, x)
  PROVE  SceneInv'
<1> DEFINE o == Scene(n)
           env == scene[o].acts[a].env
           old == {p \in DOMAIN env : SameArgument(env[p], x)}
           kept == IF old = {} THEN env ELSE RemoveAt(env, Min(old))
           K == WalkersIn(stack, o, a)
           walks == IF old = {} THEN stack ELSE CutAll(stack, K, Min(old), Min(old) > 1)
           b == [scene EXCEPT ![o].acts[a].env = kept]
           v == inUse \/ InUse(o, a)
<1>1. /\ scene \in Seq(SceneRecords) /\ o \in DOMAIN scene /\ a \in DOMAIN scene[o].acts
      /\ scene[o].acts[a].type = "command" /\ env \in Seq(Arguments) /\ NoneTwice(env)
  BY CommandIs
<1>2. EngineInv(scene, table, args, stack, inUse) /\ events \in Nat /\ stack \in Seq(Frames)
  BY DEF SceneInv, EngineInv, Typed
<1>3. /\ scene' = [scene EXCEPT ![o].acts[a].env = Append(kept, x)]
      /\ stack' = IF InUse(o, a) THEN Clashing(walks, {x.stack}) ELSE walks
      /\ inUse' = v /\ UNCHANGED <<table, args, events>> /\ Client
  BY DEF AddArgument, Edit, Walkers, WalkersIn
<1>4. x \in Arguments /\ {x.stack} \in SUBSET Stacks
  BY DEF Arguments, Stacks
<1>5. Paused(stack)
  BY <1>3, ClientFinds
<1>6. ~v => ~inUse /\ ~RunsOne(stack, o, a)
  BY DEF RunsOne, InUse
<1> HIDE DEF v, o
<1>7. /\ kept \in Seq(Arguments) /\ EngineInv(b, table, args, walks, v)
      /\ EnvIs(scene, b, o, a, kept) /\ \A q \in DOMAIN kept : ~SameArgument(kept[q], x)
      /\ DOMAIN walks = DOMAIN stack /\ \A k \in DOMAIN stack : SameWalk(stack[k], walks[k])
  <2>1. CASE old = {}
    <3>1. kept = env /\ walks = stack
      BY <2>1
    <3>2. EnvIs(scene, b, o, a, kept)
      BY <1>1, <3>1, EnvChanged
    <3> HIDE DEF b, old, kept, walks
    <3>3. Edited(scene, args, stack, inUse, b, o, a, env, stack, v)
      <4>1. ASSUME NEW k \in DOMAIN stack PROVE Harmless(scene, o, a, env, stack[k], stack[k], stack)
        <5>1. stack[k] \in Frames /\ SameWalk(stack[k], stack[k])
          BY <1>2 DEF SameWalk
        <5>2. Runs(stack[k], o, a) => stack[k].at # "ready" /\ stack[k].item <= stack[k].i + 1
          BY <1>2, <1>5 DEF Paused, Evaluates, Runs, EngineInv, Good, Standing
        <5> QED
          BY <5>1, <5>2 DEF Harmless
      <4> QED
        BY <1>1, <1>2, <1>6, <3>1, <3>2, <4>1 DEF Edited, RunsOne
    <3>4. EngineInv(b, table, args, stack, v)
      BY <1>2, <3>3, EditedKeeps
    <3>5. \A q \in DOMAIN env : ~SameArgument(env[q], x)
      BY <2>1 DEF old
    <3>6. \A k \in DOMAIN stack : SameWalk(stack[k], stack[k])
      BY DEF SameWalk
    <3> QED
      BY <1>1, <3>1, <3>2, <3>4, <3>5, <3>6
  <2>2. CASE old # {}
    <3> DEFINE p == Min(old)
               freed == (p > 1)
    <3>1. p \in old
      <4>1. old \in SUBSET Nat
        BY <1>1
      <4> HIDE DEF old
      <4> QED
        BY <2>2, <4>1, LeastNat
    <3>2. p \in DOMAIN env /\ SameArgument(env[p], x)
      BY <3>1
    <3>3. kept = RemoveAt(env, p) /\ walks = CutAll(stack, K, p, freed)
      BY <2>2
    <3> HIDE DEF b, old, kept, walks, p, env
    <3>4. /\ RemoveAt(env, p) \in Seq(Arguments) /\ p \in Nat \ {0} /\ Len(env) \in Nat
          /\ Len(RemoveAt(env, p)) = Len(env) - 1
          /\ \A k \in 1 .. Len(env) - 1 : RemoveAt(env, p)[k] = IF k < p THEN env[k] ELSE env[k + 1]
      BY <1>1, <3>2, Shortened
    <3>5. EnvIs(scene, b, o, a, RemoveAt(env, p))
      BY <1>1, <3>3, <3>4, EnvChanged DEF b
    <3>6. Removes(scene, o, a, p, freed)
      BY <1>1, <3>2, <3>4 DEF Removes, env
    <3>7. /\ EngineInv(b, table, args, CutAll(stack, K, p, freed), v)
          /\ DOMAIN CutAll(stack, K, p, freed) = DOMAIN stack
          /\ \A k \in DOMAIN stack : SameWalk(stack[k], CutAll(stack, K, p, freed)[k])
      <4> HIDE DEF freed
      <4>1. TakenOut(scene, table, args, stack, inUse, b, o, a, p, freed, v)
        BY <1>2, <1>5, <1>6, <3>5, <3>6 DEF TakenOut, env
      <4> QED
        BY <4>1, RemovalKeeps
    <3>8. ASSUME NEW q \in DOMAIN kept PROVE ~SameArgument(kept[q], x)
      <4>1. DOMAIN env = 1 .. Len(env) /\ q \in 1 .. Len(env) - 1
        BY <1>1, <3>3, <3>4, <3>8
      <4>2. PICK m \in DOMAIN env : m # p /\ kept[q] = env[m]
        <5>1. CASE q < p
          BY <3>3, <3>4, <4>1, <5>1
        <5>2. CASE ~(q < p)
          <6>1. q + 1 \in DOMAIN env /\ q + 1 # p /\ kept[q] = env[q + 1]
            BY <3>3, <3>4, <4>1, <5>2
          <6> QED
            BY <6>1
        <5> QED
          BY <5>1, <5>2
      <4>3. ~SameArgument(env[m], env[p])
        BY <1>1, <3>2, <4>2 DEF NoneTwice
      <4> QED
        BY <3>2, <4>2, <4>3 DEF SameArgument
    <3> QED
      BY <3>3, <3>4, <3>5, <3>7, <3>8
  <2> QED
    BY <2>1, <2>2
<1>8. EnvIs(scene, scene', o, a, Append(kept, x))
  <2>1. Append(kept, x) \in Seq(Arguments)
    <3> HIDE DEF kept
    <3>1. kept \in Seq(Arguments) /\ x \in Arguments
      BY <1>4, <1>7
    <3> QED
      BY ONLY <3>1
  <2> QED
    BY <1>1, <1>3, <2>1, EnvChanged
<1> HIDE DEF b, kept, walks, old, env
<1>9. EnvIs(b, scene', o, a, Append(b[o].acts[a].env, x)) /\ b[o].acts[a].env = kept
      /\ o \in DOMAIN b /\ a \in DOMAIN b[o].acts /\ b[o].acts[a].type = "command"
  BY <1>1, <1>7, <1>8 DEF EnvIs
<1>10. Paused(walks) /\ (RunsOne(walks, o, a) <=> RunsOne(stack, o, a)) /\ RunsOne(stack, o, a) = InUse(o, a)
  BY <1>5, <1>7 DEF Paused, Evaluates, RunsOne, InUse, Runs, SameWalk
<1>11. CASE InUse(o, a)
  <2>1. /\ EngineInv(b, table, args, Clashing(walks, {x.stack}), v)
        /\ DOMAIN Clashing(walks, {x.stack}) = DOMAIN walks
        /\ \A k \in DOMAIN walks : /\ {x.stack} \subseteq Clashing(walks, {x.stack})[k].clash
                                   /\ Clashing(walks, {x.stack})[k].at = walks[k].at
                                   /\ Clashing(walks, {x.stack})[k].phase = walks[k].phase
    BY <1>4, <1>7, Claims
  <2>2. stack' = Clashing(walks, {x.stack}) /\ v
    BY <1>3, <1>11 DEF v
  <2>3. Paused(stack') /\ \A k \in DOMAIN stack' : x.stack \in stack'[k].clash
    BY <1>10, <2>1, <2>2 DEF Paused, Evaluates
  <2>4. EngineInv(scene', table, args, stack', v)
    BY <1>4, <1>7, <1>9, <2>1, <2>2, <2>3, AppendKeeps
  <2> QED
    BY <1>2, <1>3, <2>4 DEF SceneInv
<1>12. CASE ~InUse(o, a)
  <2>1. stack' = walks /\ ~RunsOne(walks, o, a)
    BY <1>3, <1>10, <1>12
  <2>2. EngineInv(scene', table, args, stack', v)
    BY <1>4, <1>7, <1>9, <1>10, <2>1, AppendKeeps
  <2> QED
    BY <1>2, <1>3, <2>2 DEF SceneInv
<1> QED
  BY <1>11, <1>12

\* The command line edits an action.
LEMMA EditArgumentKeeps == ASSUME SceneInv, EditArgument PROVE SceneInv'
  BY DelArgumentKeeps, AddArgumentKeeps DEF EditArgument

-----------------------------------------------------------------------------
\* Sources, conditions and actions are edited.
\* What an edit leaves of a frame.
SameFunction(f, g) ==
  /\ g.clash = f.clash /\ g.put = f.put /\ g.kind = f.kind /\ g.obj = f.obj /\ g.arg = f.arg
  /\ g.phase = f.phase /\ g.at = f.at /\ g.i = f.i /\ g.grew = f.grew
  /\ g.src = f.src /\ g.pos = f.pos /\ g.ran = f.ran /\ g.stay \subseteq f.stay

\* A command runs the same action as before, or one that was freed.
SameAction(sc, b, f, g) ==
  f.kind = "command" =>
    /\ g.item = f.item
    /\ \/ g.act = 0 /\ g.lost
       \/ /\ f.act # 0 /\ g.act # 0 /\ g.act \in DOMAIN b[f.obj].acts /\ g.lost = f.lost
          /\ b[f.obj].acts[g.act] = sc[f.obj].acts[f.act]

Untouched(sc, tb, b, f, g) ==
  /\ g \in Frames /\ SameFunction(f, g) /\ SameAction(sc, b, f, g)
  /\ g.item <= f.i + 1 /\ (f.at = "ready" => g.item >= 1)
  /\ Iterating(b, tb, g)

Revised(sc, tb, s, u, b, t, v) ==
  /\ b \in Seq(SceneRecords) /\ DOMAIN b = DOMAIN sc
  /\ \A o \in DOMAIN sc : b[o].name = sc[o].name
  /\ \A o \in DOMAIN b : \A a \in DOMAIN b[o].acts : NoneTwice(b[o].acts[a].env)
  /\ t \in Seq(Frames) /\ DOMAIN t = DOMAIN s
  /\ \A k \in DOMAIN s : Untouched(sc, tb, b, s[k], t[k])
  /\ ~v => ~u /\ \A k \in DOMAIN s : t[k].act = 0 => s[k].act = 0

\* The invariant survives an edit of the lists of a scene.
LEMMA RevisedKeeps ==
  ASSUME NEW sc, NEW tb, NEW ar, NEW s, NEW u, EngineInv(sc, tb, ar, s, u),
         NEW b, NEW t, NEW v, Revised(sc, tb, s, u, b, t, v)
  PROVE  EngineInv(b, tb, ar, t, v)
<1>1. /\ Typed(sc, ar, s) /\ Listing(sc, tb, s) /\ Claimed(sc, s) /\ Owned(sc, ar, s, u) /\ Nested(s)
      /\ \A k \in DOMAIN s : Good(sc, tb, ar, s[k])
  BY DEF EngineInv
<1>2. /\ b \in Seq(SceneRecords) /\ DOMAIN b = DOMAIN sc
      /\ \A o \in DOMAIN sc : b[o].name = sc[o].name
      /\ \A o \in DOMAIN b : \A a \in DOMAIN b[o].acts : NoneTwice(b[o].acts[a].env)
      /\ t \in Seq(Frames) /\ DOMAIN t = DOMAIN s
      /\ \A k \in DOMAIN s : Untouched(sc, tb, b, s[k], t[k])
      /\ (~v => ~u /\ \A k \in DOMAIN s : t[k].act = 0 => s[k].act = 0)
  BY DEF Revised
<1>3. ASSUME NEW k \in DOMAIN s
      PROVE  /\ SameFunction(s[k], t[k]) /\ SameAction(sc, b, s[k], t[k])
             /\ Good(sc, tb, ar, s[k]) /\ Untouched(sc, tb, b, s[k], t[k])
  BY <1>1, <1>2 DEF Untouched
<1>4. ASSUME NEW k \in DOMAIN s
      PROVE  /\ RunsCommand(b, t[k]) => /\ RunsCommand(sc, s[k])
                                        /\ ActionOf(b, t[k]) = ActionOf(sc, s[k])
                                        /\ t[k].item = s[k].item /\ t[k].lost = s[k].lost
             /\ RunsCommand(sc, s[k]) /\ t[k].act # 0 => RunsCommand(b, t[k])
             /\ Uses(b, t[k]) \subseteq Uses(sc, s[k])
  <2>1. SameFunction(s[k], t[k]) /\ SameAction(sc, b, s[k], t[k])
    BY <1>3
  <2>2. RunsCommand(b, t[k]) => /\ RunsCommand(sc, s[k])
                                /\ ActionOf(b, t[k]) = ActionOf(sc, s[k])
                                /\ t[k].item = s[k].item /\ t[k].lost = s[k].lost
    BY <2>1 DEF SameFunction, SameAction, RunsCommand, ActionOf
  <2>3. RunsCommand(sc, s[k]) /\ t[k].act # 0 => RunsCommand(b, t[k])
    BY <2>1 DEF SameFunction, SameAction, RunsCommand, ActionOf
  <2>4. Uses(b, t[k]) \subseteq Uses(sc, s[k])
    BY <2>1, <2>2 DEF Uses, SameFunction
  <2> QED
    BY <2>2, <2>3, <2>4
<1>5. ASSUME NEW k \in DOMAIN s PROVE Good(b, tb, ar, t[k])
  <2>1. /\ Standing(sc, s[k]) /\ Progressing(sc, s[k]) /\ Held(sc, ar, s[k])
        /\ SameFunction(s[k], t[k]) /\ SameAction(sc, b, s[k], t[k])
    BY <1>3 DEF Good
  <2>2. /\ t[k] \in Frames /\ Iterating(b, tb, t[k])
        /\ t[k].item <= s[k].i + 1 /\ (s[k].at = "ready" => t[k].item >= 1)
    BY <1>3 DEF Untouched
  <2>3. Standing(b, t[k])
    <3>1. t[k].kind = "command" =>
            /\ t[k].act \in DOMAIN b[t[k].obj].acts \/ (t[k].act = 0 /\ t[k].lost)
            /\ t[k].phase = "run" /\ t[k].act # 0 => ActionOf(b, t[k]).type = "command"
      BY <2>1 DEF Standing, SameFunction, SameAction, ActionOf
    <3> QED
      BY <1>2, <2>1, <2>2, <3>1 DEF Standing, SameFunction
  <2>4. Progressing(b, t[k])
    BY <1>4, <2>1 DEF Progressing, SameFunction
  <2>5. Held(b, ar, t[k])
    BY <1>4, <2>1 DEF Held, SameFunction
  <2> QED
    BY <2>2, <2>3, <2>4, <2>5 DEF Good
<1>6. Typed(b, ar, t)
  BY <1>1, <1>2 DEF Typed, NoneTwice
<1>7. Listing(b, tb, t)
  BY <1>1, <1>2, <1>3 DEF Listing, SameFunction
<1>8. Claimed(b, t)
  BY <1>1, <1>2, <1>3, <1>4 DEF Claimed, SameFunction
<1>9. Owned(b, ar, t, v)
  <2> SUFFICES ASSUME ~v PROVE Owned(b, ar, t, v)
    BY DEF Owned
  <2>1. ~u /\ \A k \in DOMAIN s : t[k].act = 0 => s[k].act = 0
    BY <1>2
  <2>2. ASSUME NEW k \in DOMAIN s
        PROVE  /\ RunsCommand(b, t[k]) <=> RunsCommand(sc, s[k])
               /\ Uses(b, t[k]) = Uses(sc, s[k])
    <3>1. RunsCommand(b, t[k]) <=> RunsCommand(sc, s[k])
      BY <1>4, <2>1 DEF RunsCommand
    <3> QED
      BY <1>3, <1>4, <3>1 DEF Uses, SameFunction
  <2> QED
    BY <1>1, <1>2, <1>3, <1>4, <2>1, <2>2 DEF Owned, SameFunction
<1>10. Nested(t)
  <2>1. Len(t) = Len(s)
    BY <1>1, <1>2 DEF Typed
  <2> QED
    BY <1>1, <1>2, <1>3, <2>1 DEF Nested, Evaluates, SameFunction
<1> QED
  BY <1>2, <1>5, <1>6, <1>7, <1>8, <1>9, <1>10 DEF EngineInv

\* b is sc but for the lists of scene o: l are its sources, c its actions.
ListsAre(sc, b, o, l, c) ==
  /\ b \in Seq(SceneRecords) /\ DOMAIN b = DOMAIN sc
  /\ \A x \in DOMAIN sc \ {o} : b[x] = sc[x]
  /\ b[o].name = sc[o].name /\ b[o].sources = l /\ b[o].acts = c

\* An assignment to one of the lists of a scene.
LEMMA ListsChanged ==
  ASSUME NEW sc \in Seq(SceneRecords), NEW o \in DOMAIN sc,
         NEW l \in Seq(SourceNames), NEW d \in Seq(Conditions), NEW c \in Seq(Actions)
  PROVE  /\ ListsAre(sc, [sc EXCEPT ![o].sources = l], o, l, sc[o].acts)
         /\ ListsAre(sc, [sc EXCEPT ![o].conds = d], o, sc[o].sources, sc[o].acts)
         /\ ListsAre(sc, [sc EXCEPT ![o].acts = c], o, sc[o].sources, c)
<1>1. sc[o] \in SceneRecords
  OBVIOUS
<1>2. ASSUME NEW r \in SceneRecords, r.name = sc[o].name
      PROVE  ListsAre(sc, [sc EXCEPT ![o] = r], o, r.sources, r.acts)
  BY <1>2 DEF ListsAre
<1>3. [sc[o] EXCEPT !.sources = l] \in SceneRecords
      /\ [sc[o] EXCEPT !.sources = l].name = sc[o].name
      /\ [sc[o] EXCEPT !.sources = l].sources = l
      /\ [sc[o] EXCEPT !.sources = l].acts = sc[o].acts
  BY <1>1 DEF SceneRecords
<1>4. [sc[o] EXCEPT !.conds = d] \in SceneRecords
      /\ [sc[o] EXCEPT !.conds = d].name = sc[o].name
      /\ [sc[o] EXCEPT !.conds = d].sources = sc[o].sources
      /\ [sc[o] EXCEPT !.conds = d].acts = sc[o].acts
  BY <1>1 DEF SceneRecords
<1>5. [sc[o] EXCEPT !.acts = c] \in SceneRecords
      /\ [sc[o] EXCEPT !.acts = c].name = sc[o].name
      /\ [sc[o] EXCEPT !.acts = c].sources = sc[o].sources
      /\ [sc[o] EXCEPT !.acts = c].acts = c
  BY <1>1 DEF SceneRecords
<1>6. /\ [sc EXCEPT ![o].sources = l] = [sc EXCEPT ![o] = [sc[o] EXCEPT !.sources = l]]
      /\ [sc EXCEPT ![o].conds = d] = [sc EXCEPT ![o] = [sc[o] EXCEPT !.conds = d]]
      /\ [sc EXCEPT ![o].acts = c] = [sc EXCEPT ![o] = [sc[o] EXCEPT !.acts = c]]
  OBVIOUS
<1>7. ListsAre(sc, [sc EXCEPT ![o] = [sc[o] EXCEPT !.sources = l]], o, l, sc[o].acts)
  BY <1>2, <1>3
<1>8. ListsAre(sc, [sc EXCEPT ![o] = [sc[o] EXCEPT !.conds = d]], o, sc[o].sources, sc[o].acts)
  BY <1>2, <1>4
<1>9. ListsAre(sc, [sc EXCEPT ![o] = [sc[o] EXCEPT !.acts = c]], o, sc[o].sources, c)
  BY <1>2, <1>5
<1> QED
  BY <1>6, <1>7, <1>8, <1>9

\* The scenes, their actions, and what the frames have of them.
LEMMA ListsHave ==
  ASSUME NEW sc, NEW tb, NEW ar, NEW s, NEW u, EngineInv(sc, tb, ar, s, u)
  PROVE  /\ sc \in Seq(SceneRecords) /\ s \in Seq(Frames)
         /\ \A o \in DOMAIN sc : \A a \in DOMAIN sc[o].acts : a # 0 /\ NoneTwice(sc[o].acts[a].env)
         /\ \A o \in DOMAIN sc : /\ sc[o].sources \in Seq(SourceNames)
                                 /\ sc[o].conds \in Seq(Conditions) /\ sc[o].acts \in Seq(Actions)
         /\ \A k \in DOMAIN s : /\ s[k] \in Frames /\ Standing(sc, s[k]) /\ Iterating(sc, tb, s[k])
                                /\ s[k].stay \subseteq DOMAIN sc
<1>1. /\ sc \in Seq(SceneRecords) /\ s \in Seq(Frames)
      /\ \A o \in DOMAIN sc : \A a \in DOMAIN sc[o].acts : NoneTwice(sc[o].acts[a].env)
  BY DEF EngineInv, Typed, NoneTwice
<1>2. \A k \in DOMAIN s : s[k] \in Frames /\ Standing(sc, s[k]) /\ Iterating(sc, tb, s[k])
  BY DEF EngineInv, Good
<1>3. \A k \in DOMAIN s : s[k].stay \subseteq DOMAIN sc
  BY DEF EngineInv, Listing
<1>4. ASSUME NEW o \in DOMAIN sc
      PROVE  /\ sc[o].sources \in Seq(SourceNames)
             /\ sc[o].conds \in Seq(Conditions) /\ sc[o].acts \in Seq(Actions)
  <2>1. sc[o] \in SceneRecords
    BY <1>1
  <2> QED
    BY <2>1 DEF SceneRecords
<1>5. \A o \in DOMAIN sc : \A a \in DOMAIN sc[o].acts : a # 0
  <2>1. ASSUME NEW o \in DOMAIN sc, NEW a \in DOMAIN sc[o].acts PROVE a # 0
    <3>1. sc[o].acts \in Seq(Actions)
      BY <1>4
    <3> QED
      BY <3>1
  <2> QED
    BY <2>1
<1> QED
  BY <1>1, <1>2, <1>3, <1>4, <1>5

\* The actions are left alone, and the frames but for their places in a list.
Rewalks(sc, tb, s, b, o, l, t) ==
  /\ o \in DOMAIN sc /\ ListsAre(sc, b, o, l, sc[o].acts)
  /\ t \in Seq(Frames) /\ DOMAIN t = DOMAIN s
  /\ \A k \in DOMAIN s :
       /\ SameFunction(s[k], t[k]) /\ t[k].act = s[k].act
       /\ s[k].kind = "command" => t[k].item = s[k].item /\ t[k].lost = s[k].lost
       /\ t[k].item <= s[k].i + 1 /\ (s[k].at = "ready" => t[k].item >= 1)
       /\ Iterating(b, tb, t[k])

\* The invariant survives an edit of sources or conditions.
LEMMA RewalksKeeps ==
  ASSUME NEW sc, NEW tb, NEW ar, NEW s, NEW u, EngineInv(sc, tb, ar, s, u),
         NEW b, NEW o, NEW l, NEW t, Rewalks(sc, tb, s, b, o, l, t)
  PROVE  EngineInv(b, tb, ar, t, u)
<1>1. /\ o \in DOMAIN sc /\ ListsAre(sc, b, o, l, sc[o].acts)
      /\ t \in Seq(Frames) /\ DOMAIN t = DOMAIN s
      /\ \A k \in DOMAIN s :
           /\ SameFunction(s[k], t[k]) /\ t[k].act = s[k].act
           /\ s[k].kind = "command" => t[k].item = s[k].item /\ t[k].lost = s[k].lost
           /\ t[k].item <= s[k].i + 1 /\ (s[k].at = "ready" => t[k].item >= 1)
           /\ Iterating(b, tb, t[k])
  BY DEF Rewalks
<1>2. /\ b \in Seq(SceneRecords) /\ DOMAIN b = DOMAIN sc
      /\ \A x \in DOMAIN sc : b[x].name = sc[x].name /\ b[x].acts = sc[x].acts
  BY <1>1 DEF ListsAre
<1>3. /\ \A x \in DOMAIN sc : \A a \in DOMAIN sc[x].acts : a # 0 /\ NoneTwice(sc[x].acts[a].env)
      /\ \A k \in DOMAIN s : Standing(sc, s[k])
  BY ListsHave
<1>4. ASSUME NEW k \in DOMAIN s PROVE Untouched(sc, tb, b, s[k], t[k])
  <2>1. t[k] \in Frames
    BY <1>1
  <2>2. SameAction(sc, b, s[k], t[k])
    BY <1>1, <1>2, <1>3 DEF SameAction, Standing
  <2> QED
    BY <1>1, <2>1, <2>2 DEF Untouched
<1>5. Revised(sc, tb, s, u, b, t, u)
  BY <1>1, <1>2, <1>3, <1>4 DEF Revised
<1> QED
  BY <1>5, RevisedKeeps

\* An iteration goes on as before when no sources change.
LEMMA SameIteration ==
  ASSUME NEW sc, NEW tb, NEW b, NEW o \in DOMAIN sc, NEW c, ListsAre(sc, b, o, sc[o].sources, c),
         NEW f, NEW g, SameFunction(f, g), f.stay \subseteq DOMAIN sc,
         f.kind = "event" => g.item = f.item, Iterating(sc, tb, f)
  PROVE  Iterating(b, tb, g)
<1>1. \A x \in DOMAIN sc : b[x].name = sc[x].name /\ b[x].sources = sc[x].sources
  BY DEF ListsAre
<1>2. \A x \in g.stay : /\ Place(b, tb, x) = Place(sc, tb, x)
                        /\ MatchesOf(b, g, x) = MatchesOf(sc, f, x)
                        /\ \A m : Behinds(b, g, x, m) = Behinds(sc, f, x, m)
  BY <1>1 DEF Place, MatchesOf, Behinds, SameFunction
<1> QED
  BY <1>2 DEF Iterating, SameFunction

\* The sources of a scene change from the position p on, which its handlers are not past.
LEMMA SourceIteration ==
  ASSUME NEW sc, NEW tb, NEW b, NEW o \in DOMAIN sc, NEW l, ListsAre(sc, b, o, l, sc[o].acts),
         NEW f, NEW g, SameFunction(f, g), f.stay \subseteq DOMAIN sc, Iterating(sc, tb, f),
         f.kind = "event" /\ f.obj # o => g.item = f.item, NEW p,
         f.kind = "event" /\ o \in g.stay => /\ ~(Place(sc, tb, o) < f.pos)
                                             /\ f.obj = o => g.item = f.item /\ f.item <= p,
         f.item <= p => Behinds(b, g, o, f.item) = Behinds(sc, f, o, f.item)
  PROVE  Iterating(b, tb, g)
<1> SUFFICES ASSUME f.kind = "event", ~f.grew, NEW x \in g.stay \cap DOMAIN g.ran
             PROVE  /\ Place(b, tb, x) < f.pos => f.ran[x] = MatchesOf(b, g, x)
                    /\ Place(b, tb, x) = f.pos =>
                         g.item = f.i + 1 /\ f.ran[x] = Cardinality(Behinds(b, g, x, g.item))
                    /\ Place(b, tb, x) > f.pos => f.ran[x] = 0
                    /\ Place(b, tb, x) = f.pos <=> x = f.obj
  BY DEF Iterating, SameFunction
<1>1. x \in f.stay \cap DOMAIN f.ran /\ x \in DOMAIN sc
  BY DEF SameFunction
<1>2. Place(b, tb, x) = Place(sc, tb, x)
  BY <1>1 DEF ListsAre, Place
<1>3. /\ Place(sc, tb, x) < f.pos => f.ran[x] = MatchesOf(sc, f, x)
      /\ Place(sc, tb, x) = f.pos =>
           f.item = f.i + 1 /\ f.ran[x] = Cardinality(Behinds(sc, f, x, f.item))
      /\ Place(sc, tb, x) > f.pos => f.ran[x] = 0
      /\ Place(sc, tb, x) = f.pos <=> x = f.obj
  BY <1>1 DEF Iterating
<1>4. CASE x # o
  <2>1. b[x] = sc[x] /\ g.src = f.src
    BY <1>1, <1>4 DEF ListsAre, SameFunction
  <2>2. MatchesOf(b, g, x) = MatchesOf(sc, f, x) /\ Behinds(b, g, x, f.item) = Behinds(sc, f, x, f.item)
    BY <2>1 DEF MatchesOf, Behinds
  <2>3. x = f.obj => g.item = f.item
    BY <1>4
  <2> QED
    BY <1>2, <1>3, <2>2, <2>3
<1>5. CASE x = o
  <2>1. ~(Place(sc, tb, x) < f.pos) /\ (f.obj = x => g.item = f.item /\ f.item <= p)
    BY <1>5
  <2>2. f.obj = x => Behinds(b, g, x, f.item) = Behinds(sc, f, x, f.item)
    BY <1>5, <2>1
  <2> QED
    BY <1>2, <1>3, <2>1, <2>2
<1> QED
  BY <1>4, <1>5

\* Where a walk stands after an element was taken out.
LEMMA CutStands ==
  ASSUME NEW sc, NEW f \in Frames, Standing(sc, f), NEW g, NEW p \in Nat \ {0}, NEW freed,
         Cuts(f, g, p, freed), Evaluates(f) => f.at # "ready"
  PROVE  g.item <= f.i + 1 /\ (f.at = "ready" => g.item >= 1)
<1>1. f.item \in Nat /\ f.i \in Nat /\ f.item <= f.i + 1 /\ (f.at = "ready" => f.item >= 1)
  BY DEF Standing, Frames
<1>2. f.at = "ready" => StandsOn(f) = f.item - 1
  BY DEF Evaluates, StandsOn
<1> QED
  BY <1>1, <1>2 DEF Cuts

\* The frames that have the place behind them no longer have the scene among those that stay.
LEMMA PassedIs ==
  ASSUME NEW s \in Seq(Frames), NEW n, NEW p
  PROVE  LET t == Passed(s, n, p)
         IN  /\ t \in Seq(Frames) /\ DOMAIN t = DOMAIN s
             /\ \A k \in DOMAIN s :
                  /\ t[k] \in Frames /\ SameFrameBut(s[k], t[k]) /\ t[k].grew = s[k].grew
                  /\ t[k].stay \subseteq s[k].stay
                  /\ Behind(s[k], n, p) => Scene(n) \notin t[k].stay
<1> DEFINE t == Passed(s, n, p)
<1>1. DOMAIN s = 1 .. Len(s) /\ Len(s) \in Nat
  OBVIOUS
<1>2. DOMAIN t = DOMAIN s /\ t = [k \in 1 .. Len(s) |-> t[k]]
  BY <1>1 DEF Passed
<1>3. ASSUME NEW k \in DOMAIN s
      PROVE  /\ t[k] \in Frames /\ SameFrameBut(s[k], t[k]) /\ t[k].grew = s[k].grew
             /\ t[k].stay \subseteq s[k].stay
             /\ Behind(s[k], n, p) => Scene(n) \notin t[k].stay
  <2>1. s[k] \in Frames
    OBVIOUS
  <2>2. t[k] = IF Behind(s[k], n, p) THEN Staying(s[k], {Scene(n)}) ELSE s[k]
    BY DEF Passed, Staying
  <2> HIDE DEF t
  <2>3. CASE Behind(s[k], n, p)
    <3>1. t[k] = Staying(s[k], {Scene(n)})
      BY <2>2, <2>3
    <3> QED
      BY <2>1, <3>1, StayingIs
  <2>4. CASE ~Behind(s[k], n, p)
    BY <2>1, <2>2, <2>4 DEF SameFrameBut
  <2> QED
    BY <2>3, <2>4
<1> HIDE DEF t
<1>4. t \in Seq(Frames)
  <2>1. \A k \in 1 .. Len(s) : t[k] \in Frames
    BY <1>1, <1>3
  <2> QED
    BY <1>1, <1>2, <2>1
<1> QED
  BY <1>2, <1>3, <1>4 DEF t

\* The scene to edit.
LEMMA SceneFound ==
  ASSUME SceneInv, NEW n \in Names, Exists(n)
  PROVE  LET o == Scene(n)
         IN  /\ o \in DOMAIN scene /\ Place(scene, table, o) = Index(Crc[n], Size(table))
             /\ EngineInv(scene, table, args, stack, inUse) /\ events \in Nat
             /\ scene \in Seq(SceneRecords) /\ stack \in Seq(Frames)
             /\ scene[o].sources \in Seq(SourceNames)
             /\ scene[o].conds \in Seq(Conditions) /\ scene[o].acts \in Seq(Actions)
<1>1. EngineInv(scene, table, args, stack, inUse) /\ events \in Nat /\ Listing(scene, table, stack)
  BY DEF SceneInv, EngineInv
<1>2. Scene(n) \in DOMAIN scene
  BY SceneIs
<1>3. PICK x \in Items(table) : x.key = Crc[n] /\ x.data = Scene(n)
  BY SceneIs
<1>4. Crc[n] = Crc[scene[Scene(n)].name]
  BY <1>1, <1>3 DEF Listing
<1> QED
  BY <1>1, <1>2, <1>4, ListsHave DEF Place

\* A source is added: the handlers that are at the scene come to it.
LEMMA AddSourceKeeps ==
  ASSUME SceneInv, NEW n \in Names, Exists(n), NEW source \in NewSources, AddSource(n, source)
  PROVE  SceneInv'
<1> DEFINE o == Scene(n)
           l == scene[o].sources
           m == Append(l, source)
           p == Len(l) + 1
           t == Passed(stack, n, p)
<1>1. /\ o \in DOMAIN scene /\ Place(scene, table, o) = Index(Crc[n], Size(table))
      /\ EngineInv(scene, table, args, stack, inUse) /\ events \in Nat
      /\ scene \in Seq(SceneRecords) /\ stack \in Seq(Frames) /\ l \in Seq(SourceNames)
      /\ scene[o].conds \in Seq(Conditions) /\ scene[o].acts \in Seq(Actions)
  BY SceneFound
<1>2. /\ scene' = [scene EXCEPT ![o].sources = m] /\ stack' = t
      /\ UNCHANGED <<table, args, events, inUse>>
  BY DEF AddSource, Edit
<1>3. /\ m \in Seq(SourceNames) /\ Len(l) \in Nat /\ DOMAIN l = 1 .. Len(l)
      /\ DOMAIN m = 1 .. Len(l) + 1 /\ \A k \in 1 .. Len(l) : m[k] = l[k]
  <2>1. source \in SourceNames
    BY DEF SourceNames
  <2> QED
    BY <1>1, <2>1, WithLast
<1>4. ListsAre(scene, scene', o, m, scene[o].acts)
  <2> HIDE DEF m, o
  <2> QED
    BY <1>1, <1>2, <1>3, ListsChanged
<1>5. /\ t \in Seq(Frames) /\ DOMAIN t = DOMAIN stack
      /\ \A k \in DOMAIN stack :
           /\ t[k] \in Frames /\ SameFrameBut(stack[k], t[k]) /\ t[k].grew = stack[k].grew
           /\ t[k].stay \subseteq stack[k].stay
           /\ Behind(stack[k], n, p) => o \notin t[k].stay
  BY <1>1, PassedIs
<1> HIDE DEF t, m, o, l, p
<1>6. ASSUME NEW k \in DOMAIN stack
      PROVE  /\ SameFunction(stack[k], t[k]) /\ t[k].act = stack[k].act
             /\ t[k].item = stack[k].item /\ t[k].lost = stack[k].lost
             /\ stack[k] \in Frames /\ Standing(scene, stack[k]) /\ stack[k].item \in Nat
             /\ Iterating(scene, table, stack[k]) /\ stack[k].stay \subseteq DOMAIN scene
  <2>1. /\ stack[k] \in Frames /\ Standing(scene, stack[k])
        /\ Iterating(scene, table, stack[k]) /\ stack[k].stay \subseteq DOMAIN scene
    BY <1>1, ListsHave
  <2>2. stack[k].item \in Nat
    BY <2>1 DEF Frames
  <2> QED
    BY <1>5, <2>1, <2>2 DEF SameFunction, SameFrameBut
<1>7. ASSUME NEW k \in DOMAIN stack PROVE Iterating(scene', table, t[k])
  <2> DEFINE f == stack[k]
             g == t[k]
  <2>1. /\ SameFunction(f, g) /\ g.item = f.item /\ f.item \in Nat
        /\ Iterating(scene, table, f) /\ f.stay \subseteq DOMAIN scene
    BY <1>6
  <2>2. f.kind = "event" /\ o \in g.stay =>
          /\ ~(Place(scene, table, o) < f.pos)
          /\ f.obj = o => g.item = f.item /\ f.item <= p
    <3>1. p \in Nat
      BY <1>3 DEF p
    <3>2. f.kind = "event" /\ o \in g.stay =>
            ~(Index(Crc[n], Size(table)) < f.pos) /\ ~(f.obj = o /\ p < f.item)
      BY <1>5 DEF Behind, o
    <3> HIDE DEF f, g
    <3> QED
      BY <1>1, <2>1, <3>1, <3>2
  <2>3. f.item <= p => Behinds(scene', g, o, f.item) = Behinds(scene, f, o, f.item)
    <3>1. g.src = f.src /\ scene'[o].sources = m
      BY <1>4, <2>1 DEF SameFunction, ListsAre
    <3>2. scene[o].sources = l
      BY DEF l
    <3> HIDE DEF f, g
    <3>3. ASSUME f.item <= p PROVE Behinds(scene', g, o, f.item) = Behinds(scene, f, o, f.item)
      BY <1>3, <2>1, <3>1, <3>2, <3>3 DEF Behinds, p
    <3> QED
      BY <3>3
  <2> HIDE DEF f, g
  <2>4. Iterating(scene', table, g)
    BY <1>1, <1>4, <2>1, <2>2, <2>3, SourceIteration
  <2> QED
    BY <2>4 DEF g
<1>8. Rewalks(scene, table, stack, scene', o, m, t)
  BY <1>1, <1>4, <1>5, <1>6, <1>7 DEF Rewalks, Standing
<1>9. EngineInv(scene', table, args, t, inUse)
  BY <1>1, <1>8, RewalksKeeps
<1> QED
  BY <1>1, <1>2, <1>9 DEF SceneInv

\* A source is removed: the handlers that have it behind them step back, or are lost.
LEMMA DelSourceKeeps ==
  ASSUME SceneInv, NEW n \in Names, Exists(n), NEW p \in DOMAIN scene[Scene(n)].sources,
         DelSource(n, p)
  PROVE  SceneInv'
<1> DEFINE o == Scene(n)
           l == scene[o].sources
           m == RemoveAt(l, p)
           h == Passed(stack, n, p)
           K == Handlers(o)
           freed == p > 1
           t == CutAll(h, K, p, freed)
<1>1. /\ o \in DOMAIN scene /\ Place(scene, table, o) = Index(Crc[n], Size(table))
      /\ EngineInv(scene, table, args, stack, inUse) /\ events \in Nat
      /\ scene \in Seq(SceneRecords) /\ stack \in Seq(Frames) /\ l \in Seq(SourceNames)
      /\ scene[o].conds \in Seq(Conditions) /\ scene[o].acts \in Seq(Actions)
  BY SceneFound
<1>2. /\ scene' = [scene EXCEPT ![o].sources = m] /\ stack' = t /\ Paused(stack)
      /\ UNCHANGED <<table, args, events, inUse>>
  BY ClientFinds DEF DelSource, Edit
<1>3. /\ m \in Seq(SourceNames) /\ Len(l) \in Nat /\ p \in Nat \ {0} /\ Len(m) = Len(l) - 1
      /\ \A k \in 1 .. Len(l) - 1 : m[k] = IF k < p THEN l[k] ELSE l[k + 1]
  <2>1. l \in Seq(SourceNames) /\ p \in DOMAIN l
    BY <1>1
  <2> HIDE DEF l
  <2> QED
    BY ONLY <2>1, Shortened DEF m
<1>4. DOMAIN l = 1 .. Len(l) /\ DOMAIN m = 1 .. Len(l) - 1 /\ p \in 1 .. Len(l)
  BY <1>1, <1>3
<1>5. ListsAre(scene, scene', o, m, scene[o].acts)
  <2> HIDE DEF m, o
  <2> QED
    BY <1>1, <1>2, <1>3, ListsChanged
<1>6. /\ h \in Seq(Frames) /\ DOMAIN h = DOMAIN stack
      /\ \A k \in DOMAIN stack :
           /\ h[k] \in Frames /\ SameFrameBut(stack[k], h[k]) /\ h[k].grew = stack[k].grew
           /\ h[k].stay \subseteq stack[k].stay
           /\ Behind(stack[k], n, p) => o \notin h[k].stay
  BY <1>1, PassedIs
<1>7. freed \in BOOLEAN
  OBVIOUS
<1> HIDE DEF h, m, o, l, K, freed
<1>8. /\ t \in Seq(Frames) /\ DOMAIN t = DOMAIN h
      /\ \A k \in DOMAIN h : /\ t[k] \in Frames /\ SameWalk(h[k], t[k])
                             /\ k \notin K => t[k] = h[k]
                             /\ k \in K => Cuts(h[k], t[k], p, freed)
  BY <1>3, <1>6, <1>7, CutAllIs
<1> HIDE DEF t
<1>9. ASSUME NEW k \in DOMAIN stack
      PROVE  /\ SameFunction(stack[k], t[k]) /\ t[k].act = stack[k].act
             /\ k \notin K => t[k].item = stack[k].item /\ t[k].lost = stack[k].lost
             /\ k \in K => Cuts(stack[k], t[k], p, freed)
             /\ t[k].stay \subseteq h[k].stay
             /\ stack[k] \in Frames /\ Standing(scene, stack[k]) /\ stack[k].item \in Nat
             /\ Iterating(scene, table, stack[k]) /\ stack[k].stay \subseteq DOMAIN scene
  <2>1. /\ stack[k] \in Frames /\ Standing(scene, stack[k])
        /\ Iterating(scene, table, stack[k]) /\ stack[k].stay \subseteq DOMAIN scene
    BY <1>1, ListsHave
  <2>2. stack[k].item \in Nat
    BY <2>1 DEF Frames
  <2>3. /\ SameFrameBut(stack[k], h[k]) /\ h[k].grew = stack[k].grew
        /\ h[k].stay \subseteq stack[k].stay /\ SameWalk(h[k], t[k])
    BY <1>6, <1>8
  <2>4. SameFunction(stack[k], t[k]) /\ t[k].act = stack[k].act /\ t[k].stay = h[k].stay
    BY <2>3 DEF SameFunction, SameFrameBut, SameWalk
  <2>5. k \notin K => t[k].item = stack[k].item /\ t[k].lost = stack[k].lost
    BY <1>6, <1>8, <2>3 DEF SameFrameBut
  <2>6. k \in K => Cuts(stack[k], t[k], p, freed)
    <3>1. k \in K => Cuts(h[k], t[k], p, freed)
      BY <1>6, <1>8
    <3> QED
      BY <2>3, <3>1 DEF Cuts, StandsOn, SameFrameBut
  <2> QED
    BY <2>1, <2>2, <2>4, <2>5, <2>6
<1>10. ASSUME NEW k \in DOMAIN stack
       PROVE  t[k].item <= stack[k].i + 1 /\ (stack[k].at = "ready" => t[k].item >= 1)
  <2>1. Evaluates(stack[k]) => stack[k].at # "ready"
    BY <1>2 DEF Paused
  <2>2. CASE k \in K
    <3>1. stack[k] \in Frames /\ Standing(scene, stack[k]) /\ Cuts(stack[k], t[k], p, freed)
      BY <1>9, <2>2
    <3> QED
      BY ONLY <1>3, <2>1, <3>1, CutStands
  <2>3. CASE k \notin K
    BY <1>9, <2>3 DEF Standing
  <2> QED
    BY <2>2, <2>3
<1>11. ASSUME NEW k \in DOMAIN stack PROVE Iterating(scene', table, t[k])
  <2> DEFINE f == stack[k]
             g == t[k]
  <2>1. /\ SameFunction(f, g) /\ f.item \in Nat /\ f \in Frames /\ Standing(scene, f)
        /\ Iterating(scene, table, f) /\ f.stay \subseteq DOMAIN scene
        /\ k \notin K => g.item = f.item
        /\ k \in K => Cuts(f, g, p, freed)
        /\ g.stay \subseteq h[k].stay
    BY <1>9
  <2>2. f.kind = "event" => (k \in K <=> f.obj = o)
    BY DEF K, Handlers
  <2>3. f.kind = "event" /\ o \in g.stay =>
          ~(Index(Crc[n], Size(table)) < f.pos) /\ ~(f.obj = o /\ p < f.item)
    BY <1>6, <2>1 DEF Behind, o
  <2>4. f.kind = "event" => StandsOn(f) = f.item - 1
    BY <2>1 DEF Standing, StandsOn
  <2> HIDE DEF f, g
  <2>5. f.kind = "event" /\ o \in g.stay /\ f.obj = o => g.item = f.item /\ f.item <= p
    <3>1. ASSUME f.kind = "event", o \in g.stay, f.obj = o PROVE f.item <= p
      BY <1>3, <2>1, <2>3, <3>1
    <3>2. ASSUME f.kind = "event", o \in g.stay, f.obj = o PROVE g.item = f.item
      <4>1. f.item <= p /\ StandsOn(f) = f.item - 1 /\ Cuts(f, g, p, freed)
        BY <2>1, <2>2, <2>4, <3>1, <3>2
      <4>2. ~(p <= StandsOn(f))
        BY <1>3, <2>1, <4>1
      <4> QED
        BY <4>1, <4>2 DEF Cuts
    <3> QED
      BY <3>1, <3>2
  <2>6. f.item <= p => Behinds(scene', g, o, f.item) = Behinds(scene, f, o, f.item)
    <3>1. g.src = f.src /\ scene'[o].sources = m
      BY <1>5, <2>1 DEF SameFunction, ListsAre
    <3>2. scene[o].sources = l
      BY DEF l
    <3>3. ASSUME f.item <= p PROVE Behinds(scene', g, o, f.item) = Behinds(scene, f, o, f.item)
      <4>1. \A q \in 1 .. Len(l) - 1 : q < f.item => m[q] = l[q]
        BY <1>3, <2>1, <3>3
      <4>2. \A q \in 1 .. Len(l) : q < f.item => q \in 1 .. Len(l) - 1
        BY <1>3, <1>4, <2>1, <3>3
      <4>3. 1 .. Len(l) - 1 \subseteq 1 .. Len(l)
        BY <1>3
      <4> QED
        BY <1>4, <3>1, <3>2, <4>1, <4>2, <4>3 DEF Behinds
    <3> QED
      BY <3>3
  <2>7. f.kind = "event" /\ f.obj # o => g.item = f.item
    BY <2>1, <2>2
  <2>8. f.kind = "event" /\ o \in g.stay => /\ ~(Place(scene, table, o) < f.pos)
                                            /\ f.obj = o => g.item = f.item /\ f.item <= p
    BY <1>1, <2>3, <2>5
  <2>9. Iterating(scene', table, g)
    BY <1>1, <1>5, <2>1, <2>6, <2>7, <2>8, SourceIteration
  <2> QED
    BY <2>9 DEF g
<1>12. ASSUME NEW k \in DOMAIN stack, stack[k].kind = "command" PROVE k \notin K
  BY <1>12 DEF K, Handlers
<1>13. Rewalks(scene, table, stack, scene', o, m, t)
  BY <1>1, <1>5, <1>6, <1>8, <1>9, <1>10, <1>11, <1>12 DEF Rewalks
<1>14. EngineInv(scene', table, args, t, inUse)
  BY <1>1, <1>13, RewalksKeeps
<1> QED
  BY <1>1, <1>2, <1>14 DEF SceneInv

\* A condition is added.
LEMMA AddConditionKeeps ==
  ASSUME SceneInv, NEW n \in Names, Exists(n), NEW condition \in NewConditions,
         AddCondition(n, condition)
  PROVE  SceneInv'
<1> DEFINE o == Scene(n)
           d == Append(scene[o].conds, condition)
<1>1. /\ o \in DOMAIN scene /\ EngineInv(scene, table, args, stack, inUse) /\ events \in Nat
      /\ scene \in Seq(SceneRecords) /\ stack \in Seq(Frames) /\ scene[o].sources \in Seq(SourceNames)
      /\ scene[o].conds \in Seq(Conditions) /\ scene[o].acts \in Seq(Actions)
  BY SceneFound
<1>2. /\ scene' = [scene EXCEPT ![o].conds = d]
      /\ UNCHANGED <<table, args, stack, events, inUse>>
  BY DEF AddCondition, Edit
<1>3. d \in Seq(Conditions)
  <2>1. condition \in Conditions
    BY DEF Conditions
  <2> QED
    BY <1>1, <2>1, WithLast
<1> HIDE DEF d, o
<1>4. ListsAre(scene, scene', o, scene[o].sources, scene[o].acts)
  BY <1>1, <1>2, <1>3, ListsChanged
<1>5. ASSUME NEW k \in DOMAIN stack
      PROVE  /\ SameFunction(stack[k], stack[k]) /\ Iterating(scene', table, stack[k])
             /\ stack[k].item <= stack[k].i + 1 /\ (stack[k].at = "ready" => stack[k].item >= 1)
  <2>1. /\ Standing(scene, stack[k]) /\ Iterating(scene, table, stack[k])
        /\ stack[k].stay \subseteq DOMAIN scene
    BY <1>1, ListsHave
  <2>2. SameFunction(stack[k], stack[k])
    BY DEF SameFunction
  <2>3. Iterating(scene', table, stack[k])
    BY <1>1, <1>4, <2>1, <2>2, SameIteration
  <2> QED
    BY <2>1, <2>2, <2>3 DEF Standing
<1>6. Rewalks(scene, table, stack, scene', o, scene[o].sources, stack)
  BY <1>1, <1>4, <1>5 DEF Rewalks
<1>7. EngineInv(scene', table, args, stack, inUse)
  BY <1>1, <1>6, RewalksKeeps
<1> QED
  BY <1>1, <1>2, <1>7 DEF SceneInv

\* A condition is removed: a scene that waits in one of its conditions steps back, or is lost.
LEMMA DelConditionKeeps ==
  ASSUME SceneInv, NEW n \in Names, Exists(n), NEW p \in DOMAIN scene[Scene(n)].conds,
         DelCondition(n, p)
  PROVE  SceneInv'
<1> DEFINE o == Scene(n)
           d == RemoveAt(scene[o].conds, p)
           K == Executions(o, "cond")
           freed == p > 1
           t == CutAll(stack, K, p, freed)
<1>1. /\ o \in DOMAIN scene /\ EngineInv(scene, table, args, stack, inUse) /\ events \in Nat
      /\ scene \in Seq(SceneRecords) /\ stack \in Seq(Frames) /\ scene[o].sources \in Seq(SourceNames)
      /\ scene[o].conds \in Seq(Conditions) /\ scene[o].acts \in Seq(Actions)
  BY SceneFound
<1>2. /\ scene' = [scene EXCEPT ![o].conds = d] /\ stack' = t /\ Paused(stack)
      /\ UNCHANGED <<table, args, events, inUse>>
  BY ClientFinds DEF DelCondition, Edit
<1>3. d \in Seq(Conditions) /\ p \in Nat \ {0} /\ freed \in BOOLEAN
  BY <1>1, Shortened
<1> HIDE DEF d, o, K, freed
<1>4. ListsAre(scene, scene', o, scene[o].sources, scene[o].acts)
  BY <1>1, <1>2, <1>3, ListsChanged
<1>5. /\ t \in Seq(Frames) /\ DOMAIN t = DOMAIN stack
      /\ \A k \in DOMAIN stack : /\ t[k] \in Frames /\ SameWalk(stack[k], t[k])
                                 /\ k \notin K => t[k] = stack[k]
                                 /\ k \in K => Cuts(stack[k], t[k], p, freed)
  <2>1. stack \in Seq(Frames)
    BY <1>1
  <2> QED
    BY ONLY <1>3, <2>1, CutAllIs
<1> HIDE DEF t
<1>6. ASSUME NEW k \in DOMAIN stack
      PROVE  /\ SameFunction(stack[k], t[k]) /\ t[k].act = stack[k].act
             /\ stack[k].kind # "scene" => t[k].item = stack[k].item /\ t[k].lost = stack[k].lost
             /\ t[k].item <= stack[k].i + 1 /\ (stack[k].at = "ready" => t[k].item >= 1)
             /\ Iterating(scene', table, t[k])
  <2>1. /\ stack[k] \in Frames /\ Standing(scene, stack[k]) /\ Iterating(scene, table, stack[k])
        /\ stack[k].stay \subseteq DOMAIN scene
    BY <1>1, ListsHave
  <2>2. SameFunction(stack[k], t[k]) /\ t[k].act = stack[k].act
    BY <1>5 DEF SameFunction, SameWalk
  <2>3. stack[k].kind # "scene" => t[k].item = stack[k].item /\ t[k].lost = stack[k].lost
    BY <1>5 DEF K, Executions
  <2>4. Evaluates(stack[k]) => stack[k].at # "ready"
    BY <1>2 DEF Paused
  <2>5. t[k].item <= stack[k].i + 1 /\ (stack[k].at = "ready" => t[k].item >= 1)
    <3>1. CASE k \in K
      <4>1. Cuts(stack[k], t[k], p, freed)
        BY <1>5, <3>1
      <4> QED
        BY ONLY <1>3, <2>1, <2>4, <4>1, CutStands
    <3>2. CASE k \notin K
      BY <1>5, <2>1, <3>2 DEF Standing
    <3> QED
      BY <3>1, <3>2
  <2>6. stack[k].kind = "event" => t[k].item = stack[k].item
    BY <2>3
  <2>7. Iterating(scene', table, t[k])
    BY <1>1, <1>4, <2>1, <2>2, <2>6, SameIteration
  <2> QED
    BY <2>2, <2>3, <2>5, <2>7
<1>7. Rewalks(scene, table, stack, scene', o, scene[o].sources, t)
  BY <1>1, <1>4, <1>5, <1>6 DEF Rewalks
<1>8. EngineInv(scene', table, args, t, inUse)
  BY <1>1, <1>7, RewalksKeeps
<1> QED
  BY <1>1, <1>2, <1>8 DEF SceneInv

\* The actions of a scene are c, each of them one of old.
Reacts(sc, tb, s, u, b, o, c, t, v) ==
  /\ o \in DOMAIN sc /\ ListsAre(sc, b, o, sc[o].sources, c)
  /\ \A a \in DOMAIN c : NoneTwice(c[a].env)
  /\ t \in Seq(Frames) /\ DOMAIN t = DOMAIN s
  /\ \A k \in DOMAIN s :
       /\ SameFunction(s[k], t[k]) /\ SameAction(sc, b, s[k], t[k])
       /\ s[k].kind = "event" => t[k].item = s[k].item
       /\ t[k].item <= s[k].i + 1 /\ (s[k].at = "ready" => t[k].item >= 1)
  /\ ~v => ~u /\ \A k \in DOMAIN s : t[k].act = 0 => s[k].act = 0

\* The invariant survives an edit of actions.
LEMMA ReactsKeeps ==
  ASSUME NEW sc, NEW tb, NEW ar, NEW s, NEW u, EngineInv(sc, tb, ar, s, u),
         NEW b, NEW o, NEW c, NEW t, NEW v, Reacts(sc, tb, s, u, b, o, c, t, v)
  PROVE  EngineInv(b, tb, ar, t, v)
<1>1. /\ o \in DOMAIN sc /\ ListsAre(sc, b, o, sc[o].sources, c)
      /\ \A a \in DOMAIN c : NoneTwice(c[a].env)
      /\ t \in Seq(Frames) /\ DOMAIN t = DOMAIN s
      /\ \A k \in DOMAIN s :
           /\ SameFunction(s[k], t[k]) /\ SameAction(sc, b, s[k], t[k])
           /\ s[k].kind = "event" => t[k].item = s[k].item
           /\ t[k].item <= s[k].i + 1 /\ (s[k].at = "ready" => t[k].item >= 1)
      /\ (~v => ~u /\ \A k \in DOMAIN s : t[k].act = 0 => s[k].act = 0)
  BY DEF Reacts
<1>2. /\ b \in Seq(SceneRecords) /\ DOMAIN b = DOMAIN sc /\ b[o].acts = c
      /\ \A x \in DOMAIN sc \ {o} : b[x] = sc[x]
      /\ \A x \in DOMAIN sc : b[x].name = sc[x].name
  BY <1>1 DEF ListsAre
<1>3. /\ \A x \in DOMAIN sc : \A a \in DOMAIN sc[x].acts : NoneTwice(sc[x].acts[a].env)
      /\ \A k \in DOMAIN s : Iterating(sc, tb, s[k]) /\ s[k].stay \subseteq DOMAIN sc
  BY ListsHave
<1>4. ASSUME NEW x \in DOMAIN b, NEW a \in DOMAIN b[x].acts PROVE NoneTwice(b[x].acts[a].env)
  <2>1. CASE x = o
    BY <1>1, <1>2, <2>1
  <2>2. CASE x # o
    <3>1. x \in DOMAIN sc /\ b[x] = sc[x]
      BY <1>2, <2>2
    <3> QED
      BY <1>3, <3>1
  <2> QED
    BY <2>1, <2>2
<1>5. ASSUME NEW k \in DOMAIN s PROVE Untouched(sc, tb, b, s[k], t[k])
  <2>1. t[k] \in Frames
    BY <1>1
  <2>2. Iterating(b, tb, t[k])
    BY <1>1, <1>3, SameIteration
  <2> QED
    BY <1>1, <2>1, <2>2 DEF Untouched
<1>6. Revised(sc, tb, s, u, b, t, v)
  BY <1>1, <1>2, <1>4, <1>5 DEF Revised
<1> QED
  BY <1>6, RevisedKeeps

\* An action is added, without arguments.
LEMMA AddActionKeeps ==
  ASSUME SceneInv, NEW n \in Names, Exists(n), NEW a \in NewActions, AddAction(n, a)
  PROVE  SceneInv'
<1> DEFINE o == Scene(n)
           old == scene[o].acts
           c == Append(old, a)
<1>1. /\ o \in DOMAIN scene /\ EngineInv(scene, table, args, stack, inUse) /\ events \in Nat
      /\ scene \in Seq(SceneRecords) /\ stack \in Seq(Frames) /\ scene[o].sources \in Seq(SourceNames)
      /\ scene[o].conds \in Seq(Conditions) /\ old \in Seq(Actions)
  BY SceneFound
<1>2. /\ scene' = [scene EXCEPT ![o].acts = c]
      /\ UNCHANGED <<table, args, stack, events, inUse>>
  BY DEF AddAction, Edit
<1>3. a \in Actions /\ a.env = << >>
  <2>1. IsAction(a) /\ a.env = << >> /\ a \in GivenActions
    BY StartupAssumption DEF GivenActions
  <2>2. /\ a = [type |-> a.type, target |-> a.target, expr |-> a.expr, env |-> a.env]
        /\ a.type \in {"scene", "enable", "disable"} => a.target \in Names
    BY <2>1 DEF IsAction
  <2>3. a.env \in Seq(Arguments)
    BY <2>1
  <2>4. /\ a.type \in {x.type : x \in GivenActions} /\ a.target \in {x.target : x \in GivenActions}
        /\ a.expr \in {x.expr : x \in GivenActions}
    BY <2>1
  <2> QED
    BY <2>1, <2>2, <2>3, <2>4 DEF Actions
<1>4. /\ c \in Seq(Actions) /\ Len(old) \in Nat /\ DOMAIN old = 1 .. Len(old)
      /\ DOMAIN c = 1 .. Len(old) + 1 /\ c[Len(old) + 1] = a /\ \A k \in 1 .. Len(old) : c[k] = old[k]
  BY <1>1, <1>3, WithLast
<1> HIDE DEF c, o
<1>5. ListsAre(scene, scene', o, scene[o].sources, c)
  BY <1>1, <1>2, <1>4, ListsChanged
<1> HIDE DEF old
<1>6. ASSUME NEW q \in DOMAIN c PROVE NoneTwice(c[q].env)
  <2>1. CASE q \in DOMAIN old
    <3>1. NoneTwice(old[q].env)
      BY <1>1, <2>1, ListsHave DEF old
    <3> QED
      BY <1>4, <2>1, <3>1
  <2>2. CASE q \notin DOMAIN old
    <3>1. c[q] = a
      BY <1>4, <2>2
    <3> QED
      BY <1>3, <3>1 DEF NoneTwice
  <2> QED
    BY <2>1, <2>2
<1>7. ASSUME NEW k \in DOMAIN stack
      PROVE  /\ SameFunction(stack[k], stack[k]) /\ SameAction(scene, scene', stack[k], stack[k])
             /\ stack[k].item <= stack[k].i + 1 /\ (stack[k].at = "ready" => stack[k].item >= 1)
  <2>1. Standing(scene, stack[k])
    BY <1>1, ListsHave
  <2>2. SameFunction(stack[k], stack[k])
    BY DEF SameFunction
  <2>3. ASSUME stack[k].kind = "command", stack[k].act # 0
        PROVE  /\ stack[k].act \in DOMAIN scene'[stack[k].obj].acts
               /\ scene'[stack[k].obj].acts[stack[k].act] = scene[stack[k].obj].acts[stack[k].act]
    <3>1. stack[k].obj \in DOMAIN scene /\ stack[k].act \in DOMAIN scene[stack[k].obj].acts
      BY <2>1, <2>3 DEF Standing
    <3>2. CASE stack[k].obj = o
      <4>1. scene'[stack[k].obj].acts = c /\ scene[stack[k].obj].acts = old
        BY <1>5, <3>2 DEF ListsAre, old
      <4> QED
        BY <1>4, <3>1, <4>1
    <3>3. CASE stack[k].obj # o
      BY <1>5, <3>1, <3>3 DEF ListsAre
    <3> QED
      BY <3>2, <3>3
  <2>4. stack[k].kind = "command" /\ stack[k].act = 0 => stack[k].lost
    <3>1. \A x \in DOMAIN scene : 0 \notin DOMAIN scene[x].acts
      BY <1>1, ListsHave
    <3> QED
      BY <2>1, <3>1 DEF Standing
  <2>5. SameAction(scene, scene', stack[k], stack[k])
    BY <2>3, <2>4 DEF SameAction
  <2> QED
    BY <2>1, <2>2, <2>5 DEF Standing
<1>8. Reacts(scene, table, stack, inUse, scene', o, c, stack, inUse)
  BY <1>1, <1>5, <1>6, <1>7 DEF Reacts
<1>9. EngineInv(scene', table, args, stack, inUse)
  BY <1>1, <1>8, ReactsKeeps
<1> QED
  BY <1>1, <1>2, <1>9 DEF SceneInv

\* What stays of a frame that is told the new position of its action, and where that is.
SameButAct(f, g) ==
  /\ g.clash = f.clash /\ g.put = f.put /\ g.kind = f.kind /\ g.obj = f.obj /\ g.arg = f.arg
  /\ g.phase = f.phase /\ g.at = f.at /\ g.i = f.i /\ g.item = f.item /\ g.grew = f.grew
  /\ g.src = f.src /\ g.pos = f.pos /\ g.ran = f.ran /\ g.stay = f.stay

ActMoves(f, g, o, p) ==
  \/ (f.kind # "command" \/ f.obj # o \/ f.act < p) /\ g.act = f.act /\ g.lost = f.lost
  \/ f.kind = "command" /\ f.obj = o /\ f.act = p /\ g.act = 0 /\ g.lost
  \/ f.kind = "command" /\ f.obj = o /\ f.act > p /\ g.act = f.act - 1 /\ g.lost = f.lost

\* A frame when an action of its scene is removed.
LEMMA RenumberedIs ==
  ASSUME NEW f \in Frames, NEW o, NEW p \in Nat \ {0}
  PROVE  LET g == Renumbered(f, o, p)
         IN  g \in Frames /\ SameButAct(f, g) /\ ActMoves(f, g, o, p)
<1>1. f.act \in Nat
  BY DEF Frames
<1>2. CASE f.kind # "command" \/ f.obj # o \/ f.act < p
  <2>1. Renumbered(f, o, p) = f
    BY <1>2 DEF Renumbered
  <2> QED
    BY <1>2, <2>1 DEF SameButAct, ActMoves
<1>3. CASE f.kind = "command" /\ f.obj = o /\ f.act = p
  <2>1. Renumbered(f, o, p) = [f EXCEPT !.act = 0, !.lost = TRUE]
    BY <1>3 DEF Renumbered
  <2>2. /\ [f EXCEPT !.act = 0, !.lost = TRUE] \in Frames
        /\ SameButAct(f, [f EXCEPT !.act = 0, !.lost = TRUE])
        /\ [f EXCEPT !.act = 0, !.lost = TRUE].act = 0 /\ [f EXCEPT !.act = 0, !.lost = TRUE].lost
    BY DEF Frames, SameButAct
  <2> QED
    BY <1>3, <2>1, <2>2 DEF ActMoves
<1>4. CASE f.kind = "command" /\ f.obj = o /\ f.act > p
  <2>1. Renumbered(f, o, p) = [f EXCEPT !.act = f.act - 1]
    BY <1>1, <1>4 DEF Renumbered
  <2>2. f.act - 1 \in Nat
    BY <1>1, <1>4
  <2>3. ASSUME NEW j \in Nat
        PROVE  /\ [f EXCEPT !.act = j] \in Frames /\ SameButAct(f, [f EXCEPT !.act = j])
               /\ [f EXCEPT !.act = j].act = j /\ [f EXCEPT !.act = j].lost = f.lost
    BY DEF Frames, SameButAct
  <2>4. /\ [f EXCEPT !.act = f.act - 1] \in Frames /\ SameButAct(f, [f EXCEPT !.act = f.act - 1])
        /\ [f EXCEPT !.act = f.act - 1].act = f.act - 1
        /\ [f EXCEPT !.act = f.act - 1].lost = f.lost
    BY <2>2, <2>3
  <2> QED
    BY <1>4, <2>1, <2>4 DEF ActMoves
<1> QED
  BY <1>1, <1>2, <1>3, <1>4

\* An action is removed: what runs it is lost, and the walks of the actions step back.
LEMMA DelActionKeeps ==
  ASSUME SceneInv, NEW n \in Names, Exists(n), NEW p \in DOMAIN scene[Scene(n)].acts,
         DelAction(n, p)
  PROVE  SceneInv'
<1> DEFINE o == Scene(n)
           old == scene[o].acts
           c == RemoveAt(old, p)
           K == Executions(o, "act")
           freed == p > 1
           h == CutAll(stack, K, p, freed)
           t == [k \in DOMAIN h |-> Renumbered(h[k], o, p)]
           v == inUse \/ InUse(o, p)
<1>1. /\ o \in DOMAIN scene /\ EngineInv(scene, table, args, stack, inUse) /\ events \in Nat
      /\ scene \in Seq(SceneRecords) /\ stack \in Seq(Frames) /\ scene[o].sources \in Seq(SourceNames)
      /\ scene[o].conds \in Seq(Conditions) /\ old \in Seq(Actions)
  BY SceneFound
<1>2. /\ scene' = [scene EXCEPT ![o].acts = c] /\ stack' = t /\ inUse' = v /\ Paused(stack)
      /\ UNCHANGED <<table, args, events>>
  BY ClientFinds DEF DelAction, Edit
<1>3. /\ c \in Seq(Actions) /\ Len(old) \in Nat /\ p \in Nat \ {0} /\ Len(c) = Len(old) - 1
      /\ \A k \in 1 .. Len(old) - 1 : c[k] = IF k < p THEN old[k] ELSE old[k + 1]
  <2>1. old \in Seq(Actions) /\ p \in DOMAIN old
    BY <1>1
  <2> HIDE DEF old
  <2> QED
    BY ONLY <2>1, Shortened DEF c
<1>4. DOMAIN old = 1 .. Len(old) /\ DOMAIN c = 1 .. Len(old) - 1 /\ p \in 1 .. Len(old)
  BY <1>1, <1>3
<1>5. freed \in BOOLEAN
  OBVIOUS
<1>6. DOMAIN t = DOMAIN h /\ \A k \in DOMAIN h : t[k] = Renumbered(h[k], o, p)
  OBVIOUS
<1>7. ~v => ~inUse /\ \A k \in DOMAIN stack : ~Runs(stack[k], o, p)
  BY DEF InUse
<1> HIDE DEF c, o, K, freed, v
<1>8. ListsAre(scene, scene', o, scene[o].sources, c)
  BY <1>1, <1>2, <1>3, ListsChanged
<1> HIDE DEF old
<1>9. /\ h \in Seq(Frames) /\ DOMAIN h = DOMAIN stack
      /\ \A k \in DOMAIN stack : /\ h[k] \in Frames /\ SameWalk(stack[k], h[k])
                                 /\ k \notin K => h[k] = stack[k]
                                 /\ k \in K => Cuts(stack[k], h[k], p, freed)
  <2>1. stack \in Seq(Frames)
    BY <1>1
  <2> QED
    BY ONLY <1>3, <1>5, <2>1, CutAllIs
<1> HIDE DEF h
<1>10. ASSUME NEW k \in DOMAIN stack
       PROVE  t[k] \in Frames /\ SameButAct(h[k], t[k]) /\ ActMoves(h[k], t[k], o, p)
  <2>1. h[k] \in Frames /\ t[k] = Renumbered(h[k], o, p)
    BY <1>6, <1>9
  <2> HIDE DEF t
  <2> QED
    BY <1>3, <2>1, RenumberedIs
<1>11. t \in Seq(Frames)
  <2>1. DOMAIN t = 1 .. Len(stack) /\ Len(stack) \in Nat
    BY <1>1, <1>6, <1>9
  <2>2. t = [k \in 1 .. Len(stack) |-> t[k]]
    BY <2>1
  <2>3. \A k \in 1 .. Len(stack) : t[k] \in Frames
    BY <1>6, <1>9, <1>10, <2>1
  <2> HIDE DEF t
  <2> QED
    BY <2>1, <2>2, <2>3
<1> HIDE DEF t
<1>12. ASSUME NEW q \in DOMAIN c PROVE NoneTwice(c[q].env)
  <2>1. PICK r \in DOMAIN old : c[q] = old[r]
    <3>1. q \in 1 .. Len(old) - 1
      BY <1>4, <1>12
    <3>2. CASE q < p
      BY <1>3, <1>4, <3>1, <3>2
    <3>3. CASE ~(q < p)
      <4>1. q + 1 \in DOMAIN old /\ c[q] = old[q + 1]
        BY <1>3, <1>4, <3>1, <3>3
      <4> QED
        BY <4>1
    <3> QED
      BY <3>2, <3>3
  <2>2. NoneTwice(old[r].env)
    BY <1>1, <2>1, ListsHave DEF old
  <2> QED
    BY <2>1, <2>2
<1>13. ASSUME NEW k \in DOMAIN stack
       PROVE  /\ SameFunction(stack[k], t[k]) /\ t[k].item = h[k].item
              /\ k \notin K => h[k] = stack[k]
              /\ stack[k].kind # "scene" => k \notin K
              /\ stack[k] \in Frames /\ Standing(scene, stack[k]) /\ stack[k].act \in Nat
  <2>1. /\ stack[k] \in Frames /\ Standing(scene, stack[k])
    BY <1>1, ListsHave
  <2>2. stack[k].act \in Nat
    BY <2>1 DEF Frames
  <2>3. SameWalk(stack[k], h[k]) /\ SameButAct(h[k], t[k])
    BY <1>9, <1>10
  <2>4. SameFunction(stack[k], t[k]) /\ t[k].item = h[k].item
    BY <2>3 DEF SameFunction, SameWalk, SameButAct
  <2> QED
    BY <1>9, <2>1, <2>2, <2>4 DEF K, Executions
<1>14. ASSUME NEW k \in DOMAIN stack
       PROVE  t[k].item <= stack[k].i + 1 /\ (stack[k].at = "ready" => t[k].item >= 1)
  <2>1. Evaluates(stack[k]) => stack[k].at # "ready"
    BY <1>2 DEF Paused
  <2>2. CASE k \in K
    <3>1. stack[k] \in Frames /\ Standing(scene, stack[k]) /\ Cuts(stack[k], h[k], p, freed)
      BY <1>9, <1>13, <2>2
    <3>2. h[k].item <= stack[k].i + 1 /\ (stack[k].at = "ready" => h[k].item >= 1)
      BY ONLY <1>3, <2>1, <3>1, CutStands
    <3> QED
      BY <1>13, <3>2
  <2>3. CASE k \notin K
    BY <1>13, <2>3 DEF Standing
  <2> QED
    BY <2>2, <2>3
<1>15. ASSUME NEW k \in DOMAIN stack PROVE SameAction(scene, scene', stack[k], t[k])
  <2> DEFINE f == stack[k]
             g == t[k]
  <2> SUFFICES ASSUME f.kind = "command" PROVE SameAction(scene, scene', f, g)
    BY DEF SameAction
  <2>1. /\ ActMoves(f, g, o, p) /\ g.item = f.item /\ f.act \in Nat /\ Standing(scene, f)
    BY <1>10, <1>13
  <2> HIDE DEF f, g
  <2>2. f.obj \in DOMAIN scene /\ (f.act \in DOMAIN scene[f.obj].acts \/ (f.act = 0 /\ f.lost))
    BY <2>1 DEF Standing
  <2>3. \A x \in DOMAIN scene : 0 \notin DOMAIN scene[x].acts
    BY <1>1, ListsHave
  <2>4. CASE g.act = 0
    <3>1. g.lost
      BY <1>3, <2>1, <2>2, <2>3, <2>4 DEF ActMoves
    <3> QED
      BY <2>1, <2>4, <3>1 DEF SameAction
  <2>5. CASE g.act # 0 /\ f.obj # o
    <3>1. g.act = f.act /\ g.lost = f.lost
      BY <2>1, <2>5 DEF ActMoves
    <3>2. scene'[f.obj] = scene[f.obj]
      BY <1>8, <2>2, <2>5 DEF ListsAre
    <3> QED
      BY <2>1, <2>2, <2>5, <3>1, <3>2 DEF SameAction
  <2>6. CASE g.act # 0 /\ f.obj = o
    <3>1. scene'[f.obj].acts = c /\ scene[f.obj].acts = old
      BY <1>8, <2>6 DEF ListsAre, old
    <3>2. /\ g.lost = f.lost /\ f.act # p
          /\ f.act < p => g.act = f.act
          /\ f.act > p => g.act = f.act - 1
      BY <1>3, <2>1, <2>6 DEF ActMoves
    <3>3. f.act # 0 /\ f.act \in 1 .. Len(old)
      BY <1>3, <1>4, <2>1, <2>2, <2>6, <3>1, <3>2
    <3>4. g.act \in DOMAIN c /\ c[g.act] = old[f.act]
      <4>1. CASE f.act < p
        BY <1>3, <1>4, <3>2, <3>3, <4>1
      <4>2. CASE f.act > p
        <5>1. g.act = f.act - 1 /\ f.act - 1 \in 1 .. Len(old) - 1 /\ ~(f.act - 1 < p)
              /\ (f.act - 1) + 1 = f.act
          BY <1>3, <1>4, <3>2, <3>3, <4>2
        <5> QED
          BY <1>3, <1>4, <5>1
      <4> QED
        BY <1>3, <3>2, <3>3, <4>1, <4>2
    <3> QED
      BY <2>1, <2>6, <3>1, <3>2, <3>3, <3>4 DEF SameAction
  <2> QED
    BY <2>4, <2>5, <2>6
<1>16. ASSUME ~v, NEW k \in DOMAIN stack, t[k].act = 0 PROVE stack[k].act = 0
  <2>1. ~Runs(stack[k], o, p) /\ ActMoves(h[k], t[k], o, p) /\ stack[k].act \in Nat
    BY <1>7, <1>10, <1>13, <1>16
  <2>2. h[k].kind = stack[k].kind /\ h[k].obj = stack[k].obj /\ h[k].act = stack[k].act
    BY <1>9 DEF SameWalk
  <2> QED
    BY <1>3, <1>16, <2>1, <2>2 DEF ActMoves, Runs
<1>17. Reacts(scene, table, stack, inUse, scene', o, c, t, v)
  <2>1. \A k \in DOMAIN stack : stack[k].kind = "event" => t[k].item = stack[k].item
    BY <1>13
  <2> QED
    BY <1>1, <1>6, <1>7, <1>8, <1>9, <1>11, <1>12, <1>13, <1>14, <1>15, <1>16, <2>1 DEF Reacts
<1>18. EngineInv(scene', table, args, t, v)
  BY <1>1, <1>17, ReactsKeeps
<1> QED
  BY <1>1, <1>2, <1>18 DEF SceneInv

\* The command line edits a scene.
LEMMA EditSourceKeeps == ASSUME SceneInv, EditSource PROVE SceneInv'
  BY AddSourceKeeps, DelSourceKeeps DEF EditSource

\* Its conditions.
LEMMA EditConditionKeeps == ASSUME SceneInv, EditCondition PROVE SceneInv'
  BY AddConditionKeeps, DelConditionKeeps DEF EditCondition

\* Its actions.
LEMMA EditActionKeeps == ASSUME SceneInv, EditAction PROVE SceneInv'
  BY AddActionKeeps, DelActionKeeps DEF EditAction

-----------------------------------------------------------------------------
\* The configuration at the start.
LEMMA ConfiguredIs ==
  \E g : /\ Configured = g[Len(Startup)]
         /\ g = [n \in 0 .. Len(Startup) |->
                   IF n = 0 THEN variant_hash_init
                            ELSE Insert(g[n - 1], Crc[Startup[n].name], n)]
<1> DEFINE next(t, n) == Insert(t, Crc[Startup[n].name], n)
           Is(g, m) == g = [n \in 0 .. m |-> IF n = 0 THEN variant_hash_init ELSE next(g[n - 1], n)]
           Bad == {m \in Nat : ~\E g : Is(g, m)}
<1>1. Configured = (CHOOSE h : Is(h, Len(Startup)))[Len(Startup)]
  BY DEF Configured
<1> HIDE DEF next
<1>2. Bad = {}
  <2> SUFFICES ASSUME Bad # {} PROVE FALSE
    OBVIOUS
  <2> DEFINE m == Min(Bad)
  <2>1. m \in Bad /\ \A l \in Bad : m <= l
    <3>1. Bad \in SUBSET Nat
      OBVIOUS
    <3> HIDE DEF Bad
    <3> QED
      BY <3>1, LeastNat
  <2>2. Is([n \in 0 .. 0 |-> variant_hash_init], 0)
    OBVIOUS
  <2>3. m \in Nat \ {0} /\ m - 1 \in Nat
    <3> HIDE DEF m, Is
    <3> QED
      BY <2>1, <2>2
  <2>4. PICK g : Is(g, m - 1)
    <3> HIDE DEF m, Is
    <3> QED
      BY <2>1, <2>3
  <2> HIDE DEF m
  <2> DEFINE h == [n \in 0 .. m |-> IF n = m THEN next(g[m - 1], m) ELSE g[n]]
  <2>5. ASSUME NEW n \in 0 .. m
        PROVE  h[n] = IF n = 0 THEN variant_hash_init ELSE next(h[n - 1], n)
    <3>1. n # 0 => n - 1 \in 0 .. m /\ n - 1 # m /\ n - 1 \in 0 .. m - 1
      BY <2>3
    <3>2. n # m => /\ n \in 0 .. m - 1
                   /\ g[n] = IF n = 0 THEN variant_hash_init ELSE next(g[n - 1], n)
      BY <2>3, <2>4
    <3> QED
      BY <2>3, <3>1, <3>2
  <2>6. Is(h, m)
    BY <2>5
  <2> QED
    BY <2>1, <2>6
<1>3. Len(Startup) \in Nat
  BY StartupAssumption
<1>4. PICK g : Is(g, Len(Startup))
  BY <1>2, <1>3
<1>5. Is(CHOOSE h : Is(h, Len(Startup)), Len(Startup))
  <2> HIDE DEF Is
  <2> QED
    BY <1>4
<1> QED
  BY <1>1, <1>5 DEF next

\* The configuration makes a sound table of the scenes of the configuration.
LEMMA ConfiguredSound ==
  /\ Sound(Configured, Nat)
  /\ \A x \in Items(Configured) :
       x.data \in 1 .. Len(Startup) /\ x.key = Crc[Startup[x.data].name]
<1> DEFINE L == Len(Startup)
           Holds(t, n) == /\ Sound(t, Nat)
                          /\ \A x \in Items(t) : x.data \in 1 .. n /\ x.key = Crc[Startup[x.data].name]
<1>1. PICK g : /\ Configured = g[L]
               /\ g = [n \in 0 .. L |-> IF n = 0 THEN variant_hash_init
                                        ELSE Insert(g[n - 1], Crc[Startup[n].name], n)]
  BY ConfiguredIs
<1>2. L \in Nat /\ \A n \in 1 .. L : Crc[Startup[n].name] \in 0 .. KeyBound - 1
  <2>1. Startup \in Seq(ToSet(Startup))
    BY StartupAssumption
  <2>2. ASSUME NEW n \in 1 .. L PROVE Startup[n] \in ToSet(Startup)
    BY <2>1, <2>2
  <2> QED
    BY <2>1, <2>2, StartupAssumption, ScenesAssumption
<1>3. \A n \in 0 .. L : g[n] = IF n = 0 THEN variant_hash_init
                               ELSE Insert(g[n - 1], Crc[Startup[n].name], n)
  BY <1>1
<1> HIDE DEF L
<1> DEFINE Bad == {n \in 0 .. L : ~Holds(g[n], n)}
<1>4. Bad = {}
  <2> SUFFICES ASSUME Bad # {} PROVE FALSE
    OBVIOUS
  <2> DEFINE m == Min(Bad)
  <2>1. m \in Bad /\ \A l \in Bad : m <= l
    <3>1. Bad \in SUBSET Nat
      BY <1>2
    <3> HIDE DEF Bad
    <3> QED
      BY <3>1, LeastNat
  <2> HIDE DEF m
  <2>2. m # 0
    <3>1. NoItem \notin TableItems(Nat)
      BY ScenesAssumption DEF TableItems
    <3>2. Sound(variant_hash_init, Nat) /\ Items(variant_hash_init) = {}
      BY <3>1, InitSound
    <3>3. 0 \in 0 .. L => g[0] = variant_hash_init
      BY <1>3
    <3> QED
      BY <2>1, <3>2, <3>3
  <2>3. m \in 1 .. L /\ m - 1 \in 0 .. L /\ m \in Nat /\ m - 1 \in Nat
    BY <1>2, <2>1, <2>2
  <2>4. Holds(g[m - 1], m - 1)
    <3> HIDE DEF Holds
    <3> QED
      BY <2>1, <2>3
  <2> DEFINE k == Crc[Startup[m].name]
  <2>5. g[m] = Insert(g[m - 1], k, m) /\ k \in 0 .. KeyBound - 1
    BY <1>2, <1>3, <2>3
  <2>6. /\ Sound(g[m], Nat)
        /\ Items(g[m]) = {x \in Items(g[m - 1]) : x.key # k} \cup {Item(k, m)}
    BY <2>3, <2>4, <2>5, InsertSound
  <2>7. Item(k, m).key = k /\ Item(k, m).data = m
    BY DEF Item
  <2>8. ASSUME NEW x \in Items(g[m]) PROVE x.data \in 1 .. m /\ x.key = Crc[Startup[x.data].name]
    <3>1. CASE x = Item(k, m)
      BY <2>3, <2>7, <3>1
    <3>2. CASE x \in Items(g[m - 1])
      BY <2>3, <2>4, <3>2
    <3> QED
      BY <2>6, <2>8, <3>1, <3>2
  <2> QED
    BY <2>1, <2>6, <2>8
<1>5. Holds(g[L], L)
  <2>1. L \in 0 .. L
    BY <1>2
  <2> HIDE DEF Holds
  <2> QED
    BY <1>4, <2>1
<1> QED
  BY <1>1, <1>5 DEF L

\* The scenes of the configuration.
LEMMA StartupScenes ==
  ASSUME NEW c \in ToSet(Startup)
  PROVE  /\ NewScene(c) \in SceneRecords /\ NewScene(c).name = c.name /\ NewScene(c).acts = c.acts
         /\ \A a \in DOMAIN c.acts : NoneTwice(c.acts[a].env)
<1>1. /\ c.name \in Names /\ c.acts \in Seq(ToSet(c.acts)) /\ c.sources \in Seq(ToSet(c.sources))
      /\ c.conds \in Seq(ToSet(c.conds))
      /\ \A a \in ToSet(c.acts) :
           /\ IsAction(a)
           /\ a.env \in Seq(ToSet(a.env))
           /\ \A p, q \in DOMAIN a.env : SameArgument(a.env[p], a.env[q]) => p = q
  BY StartupAssumption
<1>2. ASSUME NEW a \in ToSet(c.acts) PROVE a \in Actions
  <2>1. a \in GivenActions
    BY <1>2 DEF GivenActions
  <2>2. ToSet(a.env) \subseteq Arguments
    BY <2>1 DEF Arguments
  <2>3. a.env \in Seq(Arguments)
    BY <1>1, <1>2, <2>2
  <2>4. /\ a.type \in {b.type : b \in GivenActions} /\ a.target \in {b.target : b \in GivenActions}
        /\ a.expr \in {b.expr : b \in GivenActions}
    BY <2>1
  <2> DEFINE r == [type |-> a.type, target |-> a.target, expr |-> a.expr, env |-> a.env]
  <2>5. r \in [type : {b.type : b \in GivenActions}, target : {b.target : b \in GivenActions},
               expr : {b.expr : b \in GivenActions}, env : Seq(Arguments)]
    BY <2>3, <2>4
  <2>6. a = r /\ (a.type \in {"scene", "enable", "disable"} => a.target \in Names)
    BY <1>1, <1>2 DEF IsAction
  <2> HIDE DEF r
  <2> QED
    BY <2>5, <2>6 DEF Actions
<1>3. c.acts \in Seq(Actions)
  BY <1>1, <1>2
<1>4. c.sources \in Seq(SourceNames)
  <2>1. ToSet(c.sources) \subseteq SourceNames
    BY DEF SourceNames
  <2> QED
    BY <1>1, <2>1
<1>5. c.conds \in Seq(Conditions)
  <2>1. ToSet(c.conds) \subseteq Conditions
    BY DEF Conditions
  <2> QED
    BY <1>1, <2>1
<1>6. NewScene(c) \in SceneRecords
  BY <1>1, <1>3, <1>4, <1>5 DEF NewScene, SceneRecords
<1>7. ASSUME NEW a \in DOMAIN c.acts PROVE NoneTwice(c.acts[a].env)
  <2>1. c.acts[a] \in ToSet(c.acts)
    BY DEF ToSet
  <2> QED
    BY <1>1, <2>1 DEF NoneTwice
<1> QED
  BY <1>6, <1>7 DEF NewScene

\* The invariant holds at first.
LEMMA SceneInvInit == Init => SceneInv
<1> SUFFICES ASSUME Init PROVE SceneInv
  OBVIOUS
<1>1. /\ table = Configured /\ args = << >> /\ stack = << >> /\ events = 0
      /\ scene = [n \in 1 .. Len(Startup) |-> NewScene(Startup[n])]
  BY DEF Init
<1>2. Len(Startup) \in Nat /\ \A n \in 1 .. Len(Startup) : Startup[n] \in ToSet(Startup)
  <2>1. Startup \in Seq(ToSet(Startup))
    BY StartupAssumption
  <2> QED
    BY <2>1
<1>3. ASSUME NEW n \in 1 .. Len(Startup)
      PROVE  /\ scene[n] \in SceneRecords /\ scene[n].name = Startup[n].name
             /\ \A a \in DOMAIN scene[n].acts : NoneTwice(scene[n].acts[a].env)
  BY <1>1, <1>2, StartupScenes
<1>4. scene \in Seq(SceneRecords) /\ DOMAIN scene = 1 .. Len(Startup)
  <2>1. scene = [n \in 1 .. Len(Startup) |-> scene[n]] /\ \A n \in 1 .. Len(Startup) : scene[n] \in SceneRecords
    BY <1>1, <1>3
  <2> QED
    BY <1>2, <2>1
<1>5. stack \in Seq(Frames) /\ DOMAIN stack = {} /\ DOMAIN args = {}
  BY <1>1
<1>6. Typed(scene, args, stack)
  BY <1>3, <1>4, <1>5 DEF Typed, NoneTwice
<1>7. Sound(table, Nat) /\ \A x \in Items(table) : x.data \in DOMAIN scene /\ x.key = Crc[scene[x.data].name]
  BY <1>1, <1>3, <1>4, ConfiguredSound
<1> QED
  BY <1>1, <1>5, <1>6, <1>7 DEF SceneInv, EngineInv, Nested, Listing, Claimed, Owned

\* Every step keeps the invariant.
LEMMA SceneInvStep == SceneInv /\ [Next]_vars => SceneInv'
<1> SUFFICES ASSUME SceneInv, [Next]_vars PROVE SceneInv'
  OBVIOUS
<1>1. ASSUME NEW src \in DeviceEvents, DeviceEvent(src) PROVE SceneInv'
  BY <1>1, DeviceEventKeeps
<1>2. ASSUME NEW service \in Services, NEW n \in Names, ActivationEvent(service, n) PROVE SceneInv'
  BY <1>2, ActivationEventKeeps
<1>3. ASSUME NEW n \in Names, AddScene(n) PROVE SceneInv'
  BY <1>3, AddSceneKeeps
<1>4. ASSUME NEW n \in Names, DelScene(n) PROVE SceneInv'
  BY <1>4, DelSceneKeeps
<1>5. ASSUME NEW n \in Names, SwitchByHand(n) PROVE SceneInv'
  BY <1>5, SwitchByHandKeeps
<1>6. ASSUME EditArgument PROVE SceneInv'
  BY <1>6, EditArgumentKeeps
<1>7. ASSUME EditSource \/ EditCondition \/ EditAction PROVE SceneInv'
  BY <1>7, EditSourceKeeps, EditConditionKeeps, EditActionKeeps
<1>8. ASSUME Step PROVE SceneInv'
  BY <1>8, NextSceneKeeps, RunSceneKeeps, EventDoneKeeps, NotCompiledKeeps, ReadEventKeeps,
     AskDeviceKeeps, DeviceAnswersKeeps, CallSceneKeeps, SceneReturnsKeeps, NoConditionKeeps,
     ExecSceneKeeps, SwitchSceneKeeps, ExecCommandKeeps, ArgumentsDoneKeeps, SceneDoneKeeps,
     UseFreedKeeps DEF Step
<1>9. ASSUME UNCHANGED vars PROVE SceneInv'
  BY <1>9 DEF vars, SceneInv
<1> QED
  BY <1>1, <1>2, <1>3, <1>4, <1>5, <1>6, <1>7, <1>8, <1>9 DEF Next

\* The inductive invariant: what the frames, the arguments and the table are, and how
\* they belong together.
THEOREM SceneInvHolds == Spec => []SceneInv
<1> QED
  BY SceneInvInit, SceneInvStep, PTL DEF Spec

\* For every configuration: what a handler or an action has stored is there and its own
\* while it runs, unless something that runs inside it uses a stack of the same name.
THEOREM ArgumentsAlwaysHold == Spec => []ArgumentsHold
<1>1. SceneInv => ArgumentsHold
  BY DEF SceneInv, EngineInv, Good, Held, ArgumentsHold
<1> QED
  BY <1>1, SceneInvHolds, PTL

\* For every configuration: no argument stack is left when nothing runs, unless the
\* arguments of a running action were edited.
THEOREM NothingEverLeft == Spec => []NothingLeftBehind
<1>1. SceneInv => NothingLeftBehind
  <2> SUFFICES ASSUME SceneInv, stack = << >>, ~inUse PROVE DOMAIN args = {}
    BY DEF NothingLeftBehind
  <2>1. \A st \in DOMAIN args : \E k \in DOMAIN stack : st \in Uses(scene, stack[k])
    BY DEF SceneInv, EngineInv, Owned
  <2>2. DOMAIN stack = {}
    OBVIOUS
  <2> QED
    BY <2>1, <2>2
<1> QED
  BY <1>1, SceneInvHolds, PTL

\* A handler that has gone through the sources of its scene has all of them behind it.
LEMMA WalkEnded ==
  ASSUME NEW o \in DOMAIN scene, scene \in Seq(SceneRecords), o \in Nat \ {0},
         SourcesDone, NEW f \in Frames, f = Top, o = f.obj, f.item = f.i + 1
  PROVE  Cardinality(Behinds(scene, f, o, f.item)) = MatchesOf(scene, f, o)
<1>1. scene[o].sources \in Seq(SourceNames) /\ Len(scene[o].sources) \in Nat
  <2>1. scene[o] \in SceneRecords
    OBVIOUS
  <2> QED
    BY <2>1 DEF SceneRecords
<1>2. f.i >= Len(scene[o].sources)
  BY DEF SourcesDone, Sources
<1>3. f.item \in Nat /\ f.i \in Nat
  BY DEF Frames
<1>4. f.item > Len(scene[o].sources)
  BY <1>1, <1>2, <1>3
<1> QED
  BY ONLY <1>1, <1>3, <1>4, MatchesCounted

\* For every configuration: an event executes each scene that stays as often as it has
\* sources that match, whatever scenes, sources, conditions, actions and arguments are added
\* and deleted and whatever is executed meanwhile, as long as the table does not grow and no
\* source was edited that the handler had behind it.
THEOREM ScenesRunOnce == Spec => EachSceneOnce
<1>1. SceneInv /\ [Next]_vars =>
        [EventDone /\ Top.kind = "event" /\ ~Top.grew =>
           \A o \in Top.stay \cap DOMAIN Top.ran : Top.ran[o] = Matches(o, Top.src)]_vars
  <2> SUFFICES ASSUME SceneInv, EventDone, Top.kind = "event", ~Top.grew,
                      NEW o \in Top.stay \cap DOMAIN Top.ran
               PROVE  Top.ran[o] = Matches(o, Top.src)
    OBVIOUS
  <2> DEFINE f == Top
             m == Place(scene, table, o)
  <2>1. stack # << >> /\ SourcesDone /\ After(table, f.pos) = {}
    BY DEF EventDone, Ready, Running
  <2>2. f \in Frames /\ Iterating(scene, table, f) /\ f = stack[Len(stack)] /\ scene \in Seq(SceneRecords)
    BY <2>1, TopIs
  <2>3. o \in Present
    BY <2>1, <2>2, TopGood DEF SceneInv, Present
  <2>4. m \in Occupied(table) /\ m \in Nat /\ o \in Nat
    BY <2>3, PlacesTaken
  <2>5. f.pos \in {-1} \cup Nat
    BY <2>2 DEF Frames
  <2>6. m <= f.pos
    BY <2>1, <2>4, <2>5 DEF After
  <2>7. /\ m < f.pos => f.ran[o] = MatchesOf(scene, f, o)
        /\ m = f.pos => /\ f.item = f.i + 1 /\ f.ran[o] = Cardinality(Behinds(scene, f, o, f.item))
                        /\ o = f.obj
    BY <2>2 DEF Iterating
  <2>8. m = f.pos => f.ran[o] = MatchesOf(scene, f, o)
    <3>1. SUFFICES ASSUME m = f.pos PROVE f.ran[o] = MatchesOf(scene, f, o)
      OBVIOUS
    <3>2. o \in DOMAIN scene /\ o \in Nat \ {0} /\ o = f.obj /\ f.item = f.i + 1
      BY <2>2, <2>3, <2>4, <2>7, <3>1, PlacesTaken
    <3>3. Cardinality(Behinds(scene, f, o, f.item)) = MatchesOf(scene, f, o)
      <4> HIDE DEF m, f
      <4>1. f = Top
        BY DEF f
      <4> QED
        BY ONLY <2>1, <2>2, <3>2, <4>1, WalkEnded
    <3> QED
      BY <2>7, <3>1, <3>3
  <2>9. f.ran[o] = MatchesOf(scene, f, o)
    BY <2>4, <2>5, <2>6, <2>7, <2>8
  <2> QED
    BY <2>9 DEF Matches, MatchesOf
<1> QED
  BY <1>1, SceneInvHolds, PTL DEF Spec, EachSceneOnce
=============================================================================
