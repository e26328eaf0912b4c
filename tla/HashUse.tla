------------------------------- MODULE HashUse -------------------------------
(***************************************************************************)
(* One hash table and the code that uses it: insertions, removals and one  *)
(* iteration, during which the table may change, as it does when a scene's *)
(* condition waits and the command line is served meanwhile.               *)
(***************************************************************************)
EXTENDS HashTable, Integers

CONSTANTS
  Keys,     \* the keys in use: CRCs of names, or node and class numbers
  Data,     \* what is stored with them
  MaxSize   \* bound: the size up to which the table may grow

ASSUME TableAssumption ==
  /\ Keys \subseteq 0 .. KeyBound - 1
  /\ NoItem \notin Data \cup [key : 0 .. KeyBound - 1, data : Data]

VARIABLES
  hashTable, \* the hash table
  it,        \* index of the iterator: -1 when new, NoIterator when there is none
  seen,      \* history: the keys the iteration has reached
  stayed,    \* history: the keys that have been there all through the iteration
  grown      \* history: whether the table grew during the iteration

hashVars == <<hashTable, it, seen, stayed, grown>>

NoIterator == -2

HashInit ==
  /\ hashTable = variant_hash_init
  /\ it = NoIterator
  /\ seen = {}
  /\ stayed = {}
  /\ grown = FALSE

Add(k, d) ==
  /\ hashTable' = Insert(hashTable, k, d)
  /\ Size(hashTable') <= MaxSize
  /\ grown' = (it # NoIterator /\ (grown \/ Size(hashTable') # Size(hashTable)))
  /\ UNCHANGED <<it, seen, stayed>>

RemoveKey(k) ==
  /\ hashTable' = Without(hashTable, k)
  /\ stayed' = stayed \cap KeysOf(hashTable')
  /\ UNCHANGED <<it, seen, grown>>

\* variant_hash_begin
BeginIteration ==
  /\ it = NoIterator
  /\ it' = -1
  /\ stayed' = KeysOf(hashTable)
  /\ UNCHANGED <<hashTable, seen, grown>>

\* variant_hash_iterator_next, which finds an item: is_end is false.
NextItem ==
  /\ it # NoIterator
  /\ After(hashTable, it) # {}
  /\ it' = Min(After(hashTable, it))
  /\ seen' = seen \cup {hashTable.node[it'].key}
  /\ UNCHANGED <<hashTable, stayed, grown>>

\* It finds none and is_end is true; the iterator is freed.
EndIteration ==
  /\ it # NoIterator
  /\ After(hashTable, it) = {}
  /\ it' = NoIterator
  /\ seen' = {}
  /\ stayed' = {}
  /\ grown' = FALSE
  /\ UNCHANGED hashTable

HashNext ==
  \/ \E k \in Keys, d \in Data : Add(k, d)
  \/ \E k \in Keys : RemoveKey(k)
  \/ BeginIteration
  \/ NextItem
  \/ EndIteration

HashSpec == HashInit /\ [][HashNext]_hashVars
-----------------------------------------------------------------------------
Contents == INSTANCE KeyedMap WITH content <- [k \in Keys |-> Get(hashTable, k)]

\* Whatever is inserted, replaced and moved by growths, the table is the map its
\* clients take it for (but for removals of absent keys, see KeyedMap).
ImplementsMap == Contents!Map

\* Unless the table grows meanwhile, an iteration reaches every key that was
\* there from its beginning to its end, whatever else comes and goes.
IterationComplete == [][EndIteration /\ ~grown => stayed \subseteq seen]_hashVars

=============================================================================
