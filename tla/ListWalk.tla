------------------------------ MODULE ListWalk ------------------------------
(***************************************************************************)
(* The loop of stack.h over a list that the loop itself shortens.          *)
(* stack_for_each counts the elements it has passed against the length the *)
(* list has by then, and takes the next element from the one it stands on, *)
(* removed or not: stack_remove frees every element but the first.         *)
(***************************************************************************)
EXTENDS Integers, SequencesExt

\* Where x stands in s.
Positions(s, x) == {i \in DOMAIN s : s[i] = x}

\* The elements that a loop reaches when it removes those at the positions in gone.
Reached(s, gone) ==
  Min({k \in 0 .. Len(s) : k >= Len(s) - Cardinality({i \in gone : i <= k})})

\* The elements of s at the positions in kept, in their order.
Picked(s, kept) ==
  LET Rank(i) == Cardinality({j \in kept : j <= i})
  IN [k \in 1 .. Cardinality(kept) |-> s[CHOOSE i \in kept : Rank(i) = k]]

\* What such a loop leaves, when the memory it walks on through is still as it was.
Purged(s, gone) == Picked(s, {i \in DOMAIN s : i > Reached(s, gone) \/ i \notin gone})

\* The loop goes on from an element that has been freed.
WalksFreed(s, gone) ==
  \E i \in gone : i <= Reached(s, gone) /\ \E j \in 1 .. i - 1 : j \notin gone

\* The list without the first of its elements at hits, and the first of them.
WithoutFirst(s, hits) == IF hits = {} THEN s ELSE RemoveAt(s, Min(hits))
FirstOf(s, hits) == IF hits = {} THEN {} ELSE {s[Min(hits)]}
=============================================================================
