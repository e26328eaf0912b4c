---------------------------- MODULE LinkedLists -----------------------------
(***************************************************************************)
(* The two lists of libZaeUtil at the level of their pointers: stack.c and *)
(* vector.c.  A list is its first and last cell and a count; a cell is its *)
(* links, and stands for the value it holds.  Cells are never reused here, *)
(* so that a pointer to a freed one shows.                                 *)
(***************************************************************************)
EXTENDS Integers, SequencesExt

CONSTANT MaxCells   \* bound: cells allocated in a behaviour

ASSUME ListAssumption == MaxCells \in Nat

VARIABLES
  listIs,      \* "stack" or "vector"
  listCells,   \* the cells that are allocated: [next, prev]
  listFirst,   \* head, first
  listLast,    \* tail, last
  listCount,   \* count
  listMade,    \* cells allocated so far
  listHeld,    \* history: the values as a sequence
  listLost,    \* a freed cell, or none at all, was used as one of the list
  listOrphan,  \* history: the first value came first when the one before it was taken out
  listMisused  \* history: what a vector does not stand was asked of it

listVars == <<listIs, listCells, listFirst, listLast, listCount, listMade, listHeld, listLost,
              listOrphan, listMisused>>

NULL == 0
Cell(next, prev) == [next |-> next, prev |-> prev]
Freed(cells, c) == [d \in DOMAIN cells \ {c} |-> cells[d]]
Put(cells, c, cell) == [d \in DOMAIN cells \cup {c} |-> IF d = c THEN cell ELSE cells[d]]

ListInit ==
  /\ listIs \in {"stack", "vector"} /\ listCells = << >> /\ listFirst = NULL /\ listLast = NULL
  /\ listCount = 0 /\ listMade = 0 /\ listHeld = << >> /\ listLost = FALSE
  /\ listOrphan = FALSE /\ listMisused = FALSE

\* The value of a field after a write through a pointer, if it still points to a cell.
Link(cells, c, field, to) == IF c \in DOMAIN cells THEN [cells EXCEPT ![c][field] = to] ELSE cells

-----------------------------------------------------------------------------
\* stack_push_back leaves the old tail in prev even when the list is empty, and
\* vector_push_back NULL.
PushBack ==
  LET new == listMade + 1
      linked == Link(listCells, listLast, "next", new)
  IN /\ listMade < MaxCells /\ ~listLost /\ listMade' = new
     /\ listCells' = IF listCount = 0
                     THEN Put(listCells, new, Cell(NULL, IF listIs = "stack" THEN listLast ELSE NULL))
                     ELSE Put(linked, new, Cell(NULL, listLast))
     /\ listFirst' = IF listCount = 0 THEN new ELSE listFirst
     /\ listLast' = new /\ listCount' = listCount + 1
     /\ listHeld' = Append(listHeld, new)
     /\ listOrphan' = (listCount > 0 /\ listOrphan)
     /\ UNCHANGED <<listIs, listLost, listMisused>>

PushFront ==
  LET new == listMade + 1
  IN /\ listMade < MaxCells /\ ~listLost /\ listMade' = new
     /\ listCells' = Put(Link(listCells, listFirst, "prev", new), new,
                         Cell(IF listCount = 0 THEN NULL ELSE listFirst, NULL))
     /\ listFirst' = new
     /\ listLast' = IF listCount = 0 THEN new ELSE listLast
     /\ listCount' = listCount + 1
     /\ listHeld' = <<new>> \o listHeld /\ listOrphan' = FALSE
     /\ UNCHANGED <<listIs, listLost, listMisused>>

\* stack_pop_front and vector_pop_front; the second leaves prev of the new first cell as
\* it is.
PoppedFront ==
  LET next == listCells[listFirst].next
      freed == Freed(listCells, listFirst)
  IN /\ listCells' = IF listIs = "stack" THEN Link(freed, next, "prev", NULL) ELSE freed
     /\ listFirst' = next
     /\ listLast' = IF listCount = 1 THEN next ELSE listLast

PopFront ==
  /\ ~listLost /\ listCount > 0 /\ PoppedFront
  /\ listCount' = listCount - 1 /\ listHeld' = Tail(listHeld) /\ listOrphan' = TRUE
  /\ UNCHANGED <<listIs, listMade, listLost, listMisused>>

PoppedBack_KeepsNext ==
  LET prev == listCells[listLast].prev
  IN /\ listCells' = Freed(listCells, listLast) /\ listLast' = prev
     /\ listFirst' = IF listCount = 1 THEN prev ELSE listFirst

PoppedBack ==
  LET prev == IF listCount = 1 /\ listIs = "stack" THEN NULL ELSE listCells[listLast].prev
      freed == Freed(listCells, listLast)
  IN /\ listCells' = IF listCount = 1 THEN freed ELSE Link(freed, prev, "next", NULL)
     /\ listLast' = prev
     /\ listFirst' = IF listCount = 1 THEN prev ELSE listFirst

PopBack ==
  /\ ~listLost /\ listCount > 0 /\ PoppedBack
  /\ listCount' = listCount - 1 /\ listHeld' = Front(listHeld)
  /\ UNCHANGED <<listIs, listMade, listLost, listOrphan, listMisused>>

\* stack_remove of a value that is in the list: a head is unlinked and not freed.
StackRemoved(c) ==
  LET before == CHOOSE d \in ToSet(listHeld) : listCells[d].next = c
      next == listCells[c].next
  IN IF c = listFirst
     THEN /\ listFirst' = next /\ listLast' = listLast
          /\ listCells' = Link(listCells, next, "prev", NULL)
     ELSE /\ listFirst' = listFirst
          /\ listCells' = Link(Link(Freed(listCells, c), before, "next", next), next, "prev", before)
          /\ listLast' = IF next = NULL THEN before ELSE listLast

\* vector_remove and vector_remove_at take a cell with both links for one in the middle.
VectorRemoved(c) ==
  LET cell == listCells[c]
  IN IF cell.next # NULL /\ cell.prev # NULL
     THEN /\ listCells' = Link(Link(Freed(listCells, c), cell.prev, "next", cell.next),
                               cell.next, "prev", cell.prev)
          /\ UNCHANGED <<listFirst, listLast>>
     ELSE IF cell.next = NULL THEN PoppedBack ELSE PoppedFront

RemoveValue(c) ==
  /\ ~listLost
  /\ IF listIs = "stack" THEN StackRemoved(c) ELSE VectorRemoved(c)
  /\ listCount' = listCount - 1 /\ listHeld' = RemoveFirst(listHeld, c)
  /\ listLost' = (listIs = "vector" /\ listCells[c].next # NULL /\ listCells[c].prev # NULL
                    /\ listCells[c].prev \notin DOMAIN listCells)
  /\ listOrphan' = (listOrphan \/ c = listHeld[1])
  /\ listMisused' = (listIs = "vector" /\ listOrphan /\ c = listHeld[1] /\ listHeld # <<c>>)
  /\ UNCHANGED <<listIs, listMade>>

\* A value that is not in the list: stack_remove walks to the end, vector_remove over it.
RemoveMissing ==
  /\ ~listLost /\ listCount > 0 /\ listLost' = (listIs = "vector") /\ listMisused' = (listIs = "vector")
  /\ UNCHANGED <<listIs, listCells, listFirst, listLast, listCount, listMade, listHeld, listOrphan>>

ListNext ==
  PushBack \/ PushFront \/ PopFront \/ PopBack \/ RemoveMissing \/ \E c \in ToSet(listHeld) : RemoveValue(c)

ListSpec == ListInit /\ [][ListNext]_listVars

-----------------------------------------------------------------------------
\* Both lists are the sequences they stand for, after any mixture of pushes, pops and
\* removals but two: the cells from the first along next are the values in their order, the
\* last one closes the list, and prev undoes next behind the first.  The two are a vector's:
\* the removal of a value it does not hold, and that of the first of several values which
\* came first itself when the one before it was popped or removed.  With these the list is
\* always lost, for vector_pop_front leaves prev of the new first cell as it was.
ListsAreSequences ==
  IF listMisused THEN listLost
  ELSE /\ ~listLost /\ listCount = Len(listHeld) /\ ToSet(listHeld) \subseteq DOMAIN listCells
       /\ listCount > 0 => /\ listFirst = listHeld[1] /\ listLast = Last(listHeld)
                           /\ listCells[listLast].next = NULL
       /\ \A i \in 1 .. listCount - 1 : /\ listCells[listHeld[i]].next = listHeld[i + 1]
                                        /\ listCells[listHeld[i + 1]].prev = listHeld[i]
=============================================================================
