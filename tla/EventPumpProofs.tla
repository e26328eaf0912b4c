--------------------------- MODULE EventPumpProofs ---------------------------
(***************************************************************************)
(* Proofs about EventPump, for every number of events, registrations and   *)
(* slots and, where nothing else is said, for polls nested to any depth.   *)
(* Then that EventPump implements EventBus, as long as handlers do not run *)
(* the dispatcher again; and what EventDispatcher and its waits do to the  *)
(* pump, and how a wait that is alone ends.                                *)
(***************************************************************************)
EXTENDS EventDispatcher, FiniteSetTheorems, SequenceTheorems, WellFoundedInduction, TLAPS

USE SizesAssumption, IdsAssumption DEF SizesAssumption, IdsAssumption

\* The slots below next_slot of either buffer hold events that were accepted,
\* each one once, and a slot is marked exactly when its event was taken.
Live(q, s) == s <= next[q]

SlotsHoldAccepted ==
  \A q \in Queues, s \in Slots :
    Live(q, s) => /\ slot[q][s].data \in accepted
                  /\ slot[q][s].processing <=> slot[q][s].data \in taken

SlotsDistinct ==
  \A q, p \in Queues, s, t \in Slots :
    /\ Live(q, s)
    /\ Live(p, t)
    /\ slot[q][s].data = slot[p][t].data
    => q = p /\ s = t

Numbered == accepted \subseteq 1 .. posted /\ taken \subseteq accepted

IInv == TypeOK /\ SlotsHoldAccepted /\ SlotsDistinct /\ Numbered

\* What First answers: 0 or a member of the set.
LEMMA FirstType ==
  ASSUME NEW S \in SUBSET Rids
  PROVE  First(S) \in {0} \cup S
  BY DEF First, Firsts

\* The walk over a handler list stays in the table of registrations.
LEMMA SuccessorType ==
  ASSUME NEW id, NEW r \in 0 .. MaxRegs
  PROVE  Successors(id, r) \subseteq 0 .. MaxRegs
<1> DEFINE later == {s \in ListOf(id) : s > r}
<1>1. ListOf(id) \subseteq Rids /\ later \subseteq Rids
  BY DEF ListOf
<1>2. First(later) \in {0} \cup later
  BY <1>1, FirstType
<1>3. First(later) \in 0 .. MaxRegs
  <2>1. CASE First(later) = 0
    BY <2>1
  <2>2. CASE First(later) \in later
    BY <1>1, <2>2 DEF Rids
  <2> QED
    BY <1>2, <2>1, <2>2
<1> QED
  BY <1>1, <1>3 DEF Successors, Rids

LEMMA InitInv == Init => IInv
<1> SUFFICES ASSUME Init PROVE IInv
  OBVIOUS
<1>1. TypeOK
  BY DEF Init, TypeOK, EmptyEntry, NewFrame, InitReg, Entry, Frame, Registration,
         Queues, Slots, Events, Rids
<1>2. SlotsHoldAccepted /\ SlotsDistinct /\ Numbered
  BY DEF Init, SlotsHoldAccepted, SlotsDistinct, Numbered, Live, Slots, Queues
<1> QED
  BY <1>1, <1>2 DEF IInv

-----------------------------------------------------------------------------
\* The parts of the invariant that speak of slots depend on these variables.
slotVars == <<slot, next, posted, accepted, taken>>

LEMMA SlotsUntouched ==
  ASSUME IInv, UNCHANGED slotVars
  PROVE  SlotsHoldAccepted' /\ SlotsDistinct' /\ Numbered'
  BY DEF IInv, slotVars, SlotsHoldAccepted, SlotsDistinct, Numbered, Live

LEMMA TopType ==
  ASSUME TypeOK, depth > 0
  PROVE  depth \in 1 .. MaxDepth /\ Top \in Frame
  BY DEF TypeOK, Top

LEMMA StateType ==
  ASSUME NEW R \in Registration, NEW state \in {"listed", "flagged", "freed"}
  PROVE  [R EXCEPT !.state = state] \in Registration
  BY DEF Registration

\* Counting one more call or release keeps a counter's type.
LEMMA BumpType ==
  ASSUME NEW f \in [Events -> Nat], NEW d
  PROVE  [f EXCEPT ![d] = @ + 1] \in [Events -> Nat]
<1>1. CASE d \in Events
  BY <1>1
<1>2. CASE d \notin Events
  BY <1>2
<1> QED
  BY <1>1, <1>2

LEMMA WalkOnType ==
  ASSUME TypeOK, depth > 0, WalkOn
  PROVE  frame' \in [1 .. MaxDepth -> Frame]
<1>1. depth \in 1 .. MaxDepth /\ Top \in Frame
  BY TopType
<1>2. PICK item \in Successors(Top.list, Top.item) :
        frame' = [frame EXCEPT ![depth] =
                    [at |-> "call", i |-> Top.i, q |-> Top.q, e |-> Top.e,
                     list |-> Top.list, item |-> item, n |-> Top.n + 1]]
  BY DEF WalkOn
<1>3. item \in 0 .. MaxRegs
  BY <1>1, SuccessorType DEF Frame
<1>4. [at |-> "call", i |-> Top.i, q |-> Top.q, e |-> Top.e,
       list |-> Top.list, item |-> item, n |-> Top.n + 1] \in Frame
  BY <1>1, <1>3 DEF Frame
<1> QED
  BY <1>1, <1>2, <1>4 DEF TypeOK

LEMMA NextSlotType ==
  ASSUME TypeOK, depth > 0
  PROVE  NextSlot \in Frame /\ NewFrame \in Frame
<1>1. NewFrame \in Frame
  BY DEF NewFrame, Frame, Queues, Slots
<1>2. Top.i + 1 \in Nat \ {0}
  BY TopType DEF Frame
<1> QED
  BY <1>1, <1>2 DEF NextSlot, Frame

LEMMA SendEventInv ==
  ASSUME IInv, NEW id \in EventIds, SendEvent(id)
  PROVE  IInv'
<1> USE DEF Queues, Slots
<1>1. pend \in Queues /\ posted + 1 \in Events /\ posted \in Nat
  BY DEF IInv, TypeOK, pend, SendEvent, Events
<1>2. CASE ~HasRoom
  <2>1. TypeOK'
    <3>1. posted' \in 0 .. MaxEvents
      BY <1>1 DEF SendEvent, Events
    <3>2. UNCHANGED <<slot, next, accepted, cur, reg, nregs, known, frame, depth,
                      taken, calls, frees>>
      BY <1>2 DEF SendEvent
    <3> QED
      BY <3>1, <3>2 DEF IInv, TypeOK
  <2>2. SlotsHoldAccepted' /\ SlotsDistinct'
    BY <1>2 DEF IInv, SendEvent, SlotsHoldAccepted, SlotsDistinct, Live
  <2>3. Numbered'
    BY <1>1, <1>2 DEF IInv, SendEvent, Numbered
  <2> QED
    BY <2>1, <2>2, <2>3 DEF IInv
<1>3. CASE HasRoom
  <2> DEFINE new == [id |-> id, data |-> posted + 1, processing |-> FALSE]
             fresh == next[pend] + 1
  <2>1. fresh \in Slots /\ next[pend] \in Nat /\ new \in Entry
    BY <1>1, <1>3 DEF IInv, TypeOK, HasRoom, Entry, Events
  <2>2. /\ slot' = [slot EXCEPT ![pend][fresh] = new]
        /\ next' = [next EXCEPT ![pend] = fresh]
        /\ accepted' = accepted \cup {posted + 1}
        /\ posted' = posted + 1
        /\ taken' = taken
    BY <1>3 DEF SendEvent
  <2>3. /\ slot \in [Queues -> [Slots -> Entry]]
        /\ next \in [Queues -> 0 .. MaxQueueSize]
        /\ accepted \subseteq 1 .. posted
        /\ taken \subseteq accepted
    BY DEF IInv, TypeOK, Numbered
  <2>4. TypeOK'
    <3>1. slot' \in [Queues -> [Slots -> Entry]]
      BY <1>1, <2>1, <2>2, <2>3
    <3>2. next' \in [Queues -> 0 .. MaxQueueSize]
      <4>1. fresh \in 0 .. MaxQueueSize
        BY <2>1 DEF Slots
      <4> QED
        BY <1>1, <2>2, <2>3, <4>1
    <3>3. posted' \in 0 .. MaxEvents /\ accepted' \in SUBSET Events
      BY <1>1, <2>2, SizesAssumption DEF IInv, TypeOK, SendEvent, Events
    <3>4. UNCHANGED <<cur, reg, nregs, known, frame, depth, taken, calls, frees>>
      BY DEF SendEvent
    <3> HIDE DEF fresh
    <3> QED
      BY <3>1, <3>2, <3>3, <3>4 DEF IInv, TypeOK
  <2>5. \A q \in Queues, s \in Slots :
          Live(q, s)' => \/ Live(q, s) /\ slot'[q][s] = slot[q][s]
                         \/ q = pend /\ s = fresh /\ slot'[q][s] = new
    BY <1>1, <2>1, <2>2, <2>3 DEF Live
  <2>6. posted + 1 \notin accepted /\ posted + 1 \notin taken
    BY <1>1, <2>3
  <2> HIDE DEF fresh
  <2>7. SlotsHoldAccepted'
    BY <2>2, <2>5, <2>6 DEF IInv, SlotsHoldAccepted
  <2>8. SlotsDistinct'
    BY <2>2, <2>5, <2>6 DEF IInv, SlotsDistinct, SlotsHoldAccepted
  <2>9. Numbered'
    BY <1>1, <2>2, <2>3 DEF Numbered
  <2> QED
    BY <2>4, <2>7, <2>8, <2>9 DEF IInv
<1> QED
  BY <1>2, <1>3

LEMMA TakeEventInv ==
  ASSUME IInv, TakeEvent
  PROVE  IInv' /\ slot[cur][Top.i].data \notin taken
<1> DEFINE i == Top.i
           e == slot[cur][i]
<1>1. /\ depth \in 1 .. MaxDepth
      /\ Top \in Frame
      /\ TypeOK
      /\ depth > 0
  BY TopType DEF IInv, TakeEvent, Scanning
<1>2. cur \in Queues /\ i \in Slots /\ Live(cur, i) /\ e \in Entry
  <2>1. i <= next[cur]
    BY DEF TakeEvent
  <2>2. cur \in Queues /\ next[cur] \in 0 .. MaxQueueSize /\ i \in Nat \ {0}
    BY <1>1 DEF TypeOK, Frame
  <2>3. i \in Slots
    BY <2>1, <2>2 DEF Slots
  <2> QED
    BY <1>1, <2>1, <2>2, <2>3 DEF TypeOK, Live
<1>3. e.data \in accepted /\ e.data \notin taken
  BY <1>2 DEF IInv, SlotsHoldAccepted, TakeEvent, Marked
<1>4. /\ slot' = [slot EXCEPT ![cur][i].processing = TRUE]
      /\ taken' = taken \cup {e.data}
      /\ UNCHANGED <<next, cur, accepted, posted>>
  BY DEF TakeEvent
<1> DEFINE marked == [e EXCEPT !.processing = TRUE]
<1>5. marked \in Entry /\ marked.data = e.data /\ marked.processing = TRUE
  BY <1>2 DEF Entry
<1>6. /\ slot \in [Queues -> [Slots -> Entry]]
      /\ slot' = [slot EXCEPT ![cur] = [slot[cur] EXCEPT ![i] = marked]]
  BY <1>1, <1>2, <1>4 DEF TypeOK
<1> HIDE DEF marked, i, e
<1>7. slot' \in [Queues -> [Slots -> Entry]]
  BY <1>2, <1>5, <1>6
<1>8. \A q \in Queues, s \in Slots :
        slot'[q][s] = IF q = cur /\ s = i THEN marked ELSE slot[q][s]
  BY <1>2, <1>6
<1> USE DEF i, e
<1>9. frame' \in [1 .. MaxDepth -> Frame]
  <2>1. CASE e.id \in known
    <3>1. First(ListOf(e.id)) \in 0 .. MaxRegs
      BY FirstType DEF ListOf, Rids
    <3>2. e.id \in EventIds
      BY <1>1, <2>1 DEF TypeOK
    <3>3. [at |-> "call", i |-> i, q |-> cur, e |-> i, list |-> e.id,
           item |-> First(ListOf(e.id)), n |-> 0] \in Frame
      BY <1>1, <1>2, <3>1, <3>2 DEF Frame
    <3> QED
      BY <1>1, <2>1, <3>3 DEF TakeEvent, TypeOK
  <2>2. CASE e.id \notin known
    <3> QED
      BY <1>1, <2>2, NextSlotType DEF TakeEvent, TypeOK
  <2> QED
    BY <2>1, <2>2
<1>10. TypeOK'
  <2>1. taken' \in SUBSET Events
    BY <1>1, <1>3, <1>4 DEF TypeOK
  <2> QED
    BY <1>1, <1>7, <1>9, <2>1 DEF TypeOK, TakeEvent
<1>11. \A q, s : Live(q, s)' = Live(q, s)
  BY <1>4 DEF Live
<1> HIDE DEF i, e
<1>12. SlotsDistinct'
  BY <1>5, <1>8, <1>11 DEF IInv, SlotsDistinct, e
<1>13. \A q \in Queues, s \in Slots :
         Live(q, s) /\ slot[q][s].data = e.data => q = cur /\ s = i
  BY <1>2 DEF IInv, SlotsDistinct, e
<1>14. SlotsHoldAccepted'
  BY <1>3, <1>4, <1>5, <1>8, <1>11, <1>13 DEF IInv, SlotsHoldAccepted, e
<1>15. Numbered'
  BY <1>3, <1>4 DEF IInv, Numbered
<1> QED
  BY <1>3, <1>10, <1>12, <1>14, <1>15 DEF IInv, e, i

LEMMA PollEndInv ==
  ASSUME IInv, PollEnd
  PROVE  IInv'
<1>1. /\ TypeOK
      /\ depth \in 1 .. MaxDepth
      /\ cur \in Queues
      /\ next \in [Queues -> 0 .. MaxQueueSize]
      /\ UNCHANGED <<slot, posted, accepted, taken>>
  BY DEF IInv, TypeOK, PollEnd, Scanning, histVars
<1>2. next' = [next EXCEPT ![cur] = 0]
  BY DEF PollEnd, Emptied
<1>3. next' \in [Queues -> 0 .. MaxQueueSize] /\ cur' \in Queues
  BY <1>1, <1>2 DEF PollEnd, Swapped, pend, Queues
<1>4. frame' \in [1 .. MaxDepth -> Frame] /\ depth' \in 0 .. MaxDepth
  BY <1>1, NextSlotType DEF TypeOK, PollEnd
<1>5. TypeOK'
  BY <1>1, <1>3, <1>4 DEF TypeOK, PollEnd, histVars
<1>6. \A q \in Queues, s \in Slots : Live(q, s)' => Live(q, s)
  BY <1>1, <1>2 DEF Live, Slots
<1>7. SlotsHoldAccepted' /\ SlotsDistinct' /\ Numbered'
  BY <1>1, <1>6 DEF IInv, SlotsHoldAccepted, SlotsDistinct, Numbered
<1> QED
  BY <1>5, <1>7 DEF IInv

\* The other actions leave the buffers alone.
LEMMA ClientInv ==
  ASSUME IInv, NEW id \in EventIds, NEW key \in Keys,
         Register(id, key) \/ Unregister(id, key)
  PROVE  IInv'
<1>1. TypeOK /\ UNCHANGED slotVars
  BY DEF IInv, Register, Unregister, histVars, slotVars
<1>2. nregs' \in 0 .. MaxRegs /\ known' \in SUBSET EventIds
  BY <1>1 DEF TypeOK, Register, Unregister
<1>3. reg' \in [Rids -> Registration]
  <2>1. CASE Register(id, key)
    BY <1>1, <2>1 DEF TypeOK, Register, Registration
  <2>2. CASE Unregister(id, key)
    <3> DEFINE first == First({r \in ListOf(id) : reg[r].key = key})
    <3>1. reg' = [reg EXCEPT ![first] = [@ EXCEPT !.state = "flagged"]]
      BY <2>2 DEF Unregister
    <3>2. \A r \in Rids : [reg[r] EXCEPT !.state = "flagged"] \in Registration
      BY <1>1, StateType DEF TypeOK
    <3> HIDE DEF first
    <3> QED
      BY <1>1, <3>1, <3>2 DEF TypeOK
  <2> QED
    BY <2>1, <2>2
<1>4. TypeOK'
  BY <1>1, <1>2, <1>3 DEF TypeOK, Register, Unregister, histVars
<1> QED
  BY <1>1, <1>4, SlotsUntouched DEF IInv

LEMMA PurgedType ==
  ASSUME TypeOK, NEW id
  PROVE  Purged(id) \in [Rids -> Registration]
<1>1. \A r \in Rids : [reg[r] EXCEPT !.state = "freed"] \in Registration
  BY StateType DEF TypeOK
<1> QED
  BY <1>1 DEF TypeOK, Purged

LEMMA WalkInv ==
  ASSUME IInv,
         \/ PollBegin
         \/ SkipProcessing
         \/ CallHandler
         \/ SkipFlagged
         \/ HandlerReturns
         \/ FinishEvent
  PROVE  IInv'
<1>1. TypeOK /\ UNCHANGED slotVars
  BY DEF IInv, PollBegin, SkipProcessing, CallHandler, SkipFlagged, HandlerReturns,
         FinishEvent, histVars, slotVars
<1>2. CASE PollBegin
  <2>1. depth' \in 0 .. MaxDepth /\ depth + 1 \in 1 .. MaxDepth
    BY <1>1, <1>2 DEF TypeOK, PollBegin
  <2>2. NewFrame \in Frame
    BY DEF NewFrame, Frame, Queues, Slots
  <2> QED
    BY <1>1, <1>2, <2>1, <2>2, SlotsUntouched DEF IInv, TypeOK, PollBegin, histVars
<1>3. CASE SkipProcessing
  <2>1. frame' \in [1 .. MaxDepth -> Frame]
    BY <1>1, <1>3, NextSlotType DEF TypeOK, SkipProcessing, Scanning
  <2> QED
    BY <1>1, <1>3, <2>1, SlotsUntouched DEF IInv, TypeOK, SkipProcessing, histVars
<1>4. CASE CallHandler
  <2>1. [Top EXCEPT !.at = "handler"] \in Frame /\ depth \in 1 .. MaxDepth
    BY <1>1, <1>4, TopType DEF Frame, CallHandler, Walking
  <2>2. frame' \in [1 .. MaxDepth -> Frame]
    BY <1>1, <1>4, <2>1 DEF TypeOK, CallHandler, Top
  <2>3. calls' \in [Rids -> [Events -> Nat]]
    <3> DEFINE d == TopEntry.data
               r == Top.item
    <3>1. calls' = [calls EXCEPT ![r] = [calls[r] EXCEPT ![d] = calls[r][d] + 1]]
      BY <1>4 DEF CallHandler
    <3>2. calls \in [Rids -> [Events -> Nat]]
      BY <1>1 DEF TypeOK
    <3> HIDE DEF d, r
    <3>3. r \in Rids => [calls[r] EXCEPT ![d] = calls[r][d] + 1] \in [Events -> Nat]
      BY <3>2, BumpType
    <3> QED
      BY <3>1, <3>2, <3>3
  <2> QED
    BY <1>1, <1>4, <2>2, <2>3, SlotsUntouched DEF IInv, TypeOK, CallHandler
<1>5. CASE SkipFlagged
  <2>1. frame' \in [1 .. MaxDepth -> Frame]
    BY <1>1, <1>5, WalkOnType DEF SkipFlagged, Walking
  <2> QED
    BY <1>1, <1>5, <2>1, SlotsUntouched DEF IInv, TypeOK, SkipFlagged, histVars
<1>6. CASE HandlerReturns
  <2>1. frame' \in [1 .. MaxDepth -> Frame]
    BY <1>1, <1>6, WalkOnType DEF HandlerReturns
  <2> QED
    BY <1>1, <1>6, <2>1, SlotsUntouched DEF IInv, TypeOK, HandlerReturns, histVars
<1>7. CASE FinishEvent
  <2>1. frame' \in [1 .. MaxDepth -> Frame]
    BY <1>1, <1>7, NextSlotType DEF TypeOK, FinishEvent, Walking
  <2>2. frees' \in [Events -> Nat]
    BY <1>1, <1>7, BumpType DEF TypeOK, FinishEvent, Released
  <2>3. reg' \in [Rids -> Registration]
    BY <1>1, <1>7, PurgedType DEF FinishEvent
  <2> QED
    BY <1>1, <1>7, <2>1, <2>2, <2>3, SlotsUntouched DEF IInv, TypeOK, FinishEvent
<1> QED
  BY <1>2, <1>3, <1>4, <1>5, <1>6, <1>7

\* IInv is inductive.
LEMMA NextInv == IInv /\ [Next]_vars => IInv'
<1> SUFFICES ASSUME IInv, [Next]_vars PROVE IInv'
  OBVIOUS
<1>1. ASSUME NEW id \in EventIds, SendEvent(id) PROVE IInv'
  BY <1>1, SendEventInv
<1>2. ASSUME NEW id \in EventIds, NEW key \in Keys,
             Register(id, key) \/ Unregister(id, key)
      PROVE  IInv'
  BY <1>2, ClientInv
<1>3. CASE PollStep
  BY <1>3, WalkInv, TakeEventInv, PollEndInv DEF PollStep
<1>4. CASE UNCHANGED vars
  <2>1. TypeOK'
    BY <1>4 DEF IInv, TypeOK, vars, pumpVars, histVars
  <2> QED
    BY <1>4, <2>1, SlotsUntouched DEF IInv, vars, pumpVars, histVars, slotVars
<1> QED
  BY <1>1, <1>2, <1>3, <1>4 DEF Next

THEOREM Invariance == Spec => []IInv
  BY InitInv, NextInv, PTL DEF Spec

\* Every variable keeps its type, next_slot included, for buffers of any size and
\* polls nested to any depth.
THEOREM TypeCorrect == Spec => []TypeOK
<1>1. IInv => TypeOK
  BY DEF IInv
<1> QED
  BY <1>1, Invariance, PTL

\* No event's processing begins twice, to whatever depth handlers run the
\* dispatcher again.
THEOREM NoEventTakenTwice == Spec => TakenAtMostOnce
<1>1. IInv /\ [Next]_vars => [TakeEvent => slot[cur][Top.i].data \notin taken]_vars
  BY TakeEventInv
<1> QED
  BY <1>1, Invariance, PTL DEF Spec, TakenAtMostOnce

-----------------------------------------------------------------------------
\* One poll at a time: every slot the scan has passed is marked.
PassedMarked ==
  depth = 1 =>
    \A s \in Slots :
      s < Top.i \/ (s = Top.i /\ Top.at # "scan") => slot[cur][s].processing

KeptInv == PassedMarked /\ NoEventLost

\* How a step that leaves the buffers alone may move the innermost frame.
Entered  == Top'.i = 1 /\ Top'.at = "scan"
Same     == depth = 1 /\ Top'.i = Top.i /\ Top'.at = Top.at
Walked   == depth = 1 /\ Top'.i = Top.i /\ Top.at # "scan"
Finished == depth = 1 /\ Top'.i = Top.i + 1 /\ Top'.at = "scan" /\ Top.at # "scan"

LEMMA KeptQuiet ==
  ASSUME IInv, KeptInv, UNCHANGED slotVars, UNCHANGED cur,
         depth' = 1 => Entered \/ Same \/ Walked \/ Finished
  PROVE  KeptInv'
<1>1. NoEventLost'
  BY DEF KeptInv, NoEventLost, Waiting, slotVars
<1>2. PassedMarked'
  <2> SUFFICES ASSUME depth' = 1, NEW s \in Slots,
                      s < Top'.i \/ (s = Top'.i /\ Top'.at # "scan")
               PROVE  slot'[cur'][s].processing
    BY DEF PassedMarked
  <2>1. slot' = slot /\ cur' = cur
    BY DEF slotVars
  <2>2. CASE Entered
    BY <2>2 DEF Slots, Entered
  <2>3. CASE Same \/ Walked
    BY <2>1, <2>3 DEF KeptInv, PassedMarked, Same, Walked
  <2>4. CASE Finished
    <3>1. Top.i \in Nat
      BY <2>4, TopType DEF IInv, Frame, Finished
    <3>2. s < Top.i \/ s = Top.i
      BY <2>4, <3>1 DEF Slots, Finished
    <3> QED
      BY <2>1, <2>4, <3>2 DEF KeptInv, PassedMarked, Finished
  <2> QED
    BY <2>2, <2>3, <2>4
<1> QED
  BY <1>1, <1>2 DEF KeptInv

LEMMA KeptNext ==
  ASSUME MaxDepth = 1, IInv, IInv', KeptInv, [Next]_vars
  PROVE  KeptInv'
<1> USE DEF Queues
<1>1. TypeOK /\ depth \in {0, 1} /\ depth' \in {0, 1}
  BY DEF IInv, TypeOK
<1>2. ASSUME NEW id \in EventIds, SendEvent(id) PROVE KeptInv'
  <2>1. /\ slot \in [Queues -> [Slots -> Entry]]
        /\ next \in [Queues -> 0 .. MaxQueueSize]
        /\ pend \in Queues /\ cur \in Queues /\ pend # cur
        /\ UNCHANGED <<cur, frame, depth, taken>>
    BY <1>1, <1>2 DEF TypeOK, pend, SendEvent
  <2>2. CASE ~HasRoom
    BY <1>2, <2>1, <2>2 DEF SendEvent, KeptInv, NoEventLost, Waiting, PassedMarked, Top
  <2>3. CASE HasRoom
    <3> DEFINE fresh == next[pend] + 1
               new == [id |-> id, data |-> posted + 1, processing |-> FALSE]
    <3>1. fresh \in Slots /\ next[pend] \in Nat
      BY <2>1, <2>3 DEF HasRoom, Slots
    <3>2. /\ slot' = [slot EXCEPT ![pend] = [slot[pend] EXCEPT ![fresh] = new]]
          /\ next' = [next EXCEPT ![pend] = fresh]
          /\ accepted' = accepted \cup {posted + 1}
      BY <1>2, <2>3 DEF SendEvent
    <3> HIDE DEF new
    <3>3. \A q \in Queues, s \in Slots :
            slot'[q][s] = IF q = pend /\ s = fresh THEN new ELSE slot[q][s]
      BY <2>1, <3>1, <3>2
    <3>4. \A q \in Queues, s \in Slots : s <= next[q] =>
            s <= next'[q] /\ slot'[q][s] = slot[q][s]
      BY <2>1, <3>1, <3>2, <3>3 DEF Slots
    <3>5. fresh <= next'[pend] /\ slot'[pend][fresh] = new
      BY <2>1, <3>1, <3>2, <3>3
    <3>6. new.data = posted + 1 /\ ~new.processing
      BY DEF new
    <3> HIDE DEF fresh
    <3>7. NoEventLost'
      BY <2>1, <3>1, <3>2, <3>4, <3>5, <3>6 DEF KeptInv, NoEventLost, Waiting
    <3>8. \A s \in Slots : slot'[cur][s] = slot[cur][s]
      BY <2>1, <3>3
    <3>9. PassedMarked'
      BY <2>1, <3>8 DEF KeptInv, PassedMarked, Top
    <3> QED
      BY <3>7, <3>9 DEF KeptInv
  <2> QED
    BY <2>2, <2>3
<1>3. ASSUME NEW id \in EventIds, NEW key \in Keys,
             Register(id, key) \/ Unregister(id, key)
      PROVE  KeptInv'
  <2>1. UNCHANGED <<frame, depth, cur>> /\ UNCHANGED slotVars
    BY <1>3 DEF Register, Unregister, histVars, slotVars
  <2>2. depth' = 1 => Same
    BY <2>1 DEF Same, Top
  <2> QED
    BY <2>1, <2>2, KeptQuiet
<1>4. CASE UNCHANGED vars
  <2>1. UNCHANGED <<frame, depth, cur>> /\ UNCHANGED slotVars
    BY <1>4 DEF vars, pumpVars, histVars, slotVars
  <2>2. depth' = 1 => Same
    BY <2>1 DEF Same, Top
  <2> QED
    BY <2>1, <2>2, KeptQuiet
<1>5. CASE PollBegin
  <2>1. UNCHANGED cur /\ UNCHANGED slotVars
    BY <1>5 DEF PollBegin, histVars, slotVars
  <2>2. Top' = NewFrame
    BY <1>1, <1>5 DEF PollBegin, TypeOK, Top
  <2> QED
    BY <2>1, <2>2, KeptQuiet DEF Entered, NewFrame
<1>6. CASE CallHandler \/ SkipFlagged \/ HandlerReturns
  <2>1. UNCHANGED <<cur, depth>> /\ UNCHANGED slotVars /\ depth = 1
    BY <1>1, <1>6 DEF CallHandler, SkipFlagged, HandlerReturns, Walking, histVars, slotVars
  <2>2. Top.at # "scan"
    BY <1>6 DEF CallHandler, SkipFlagged, HandlerReturns, Walking
  <2>3. Top'.i = Top.i
    <3>1. CASE CallHandler
      BY <1>1, <2>1, <3>1 DEF CallHandler, Top, TypeOK, Frame
    <3>2. CASE WalkOn
      BY <1>1, <2>1, <3>2 DEF WalkOn, Top, TypeOK
    <3> QED
      BY <1>6, <3>1, <3>2 DEF SkipFlagged, HandlerReturns
  <2> QED
    BY <2>1, <2>2, <2>3, KeptQuiet DEF Walked
<1>7. CASE FinishEvent
  <2>1. UNCHANGED <<cur, depth>> /\ UNCHANGED slotVars /\ depth = 1 /\ Top.at = "call"
    BY <1>1, <1>7 DEF FinishEvent, Walking, slotVars
  <2>2. Top' = NextSlot
    BY <1>1, <1>7, <2>1 DEF FinishEvent, TypeOK, Top
  <2> QED
    BY <2>1, <2>2, KeptQuiet DEF Finished, NextSlot, NewFrame
<1>8. CASE SkipProcessing
  <2>1. UNCHANGED <<cur, depth>> /\ UNCHANGED slotVars /\ depth = 1 /\ slot' = slot
    BY <1>1, <1>8 DEF SkipProcessing, Scanning, histVars, slotVars
  <2>2. Top' = NextSlot /\ Top.i \in Nat
    BY <1>1, <1>8, <2>1, TopType DEF SkipProcessing, TypeOK, Top, Frame
  <2>3. NoEventLost'
    BY <2>1 DEF KeptInv, NoEventLost, Waiting, slotVars
  <2>4. \A s \in Slots : s < Top.i + 1 => slot[cur][s].processing
    BY <1>8, <2>1, <2>2 DEF KeptInv, PassedMarked, Slots, SkipProcessing, Marked
  <2>5. PassedMarked'
    BY <2>1, <2>2, <2>4 DEF PassedMarked, NextSlot, NewFrame
  <2> QED
    BY <2>3, <2>5 DEF KeptInv
<1>9. CASE TakeEvent
  <2> DEFINE i == Top.i
             e == slot[cur][i]
             marked == [e EXCEPT !.processing = TRUE]
  <2>1. /\ UNCHANGED <<cur, depth, next, accepted>>
        /\ taken' = taken \cup {e.data}
        /\ depth = 1
        /\ i \in Slots
        /\ slot \in [Queues -> [Slots -> Entry]]
        /\ cur \in Queues
    <3>1. depth = 1 /\ i <= next[cur]
      BY <1>1, <1>9 DEF TakeEvent, Scanning
    <3>2. i \in Nat \ {0} /\ next[cur] \in 0 .. MaxQueueSize
      BY <1>1, <3>1, TopType DEF TypeOK, Frame
    <3> QED
      BY <1>1, <1>9, <3>1, <3>2 DEF TakeEvent, TypeOK, Slots
  <2>2. slot' = [slot EXCEPT ![cur] = [slot[cur] EXCEPT ![i] = marked]]
    BY <1>9, <2>1 DEF TakeEvent
  <2>3. marked.data = e.data /\ marked.processing = TRUE
    BY <2>1 DEF Entry
  <2>4. \/ Top'.i = i
        \/ Top'.i = i + 1 /\ Top'.at = "scan"
    <3>1. \/ Top'.i = i
          \/ Top' = NextSlot
      BY <1>1, <1>9, <2>1 DEF TakeEvent, Top, TypeOK
    <3> QED
      BY <3>1 DEF NextSlot, NewFrame
  <2>5. i \in Nat
    BY <2>1 DEF Slots
  <2> HIDE DEF marked, i, e
  <2>6. \A q \in Queues, s \in Slots :
          slot'[q][s] = IF q = cur /\ s = i THEN marked ELSE slot[q][s]
    BY <2>1, <2>2
  <2>7. NoEventLost'
    <3> SUFFICES ASSUME NEW d \in accepted PROVE d \in taken' \/ Waiting(d)'
      BY <2>1 DEF NoEventLost
    <3>1. CASE d \in taken
      BY <2>1, <3>1
    <3>2. CASE Waiting(d)
      BY <2>1, <2>6, <3>2 DEF Waiting, e
    <3> QED
      BY <3>1, <3>2 DEF KeptInv, NoEventLost
  <2>8. PassedMarked'
    <3> SUFFICES ASSUME NEW s \in Slots,
                        s < Top'.i \/ (s = Top'.i /\ Top'.at # "scan")
                 PROVE  slot'[cur][s].processing
      BY <2>1 DEF PassedMarked
    <3>1. s < i \/ s = i
      BY <2>4, <2>5 DEF Slots
    <3> QED
      BY <2>1, <2>3, <2>6, <3>1 DEF KeptInv, PassedMarked, i
  <2> QED
    BY <2>7, <2>8 DEF KeptInv
<1>10. CASE PollEnd
  <2>1. /\ depth = 1 /\ depth' = 0
        /\ Top.i > next[cur]
        /\ UNCHANGED <<slot, accepted, taken>>
        /\ next' = [next EXCEPT ![cur] = 0]
    BY <1>1, <1>10 DEF PollEnd, Scanning, Emptied, histVars
  <2>2. /\ cur \in Queues /\ next \in [Queues -> 0 .. MaxQueueSize]
        /\ Top.i \in Nat
    BY <1>1, <2>1, TopType DEF TypeOK, Frame
  <2>3. \A s \in Slots : s <= next[cur] => slot[cur][s].processing
    BY <2>1, <2>2 DEF KeptInv, PassedMarked, Slots
  <2>4. \A q \in Queues, s \in Slots :
          s <= next[q] /\ ~slot[q][s].processing => s <= next'[q]
    BY <2>1, <2>2, <2>3
  <2>5. NoEventLost'
    BY <2>1, <2>4 DEF KeptInv, NoEventLost, Waiting
  <2> QED
    BY <2>1, <2>5 DEF KeptInv, PassedMarked
<1> QED
  BY <1>2, <1>3, <1>4, <1>5, <1>6, <1>7, <1>8, <1>9, <1>10 DEF Next, PollStep

\* As long as handlers do not run the dispatcher again, no event that entered a
\* buffer is lost, whatever the sizes of the buffers and however the posts fall
\* between the steps of the poll.  (With polls that nest the property fails.)
THEOREM NothingLostOneAtATime ==
  ASSUME MaxDepth = 1
  PROVE  Spec => []NoEventLost
<1>1. Init => KeptInv
  BY DEF Init, KeptInv, PassedMarked, NoEventLost
<1>2. IInv /\ IInv' /\ KeptInv /\ [Next]_vars => KeptInv'
  BY KeptNext
<1>3. KeptInv => NoEventLost
  BY DEF KeptInv
<1> QED
  BY <1>1, <1>2, <1>3, Invariance, PTL DEF Spec

-----------------------------------------------------------------------------
\* One poll at a time, the walk over a handler list: the event in hand is in its slot,
\* the element reached is in the list, and the registrations called with the event so
\* far come before that element.
InHand ==
  HandingOver =>
    /\ Top.q = cur /\ Top.e = Top.i /\ Live(cur, Top.i)
    /\ TopEntry.id = Top.list /\ Top.list \in EventIds
    /\ Top.item \in {0} \cup ListOf(Top.list)
    /\ Top.at = "handler" => Top.item # 0

CalledSoFar ==
  HandingOver =>
    \A r \in Rids : calls[r][TopEntry.data] > 0 =>
      /\ reg[r].id = Top.list
      /\ Top.item # 0 => r < Top.item \/ (r = Top.item /\ Top.at = "handler")

\* Only what was taken was handed over or released, and only to what was registered.
CallsKnown == \A r \in Rids, d \in Events : calls[r][d] > 0 => d \in taken /\ reg[r].id # NoId
FreesKnown == \A d \in Events : frees[d] > 0 => d \in taken
Made == \A r \in Rids : reg[r].id # NoId => r <= nregs

ReleasedAfter ==
  /\ HandingOver => frees[TopEntry.data] = 0
  /\ \A r \in Rids, d \in Events : calls[r][d] > 0 /\ reg[r].id \in OwnsData =>
       frees[d] = 1 \/ (HandingOver /\ d = TopEntry.data)

HandInv == /\ InHand /\ CalledSoFar /\ CallsKnown /\ FreesKnown /\ Made /\ ReleasedAfter
           /\ CalledAtMostOnce

\* The next element is later in the list, as long as nothing else takes elements away.
LEMMA SuccessorLater ==
  ASSUME NEW id, NEW r \in ListOf(id), NEW item \in Successors(id, r)
  PROVE  item = 0 \/ (item \in ListOf(id) /\ item > r)
<1> DEFINE later == {s \in ListOf(id) : s > r}
<1>1. later \subseteq Rids /\ item = First(later)
  BY DEF Successors, ListOf
<1> QED
  BY <1>1, FirstType

LEMMA InHandData ==
  ASSUME IInv, KeptInv, InHand, HandingOver, MaxDepth = 1
  PROVE  /\ depth = 1 /\ Top \in Frame /\ Top.i \in Slots /\ cur \in Queues
         /\ TopEntry = slot[cur][Top.i] /\ TopEntry \in Entry
         /\ TopEntry.data \in Events /\ TopEntry.data \in taken
<1>1. depth = 1 /\ Top \in Frame /\ Top.at # "scan"
  BY TopType DEF HandingOver, IInv, TypeOK
<1>2. Top.i \in Slots /\ cur \in Queues /\ TopEntry = slot[cur][Top.i] /\ TopEntry \in Entry
  BY <1>1 DEF InHand, TopEntry, Frame, IInv, TypeOK
<1>3. TopEntry.processing
  BY <1>1, <1>2 DEF KeptInv, PassedMarked
<1>4. TopEntry.data \in accepted /\ TopEntry.data \in taken
  BY <1>2, <1>3 DEF IInv, SlotsHoldAccepted, InHand
<1> QED
  BY <1>1, <1>2, <1>4 DEF IInv, TypeOK

\* What the clients do, which leave the walk where it is.
LEMMA HandQuiet ==
  ASSUME MaxDepth = 1, IInv, KeptInv, HandInv,
         UNCHANGED <<frame, depth, cur, taken, calls, frees>>,
         HandingOver => /\ Live(cur, Top.i)' /\ TopEntry'.id = TopEntry.id
                        /\ TopEntry'.data = TopEntry.data,
         \A r \in Rids : reg[r].id # NoId => reg'[r].id = reg[r].id,
         \A id \in EventIds : ListOf(id) \subseteq ListOf(id)',
         Made'
  PROVE  HandInv'
<1>1. Top' = Top /\ HandingOver' = HandingOver
  BY DEF Top, HandingOver
<1>2. InHand'
  BY <1>1 DEF HandInv, InHand
<1>3. \A r \in Rids, d \in Events : calls[r][d] > 0 => reg'[r].id = reg[r].id /\ reg[r].id # NoId
  BY DEF HandInv, CallsKnown
<1>4. CalledSoFar'
  <2> SUFFICES ASSUME HandingOver, NEW r \in Rids, calls[r][TopEntry.data] > 0
               PROVE  /\ reg'[r].id = Top.list
                      /\ Top.item # 0 => r < Top.item \/ (r = Top.item /\ Top.at = "handler")
    BY <1>1 DEF CalledSoFar
  <2>1. TopEntry.data \in Events
    BY InHandData DEF HandInv
  <2> QED
    BY <1>3, <2>1 DEF HandInv, CalledSoFar
<1>5. CallsKnown' /\ FreesKnown' /\ CalledAtMostOnce'
  BY <1>3 DEF HandInv, CallsKnown, FreesKnown, CalledAtMostOnce
<1>6. ReleasedAfter'
  BY <1>1, <1>3 DEF HandInv, ReleasedAfter
<1> QED
  BY <1>2, <1>4, <1>5, <1>6 DEF HandInv

\* Between events nothing is in hand.
LEMMA HandIdle ==
  ASSUME IInv, HandInv, UNCHANGED <<reg, nregs, taken, calls, frees>>, ~HandingOver, ~HandingOver'
  PROVE  HandInv'
  BY DEF HandInv, InHand, CalledSoFar, CallsKnown, FreesKnown, Made, ReleasedAfter, CalledAtMostOnce

LEMMA HandTake ==
  ASSUME MaxDepth = 1, IInv, KeptInv, HandInv, TakeEvent
  PROVE  HandInv'
<1> DEFINE i == Top.i
           e == slot[cur][i]
           d == e.data
<1>1. /\ depth = 1 /\ depth' = depth /\ Top.at = "scan" /\ cur \in Queues
      /\ Top \in Frame /\ i <= next[cur] /\ TypeOK
      /\ UNCHANGED <<next, cur, reg, nregs, calls, frees>> /\ taken' = taken \cup {d}
  BY TopType DEF IInv, TypeOK, TakeEvent, Scanning
<1>2. i \in Slots /\ e \in Entry
  <2>1. i \in Nat \ {0} /\ next[cur] \in 0 .. MaxQueueSize
    BY <1>1 DEF TypeOK, Frame
  <2> QED
    BY <1>1, <2>1 DEF TypeOK, Slots
<1>3. d \notin taken /\ d \in Events
  <2>1. d \in accepted
    BY <1>1, <1>2 DEF IInv, SlotsHoldAccepted, Live
  <2> QED
    BY <1>1, <2>1, TakeEventInv DEF TypeOK
<1>4. (\A r \in Rids : ~(calls[r][d] > 0)) /\ frees[d] = 0
  <2>1. frees[d] \in Nat /\ ~(frees[d] > 0)
    BY <1>1, <1>3 DEF HandInv, FreesKnown, TypeOK
  <2>2. \A r \in Rids : ~(calls[r][d] > 0)
    BY <1>3 DEF HandInv, CallsKnown
  <2> QED
    BY <2>1, <2>2
<1>5. slot'[cur][i].id = e.id /\ slot'[cur][i].data = d
  <2>1. slot' = [slot EXCEPT ![cur][i].processing = TRUE]
    BY DEF TakeEvent
  <2> QED
    BY <1>1, <1>2, <2>1 DEF TypeOK, Entry
<1>6. CallsKnown' /\ FreesKnown' /\ Made' /\ CalledAtMostOnce'
  BY <1>1 DEF HandInv, CallsKnown, FreesKnown, Made, CalledAtMostOnce
<1>7. \A r \in Rids, c \in Events : calls[r][c] > 0 /\ reg[r].id \in OwnsData => frees[c] = 1
  BY <1>1 DEF HandInv, ReleasedAfter, HandingOver
<1>8. CASE e.id \in known
  <2> DEFINE first == First(ListOf(e.id))
             f == [at |-> "call", i |-> i, q |-> cur, e |-> i, list |-> e.id,
                   item |-> first, n |-> 0]
  <2>1. Top' = f
    BY <1>1, <1>8 DEF TakeEvent, TypeOK, Top
  <2>2. /\ Top'.at = "call" /\ Top'.q = cur /\ Top'.e = i /\ Top'.i = i /\ Top'.list = e.id
        /\ Top'.item = first
    BY <2>1
  <2> HIDE DEF f
  <2>3. first \in {0} \cup ListOf(e.id)
    BY FirstType DEF ListOf
  <2>4. ListOf(Top.list)' = ListOf(e.id)
    BY <1>1, <2>2 DEF ListOf, InList
  <2>5. TopEntry' = slot'[cur][i]
    BY <1>1, <2>2 DEF TopEntry
  <2>6. InHand'
    BY <1>1, <1>5, <1>8, <2>2, <2>3, <2>4, <2>5 DEF InHand, Live, TypeOK
  <2>7. CalledSoFar' /\ ReleasedAfter'
    BY <1>1, <1>4, <1>5, <1>7, <2>5 DEF CalledSoFar, ReleasedAfter
  <2> QED
    BY <1>6, <2>6, <2>7 DEF HandInv
<1>9. CASE e.id \notin known
  <2>1. Top' = NextSlot
    BY <1>1, <1>9, NextSlotType DEF TakeEvent, TypeOK, Top
  <2>2. ~HandingOver'
    BY <2>1 DEF HandingOver, NextSlot, NewFrame
  <2>3. InHand' /\ CalledSoFar' /\ ReleasedAfter'
    BY <1>1, <1>7, <2>2 DEF InHand, CalledSoFar, ReleasedAfter
  <2> QED
    BY <1>6, <2>3 DEF HandInv
<1> QED
  BY <1>8, <1>9

LEMMA HandCall ==
  ASSUME MaxDepth = 1, IInv, KeptInv, HandInv, CallHandler
  PROVE  HandInv' /\ \A r \in Rids, c \in Events : calls'[r][c] # calls[r][c] => frees[c] = 0
<1> DEFINE d == TopEntry.data
           h == Top.item
<1>1. /\ HandingOver /\ Top.at = "call" /\ h # 0 /\ TypeOK
      /\ UNCHANGED <<slot, next, cur, reg, nregs, known, depth, taken, frees>>
  BY DEF CallHandler, Walking, HandingOver, MoreHandlers, IInv
<1>2. /\ depth = 1 /\ Top \in Frame /\ cur \in Queues /\ d \in Events /\ d \in taken
  BY <1>1, InHandData DEF HandInv
<1>3. h \in ListOf(Top.list) /\ h \in Rids /\ reg[h].id = Top.list /\ reg[h].id # NoId
  BY <1>1 DEF HandInv, InHand, ListOf, InList
<1>4. calls[h][d] = 0
  <2>1. ~(h < h)
    BY <1>3 DEF Rids
  <2>2. ~(calls[h][d] > 0)
    BY <1>1, <1>3, <2>1 DEF HandInv, CalledSoFar
  <2>3. calls[h][d] \in Nat
    BY <1>1, <1>2, <1>3 DEF TypeOK
  <2> QED
    BY <2>2, <2>3
<1>5. \A r \in Rids, c \in Events :
        calls'[r][c] = IF r = h /\ c = d THEN 1 ELSE calls[r][c]
  <2>1. calls' = [calls EXCEPT ![h][d] = @ + 1] /\ calls \in [Rids -> [Events -> Nat]]
    BY <1>1 DEF CallHandler, TypeOK
  <2> HIDE DEF h, d
  <2> QED
    BY <1>2, <1>3, <1>4, <2>1
<1>6. Top' = [Top EXCEPT !.at = "handler"]
  BY <1>1, <1>2 DEF CallHandler, TypeOK, Top
<1>7. /\ Top'.at = "handler" /\ Top'.i = Top.i /\ Top'.q = Top.q /\ Top'.e = Top.e
      /\ Top'.list = Top.list /\ Top'.item = h
  BY <1>2, <1>6 DEF Frame
<1>8. TopEntry' = TopEntry /\ HandingOver'
  BY <1>1, <1>2, <1>7 DEF TopEntry, HandingOver
<1>9. ListOf(Top.list)' = ListOf(Top.list)
  BY <1>1, <1>7 DEF ListOf, InList
<1>10. InHand'
  BY <1>1, <1>7, <1>8, <1>9 DEF HandInv, InHand, Live
<1>11. CalledSoFar'
  BY <1>1, <1>2, <1>3, <1>5, <1>7, <1>8 DEF HandInv, CalledSoFar
<1>12. CallsKnown' /\ FreesKnown' /\ Made' /\ CalledAtMostOnce'
  BY <1>1, <1>2, <1>3, <1>5 DEF HandInv, CallsKnown, FreesKnown, Made, CalledAtMostOnce
<1>13. ReleasedAfter'
  BY <1>1, <1>5, <1>8 DEF HandInv, ReleasedAfter
<1>14. frees[d] = 0
  BY <1>1 DEF HandInv, ReleasedAfter
<1> QED
  BY <1>5, <1>10, <1>11, <1>12, <1>13, <1>14 DEF HandInv

LEMMA HandWalk ==
  ASSUME MaxDepth = 1, IInv, KeptInv, HandInv, SkipFlagged \/ HandlerReturns
  PROVE  HandInv'
<1>1. /\ HandingOver /\ Top.item # 0 /\ TypeOK /\ WalkOn
      /\ UNCHANGED <<slot, next, cur, reg, nregs, known, depth, taken, calls, frees>>
  BY DEF SkipFlagged, HandlerReturns, Walking, HandingOver, MoreHandlers, IInv, HandInv, InHand,
         histVars
<1>2. depth = 1 /\ Top \in Frame /\ TopEntry.data \in Events
  BY <1>1, InHandData DEF HandInv
<1>3. PICK item \in Successors(Top.list, Top.item) :
        frame' = [frame EXCEPT ![depth] =
                    [at |-> "call", i |-> Top.i, q |-> Top.q, e |-> Top.e,
                     list |-> Top.list, item |-> item, n |-> Top.n + 1]]
  BY <1>1 DEF WalkOn
<1>4. Top.item \in ListOf(Top.list) /\ (item = 0 \/ (item \in ListOf(Top.list) /\ item > Top.item))
  BY <1>1, SuccessorLater DEF HandInv, InHand
<1>5. /\ Top'.at = "call" /\ Top'.i = Top.i /\ Top'.q = Top.q /\ Top'.e = Top.e
      /\ Top'.list = Top.list /\ Top'.item = item
  BY <1>1, <1>2, <1>3 DEF TypeOK, Top
<1>6. TopEntry' = TopEntry /\ HandingOver'
  BY <1>1, <1>2, <1>5 DEF TopEntry, HandingOver
<1>7. ListOf(Top.list)' = ListOf(Top.list)
  BY <1>1, <1>5 DEF ListOf, InList
<1>8. InHand'
  BY <1>1, <1>4, <1>5, <1>6, <1>7 DEF HandInv, InHand, Live
<1>9. CalledSoFar'
  <2> SUFFICES ASSUME NEW r \in Rids, calls[r][TopEntry.data] > 0
               PROVE  reg[r].id = Top.list /\ (item # 0 => r < item)
    BY <1>1, <1>5, <1>6 DEF CalledSoFar
  <2>1. reg[r].id = Top.list /\ (r < Top.item \/ r = Top.item)
    BY <1>1 DEF HandInv, CalledSoFar
  <2> QED
    BY <1>4, <2>1 DEF ListOf, Rids
<1>10. ReleasedAfter'
  BY <1>1, <1>6 DEF HandInv, ReleasedAfter
<1> QED
  BY <1>1, <1>8, <1>9, <1>10 DEF HandInv, CallsKnown, FreesKnown, Made, CalledAtMostOnce

LEMMA HandFinish ==
  ASSUME MaxDepth = 1, IInv, KeptInv, HandInv, FinishEvent
  PROVE  HandInv'
<1> DEFINE d == TopEntry.data
<1>1. /\ HandingOver /\ TypeOK /\ frees' = Released /\ reg' = Purged(TopEntry.id)
      /\ UNCHANGED <<nregs, depth, taken, calls>>
      /\ frame' = [frame EXCEPT ![depth] = NextSlot]
  BY DEF FinishEvent, Walking, HandingOver, IInv
<1>2. depth = 1 /\ d \in Events /\ d \in taken
  BY <1>1, InHandData DEF HandInv
<1>3. ~HandingOver'
  <2>1. Top' = NextSlot
    BY <1>1, <1>2 DEF TypeOK, Top
  <2> QED
    BY <2>1 DEF HandingOver, NextSlot, NewFrame
<1>4. \A r \in Rids : reg'[r].id = reg[r].id
  <2> SUFFICES ASSUME NEW r \in Rids PROVE reg'[r].id = reg[r].id
    OBVIOUS
  <2>1. reg[r] \in Registration
    BY <1>1 DEF TypeOK
  <2> QED
    BY <1>1, <2>1 DEF Purged, Registration
<1>5. frees[d] = 0 /\ frees \in [Events -> Nat]
  BY <1>1 DEF HandInv, ReleasedAfter, TypeOK
<1>6. \A c \in Events : frees'[c] = IF c = d /\ TopEntry.id \in OwnsData THEN 1 ELSE frees[c]
  <2>1. frees' = IF TopEntry.id \in OwnsData THEN [frees EXCEPT ![d] = frees[d] + 1] ELSE frees
    BY <1>1 DEF Released
  <2> HIDE DEF d
  <2> QED
    BY <1>2, <1>5, <2>1
<1>7. CallsKnown' /\ Made' /\ CalledAtMostOnce'
  BY <1>1, <1>4 DEF HandInv, CallsKnown, Made, CalledAtMostOnce
<1>8. FreesKnown'
  BY <1>1, <1>2, <1>6 DEF HandInv, FreesKnown
<1>9. ReleasedAfter'
  <2> SUFFICES ASSUME NEW r \in Rids, NEW c \in Events, calls[r][c] > 0, reg[r].id \in OwnsData
               PROVE  frees'[c] = 1
    BY <1>1, <1>3, <1>4 DEF ReleasedAfter
  <2>1. CASE c = d
    <3>1. reg[r].id = TopEntry.id
      BY <1>1, <2>1 DEF HandInv, CalledSoFar, InHand
    <3> QED
      BY <1>6, <2>1, <3>1
  <2>2. CASE c # d
    BY <1>6, <2>2 DEF HandInv, ReleasedAfter
  <2> QED
    BY <2>1, <2>2
<1>10. InHand' /\ CalledSoFar'
  BY <1>3 DEF InHand, CalledSoFar
<1> QED
  BY <1>7, <1>8, <1>9, <1>10 DEF HandInv

LEMMA HandClient ==
  ASSUME MaxDepth = 1, IInv, KeptInv, HandInv, NEW id \in EventIds, NEW key \in Keys,
         Register(id, key) \/ Unregister(id, key)
  PROVE  HandInv'
<1>1. /\ UNCHANGED <<slot, next, cur, frame, depth, taken, calls, frees>> /\ TypeOK
  BY DEF Register, Unregister, histVars, IInv
<1>2. HandingOver => /\ Live(cur, Top.i)' /\ TopEntry'.id = TopEntry.id
                     /\ TopEntry'.data = TopEntry.data
  BY <1>1 DEF HandInv, InHand, Live, Top, TopEntry
<1>3. CASE Register(id, key)
  <2>1. /\ nregs' = nregs + 1 /\ nregs + 1 \in Rids /\ nregs \in Nat
        /\ reg' = [reg EXCEPT ![nregs + 1] = [state |-> "listed", id |-> id, key |-> key]]
    BY <1>1, <1>3 DEF Register, TypeOK, Rids
  <2>2. reg[nregs + 1].id = NoId
    BY <2>1 DEF HandInv, Made
  <2>3. /\ \A r \in Rids : reg[r].id # NoId => reg'[r] = reg[r]
        /\ Made'
    BY <1>1, <2>1, <2>2 DEF HandInv, Made, TypeOK, Rids
  <2>4. \A l \in EventIds : ListOf(l) \subseteq ListOf(l)'
    BY <2>3 DEF ListOf, InList
  <2> QED
    BY <1>1, <1>2, <2>3, <2>4, HandQuiet
<1>4. CASE Unregister(id, key)
  <2> DEFINE first == First({r \in ListOf(id) : reg[r].key = key})
  <2>1. reg' = [reg EXCEPT ![first] = [reg[first] EXCEPT !.state = "flagged"]] /\ nregs' = nregs
    BY <1>4 DEF Unregister
  <2> HIDE DEF first
  <2>2. ASSUME NEW r \in Rids
        PROVE  /\ reg'[r].id = reg[r].id
               /\ \A l : InList(r, l) => InList(r, l)'
    <3>1. reg[r] \in Registration /\ reg \in [Rids -> Registration]
      BY <1>1 DEF TypeOK
    <3>2. reg'[r] = IF r = first THEN [reg[r] EXCEPT !.state = "flagged"] ELSE reg[r]
      BY <2>1, <3>1
    <3>3. reg'[r].id = reg[r].id /\ (reg'[r].state = reg[r].state \/ reg'[r].state = "flagged")
      BY <3>1, <3>2 DEF Registration
    <3> QED
      BY <3>3 DEF InList
  <2>3. \A l \in EventIds : ListOf(l) \subseteq ListOf(l)'
    BY <2>2 DEF ListOf
  <2>4. Made'
    BY <2>1, <2>2 DEF HandInv, Made
  <2> QED
    BY <1>1, <1>2, <2>2, <2>3, <2>4, HandQuiet
<1> QED
  BY <1>3, <1>4

LEMMA HandSend ==
  ASSUME MaxDepth = 1, IInv, KeptInv, HandInv, NEW id \in EventIds, SendEvent(id)
  PROVE  HandInv'
<1>1. /\ UNCHANGED <<cur, reg, nregs, frame, depth, taken, calls, frees>>
      /\ TypeOK /\ pend \in Queues /\ cur \in Queues /\ pend # cur
  BY DEF SendEvent, IInv, TypeOK, pend, Queues
<1>2. slot'[cur] = slot[cur] /\ next'[cur] = next[cur]
  <2>1. CASE HasRoom
    BY <1>1, <2>1 DEF SendEvent, TypeOK
  <2>2. CASE ~HasRoom
    BY <1>1, <2>2 DEF SendEvent
  <2> QED
    BY <2>1, <2>2
<1>3. HandingOver => /\ Live(cur, Top.i)' /\ TopEntry'.id = TopEntry.id
                     /\ TopEntry'.data = TopEntry.data
  BY <1>1, <1>2 DEF HandInv, InHand, Live, Top, TopEntry
<1>4. \A l \in EventIds : ListOf(l) \subseteq ListOf(l)'
  BY <1>1 DEF ListOf, InList
<1>5. Made'
  BY <1>1 DEF HandInv, Made
<1> QED
  BY <1>1, <1>3, <1>4, <1>5, HandQuiet

LEMMA HandNext ==
  ASSUME MaxDepth = 1, IInv, KeptInv, HandInv, [Next]_vars
  PROVE  HandInv'
<1>1. ASSUME NEW id \in EventIds, SendEvent(id) PROVE HandInv'
  BY <1>1, HandSend
<1>2. ASSUME NEW id \in EventIds, NEW key \in Keys, Register(id, key) \/ Unregister(id, key)
      PROVE  HandInv'
  BY <1>2, HandClient
<1>3. CASE PollBegin \/ SkipProcessing \/ PollEnd
  <2>1. UNCHANGED <<reg, nregs, taken, calls, frees>> /\ TypeOK
    BY <1>3 DEF PollBegin, SkipProcessing, PollEnd, histVars, IInv
  <2>2. ~HandingOver /\ ~HandingOver'
    <3>1. CASE PollBegin
      <4>1. depth = 0 /\ Top' = NewFrame
        BY <2>1, <3>1 DEF PollBegin, TypeOK, Top
      <4> QED
        BY <4>1 DEF HandingOver, NewFrame
    <3>2. CASE SkipProcessing
      <4>1. depth = 1 /\ depth' = 1 /\ Top.at = "scan"
        BY <2>1, <3>2 DEF SkipProcessing, Scanning, TypeOK
      <4>2. Top' = NextSlot
        BY <2>1, <3>2, <4>1 DEF SkipProcessing, TypeOK, Top
      <4> QED
        BY <4>1, <4>2 DEF HandingOver, NewFrame, NextSlot
    <3>3. CASE PollEnd
      <4>1. depth = 1 /\ depth' = 0 /\ Top.at = "scan"
        BY <2>1, <3>3 DEF PollEnd, Scanning, TypeOK
      <4> QED
        BY <4>1 DEF HandingOver
    <3> QED
      BY <1>3, <3>1, <3>2, <3>3
  <2> QED
    BY <2>1, <2>2, HandIdle
<1>4. CASE UNCHANGED vars
  <2>1. UNCHANGED <<slot, next, cur, reg, nregs, frame, depth, taken, calls, frees>>
    BY <1>4 DEF vars, pumpVars, histVars
  <2>2. /\ HandingOver => /\ Live(cur, Top.i)' /\ TopEntry'.id = TopEntry.id
                           /\ TopEntry'.data = TopEntry.data
        /\ \A l \in EventIds : ListOf(l) \subseteq ListOf(l)'
        /\ Made'
    BY <2>1 DEF HandInv, InHand, Live, Top, TopEntry, ListOf, InList, Made
  <2> QED
    BY <2>1, <2>2, HandQuiet
<1> QED
  BY <1>1, <1>2, <1>3, <1>4, HandTake, HandCall, HandWalk, HandFinish DEF Next, PollStep

LEMMA HandInit == Init => HandInv
<1> SUFFICES ASSUME Init PROVE HandInv
  OBVIOUS
<1>1. ~HandingOver
  BY DEF Init, HandingOver
<1>2. /\ \A r \in Rids, d \in Events : calls[r][d] = 0
      /\ \A d \in Events : frees[d] = 0
      /\ \A r \in Rids : reg[r].id = NoId
  BY DEF Init, InitReg
<1> QED
  BY <1>1, <1>2 DEF HandInv, InHand, CalledSoFar, CallsKnown, FreesKnown, Made, ReleasedAfter,
     CalledAtMostOnce

\* As long as handlers do not run the dispatcher again, the walks keep to their lists.
THEOREM OneAtATime ==
  ASSUME MaxDepth = 1
  PROVE  Spec => [](IInv /\ KeptInv /\ HandInv)
<1>1. Init => KeptInv
  BY DEF Init, KeptInv, PassedMarked, NoEventLost
<1>2. IInv /\ IInv' /\ KeptInv /\ [Next]_vars => KeptInv'
  BY KeptNext
<1>3. IInv /\ KeptInv /\ HandInv /\ [Next]_vars => HandInv'
  BY HandNext
<1> QED
  BY <1>1, <1>2, <1>3, HandInit, Invariance, PTL DEF Spec

\* As long as handlers do not run the dispatcher again, no registration is called twice
\* with one event, although handlers register and unregister while the list is walked.
THEOREM NoHandlerCalledTwice ==
  ASSUME MaxDepth = 1
  PROVE  Spec => []CalledAtMostOnce
<1>1. HandInv => CalledAtMostOnce
  BY DEF HandInv
<1> QED
  BY <1>1, OneAtATime, PTL

\* Under the same condition, data that reached a handler and came with an event_free has
\* been released, once, when the poll is over.
THEOREM OwnedDataReleased ==
  ASSUME MaxDepth = 1
  PROVE  Spec => []OwnedDataFreedOnce
<1>1. HandInv => OwnedDataFreedOnce
  BY DEF HandInv, ReleasedAfter, OwnedDataFreedOnce, HandingOver
<1> QED
  BY <1>1, OneAtATime, PTL

\* Under the same condition, no handler is given data that was released before.
THEOREM NoHandlerGetsFreedData ==
  ASSUME MaxDepth = 1
  PROVE  Spec => DataOutlivesHandlers
<1> DEFINE Fresh == \A r \in Rids, d \in Events : calls'[r][d] # calls[r][d] => frees[d] = 0
<1>1. ASSUME IInv, KeptInv, HandInv, [Next]_vars PROVE [Fresh]_vars
  <2>1. CASE CallHandler
    BY <1>1, <2>1, HandCall
  <2>2. CASE ~CallHandler
    <3>1. calls' = calls
      BY <1>1, <2>2 DEF Next, PollStep, SendEvent, Register, Unregister, PollBegin, SkipProcessing,
         TakeEvent, SkipFlagged, HandlerReturns, FinishEvent, PollEnd, vars, histVars
    <3> QED
      BY <3>1
  <2> QED
    BY <2>1, <2>2
<1> QED
  BY <1>1, OneAtATime, PTL DEF Spec, DataOutlivesHandlers

-----------------------------------------------------------------------------
\* The pump implements the bus.
USE SizesAssumption, IdsAssumption, NoIdAssumption
    DEF SizesAssumption, IdsAssumption, NoIdAssumption

\* The events that wait are unmarked and have an id, and the scan does not run past them.
Unmarked ==
  /\ \A s \in Slots : Live(pend, s) => ~slot[pend][s].processing
  /\ \A s \in Slots : Live(cur, s) /\ FirstUnread <= s => ~slot[cur][s].processing
  /\ \A q \in Queues, s \in Slots : Live(q, s) => slot[q][s].id \in EventIds

InRange == FirstUnread <= next[cur] + 1

\* The handlers before the one reached were called, or have been unregistered, and they
\* have been counted: so that the count ends the walk no sooner than the list does.
Before == {r \in ListOf(Top.list) : r < Top.item}
Reached(r) == Top.item = 0 \/ r < Top.item \/ (r = Top.item /\ Top.at = "handler")

WalkedAll ==
  HandingOver =>
    /\ \A r \in ListOf(Top.list) :
         Reached(r) => calls[r][TopEntry.data] > 0 \/ reg[r].state = "flagged"
    /\ Top.item # 0 => Top.n = Cardinality(Before)

IdsKnown == \A r \in Rids : reg[r].id \in known \cup {NoId}

BusInv == Unmarked /\ InRange /\ WalkedAll /\ IdsKnown

-----------------------------------------------------------------------------
\* A set of natural numbers has a least element.
LEMMA LeastNat ==
  ASSUME NEW S \in SUBSET Nat, S # {}
  PROVE  \E n \in S : \A m \in S : n <= m
<1> DEFINE R == {ss \in Nat \X Nat : ss[1] < ss[2]}
<1>1. IsWellFoundedOn(R, Nat)
  BY NatLessThanWellFounded DEF OpToRel
<1>2. PICK x \in S : \A y \in S : ~(<<y, x>> \in R)
  <2> HIDE DEF R
  <2> QED
    BY <1>1, WFMin
<1>3. ASSUME NEW m \in S PROVE x <= m
  <2>1. <<m, x>> \in Nat \X Nat /\ <<m, x>>[1] = m /\ <<m, x>>[2] = x
    OBVIOUS
  <2>2. ~(m < x)
    BY <1>2, <2>1
  <2> QED
    BY <2>2
<1> QED
  BY <1>3

LEMMA FirstLeast ==
  ASSUME NEW S \in SUBSET Rids, S # {}
  PROVE  First(S) \in S /\ \A s \in S : First(S) <= s
<1>1. S \in SUBSET Nat
  BY DEF Rids
<1>2. Firsts(S) # {}
  BY <1>1, LeastNat DEF Firsts
<1>3. First(S) \in Firsts(S)
  BY <1>2 DEF First
<1> QED
  BY <1>3 DEF Firsts

LEMMA ListFinite ==
  ASSUME NEW id, NEW S \in SUBSET ListOf(id)
  PROVE  IsFiniteSet(S) /\ Cardinality(S) \in Nat /\ Cardinality(S) <= Cardinality(ListOf(id))
<1>1. IsFiniteSet(Rids) /\ ListOf(id) \in SUBSET Rids
  BY FS_Interval DEF Rids, ListOf
<1>2. IsFiniteSet(ListOf(id))
  BY <1>1, FS_Subset
<1> QED
  BY <1>2, FS_Subset, FS_CardinalityType

-----------------------------------------------------------------------------
LEMMA BusClient ==
  ASSUME MaxDepth = 1, IInv, HandInv, BusInv, NEW id \in EventIds, NEW key \in Keys,
         Register(id, key) \/ Unregister(id, key)
  PROVE  BusInv'
<1>1. UNCHANGED <<slot, next, cur, frame, depth, taken, calls, frees>> /\ TypeOK /\ InClient
  BY DEF Register, Unregister, histVars, IInv
<1>2. Top' = Top /\ HandingOver' = HandingOver /\ FirstUnread' = FirstUnread
      /\ TopEntry' = TopEntry /\ pend' = pend
  BY <1>1 DEF Top, HandingOver, FirstUnread, TopEntry, pend
<1>3. Unmarked' /\ InRange'
  BY <1>1, <1>2 DEF BusInv, Unmarked, InRange, Live
<1>4. /\ IdsKnown'
      /\ \A l : \A r \in Rids : InList(r, l)' =>
           \/ InList(r, l) /\ (reg'[r].state = reg[r].state \/ reg'[r].state = "flagged")
           \/ r > nregs
      /\ \A r \in Rids, l \in EventIds : InList(r, l) => InList(r, l)'
  <2>1. CASE Register(id, key)
    <3>1. /\ nregs \in Nat /\ nregs + 1 \in Rids /\ known' = known \cup {id}
          /\ reg' = [reg EXCEPT ![nregs + 1] = [state |-> "listed", id |-> id, key |-> key]]
          /\ reg \in [Rids -> Registration]
      BY <1>1, <2>1 DEF Register, TypeOK, Rids
    <3>2. reg[nregs + 1].id = NoId
      BY <3>1 DEF HandInv, Made
    <3>3. \A r \in Rids : /\ r # nregs + 1 => reg'[r] = reg[r]
                          /\ r = nregs + 1 => reg'[r].id = id
      BY <3>1
    <3> QED
      BY <3>1, <3>2, <3>3 DEF BusInv, IdsKnown, InList
  <2>2. CASE Unregister(id, key)
    <3> DEFINE first == First({r \in ListOf(id) : reg[r].key = key})
    <3>1. reg' = [reg EXCEPT ![first] = [reg[first] EXCEPT !.state = "flagged"]] /\ known' = known
      BY <2>2 DEF Unregister
    <3> HIDE DEF first
    <3>2. ASSUME NEW r \in Rids
          PROVE  reg'[r].id = reg[r].id
                 /\ (reg'[r].state = reg[r].state
                     \/ (reg'[r].state = "flagged" /\ r = first))
      <4>1. reg[r] \in Registration /\ reg \in [Rids -> Registration]
        BY <1>1 DEF TypeOK
      <4>2. reg'[r] = IF r = first THEN [reg[r] EXCEPT !.state = "flagged"] ELSE reg[r]
        BY <3>1, <4>1
      <4> QED
        BY <4>1, <4>2 DEF Registration
    <3>3. first = 0 \/ InList(first, id)
      <4>1. {r \in ListOf(id) : reg[r].key = key} \in SUBSET Rids
        BY DEF ListOf
      <4> QED
        BY <4>1, FirstType DEF first, ListOf
    <3> QED
      BY <3>1, <3>2, <3>3 DEF BusInv, IdsKnown, InList, Rids
  <2> QED
    BY <2>1, <2>2
<1>5. WalkedAll'
  <2> SUFFICES ASSUME HandingOver
               PROVE  /\ \A r \in ListOf(Top.list)' :
                           Reached(r) => calls[r][TopEntry.data] > 0 \/ reg'[r].state = "flagged"
                      /\ Top.item # 0 => Top.n = Cardinality(Before')
    BY <1>1, <1>2 DEF WalkedAll, Reached
  <2>1. Top.at = "handler"
    BY <1>1 DEF InClient, HandingOver
  <2>2. Top.item \in ListOf(Top.list) /\ Top.list \in EventIds /\ Top.item # 0
    BY <2>1 DEF HandInv, InHand
  <2>3. Top.item \in Rids /\ Top.item <= nregs /\ nregs \in Nat
    BY <1>1, <2>2 DEF HandInv, Made, ListOf, InList, TypeOK
  <2>4. \A r \in Rids : r > nregs => ~(r < Top.item) /\ ~Reached(r)
    BY <2>2, <2>3 DEF Reached, Rids
  <2>5. \A r \in ListOf(Top.list)' :
          Reached(r) => calls[r][TopEntry.data] > 0 \/ reg'[r].state = "flagged"
    <3> SUFFICES ASSUME NEW r \in ListOf(Top.list)', Reached(r)
                 PROVE  calls[r][TopEntry.data] > 0 \/ reg'[r].state = "flagged"
      OBVIOUS
    <3>1. r \in Rids /\ InList(r, Top.list)'
      BY DEF ListOf
    <3>2. InList(r, Top.list) /\ (reg'[r].state = reg[r].state \/ reg'[r].state = "flagged")
      BY <1>2, <1>4, <2>4, <3>1 DEF InList
    <3> QED
      BY <3>1, <3>2 DEF BusInv, WalkedAll, ListOf
  <2>6. Before' = Before
    BY <1>2, <1>4, <2>2, <2>4 DEF Before, ListOf
  <2> QED
    BY <2>5, <2>6 DEF BusInv, WalkedAll
<1> QED
  BY <1>3, <1>4, <1>5 DEF BusInv

\* The walk goes on as it was when a step touches neither it nor the registrations.
LEMMA WalkedKept ==
  ASSUME BusInv, UNCHANGED <<frame, depth, reg, known, calls>>, HandingOver => TopEntry' = TopEntry
  PROVE  WalkedAll' /\ IdsKnown' /\ FirstUnread' = FirstUnread
<1>1. Top' = Top /\ HandingOver' = HandingOver /\ FirstUnread' = FirstUnread
  BY DEF Top, HandingOver, FirstUnread
<1>2. ListOf(Top.list)' = ListOf(Top.list) /\ Before' = Before
  BY <1>1 DEF ListOf, InList, Before
<1> QED
  BY <1>1, <1>2 DEF BusInv, WalkedAll, IdsKnown, Reached

LEMMA BusSend ==
  ASSUME MaxDepth = 1, IInv, HandInv, BusInv, NEW id \in EventIds, SendEvent(id)
  PROVE  BusInv'
<1>1. /\ UNCHANGED <<cur, reg, known, frame, depth, calls>>
      /\ TypeOK /\ pend \in Queues /\ cur \in Queues /\ pend # cur /\ pend' = pend
      /\ Queues = {pend, cur}
  BY DEF SendEvent, IInv, TypeOK, pend, Queues
<1>2. slot'[cur] = slot[cur] /\ next'[cur] = next[cur]
  <2>1. CASE HasRoom
    BY <1>1, <2>1 DEF SendEvent, TypeOK
  <2>2. CASE ~HasRoom
    BY <1>1, <2>2 DEF SendEvent
  <2> QED
    BY <2>1, <2>2
<1>3. HandingOver => TopEntry' = TopEntry
  BY <1>1, <1>2 DEF HandInv, InHand, Top, TopEntry
<1>4. WalkedAll' /\ IdsKnown' /\ FirstUnread' = FirstUnread
  BY <1>1, <1>3, WalkedKept
<1>5. InRange'
  BY <1>1, <1>2, <1>4 DEF BusInv, InRange
<1>6. ASSUME NEW s \in Slots, Live(pend, s)'
      PROVE  ~slot'[pend][s].processing /\ slot'[pend][s].id \in EventIds
  <2>1. CASE HasRoom
    <3>1. /\ next[pend] \in 0 .. MaxQueueSize /\ next[pend] + 1 \in Slots
          /\ next'[pend] = next[pend] + 1
          /\ slot'[pend] = [slot[pend] EXCEPT ![next[pend] + 1] =
                              [id |-> id, data |-> posted + 1, processing |-> FALSE]]
          /\ slot[pend] \in [Slots -> Entry]
      BY <1>1, <2>1 DEF SendEvent, TypeOK, HasRoom, Slots
    <3>2. CASE s = next[pend] + 1
      BY <3>1, <3>2
    <3>3. CASE s # next[pend] + 1
      <4>1. slot'[pend][s] = slot[pend][s] /\ Live(pend, s)
        BY <1>1, <1>6, <3>1, <3>3 DEF Live, Slots
      <4> QED
        BY <1>1, <4>1 DEF BusInv, Unmarked
    <3> QED
      BY <3>2, <3>3
  <2>2. CASE ~HasRoom
    <3>1. slot' = slot /\ Live(pend, s)
      BY <1>1, <1>6, <2>2 DEF SendEvent, Live
    <3> QED
      BY <1>1, <3>1 DEF BusInv, Unmarked
  <2> QED
    BY <2>1, <2>2
<1>7. Unmarked'
  BY <1>1, <1>2, <1>4, <1>6 DEF BusInv, Unmarked, Live
<1> QED
  BY <1>4, <1>5, <1>7 DEF BusInv

LEMMA BusScan ==
  ASSUME MaxDepth = 1, IInv, BusInv, PollBegin \/ PollEnd
  PROVE  BusInv'
<1>1. /\ UNCHANGED <<slot, reg, known>> /\ TypeOK /\ cur \in Queues /\ pend \in Queues
      /\ ~HandingOver' /\ FirstUnread' = 1
  <2>1. UNCHANGED <<slot, reg, known>> /\ TypeOK /\ cur \in Queues /\ pend \in Queues
    BY DEF PollBegin, PollEnd, IInv, TypeOK, pend, Queues
  <2>2. depth' = 0 \/ Top' = NewFrame
    BY <2>1 DEF PollBegin, PollEnd, TypeOK, Top, Scanning
  <2> QED
    BY <2>1, <2>2 DEF HandingOver, FirstUnread, NewFrame
<1>2. WalkedAll' /\ IdsKnown'
  BY <1>1 DEF WalkedAll, BusInv, IdsKnown
<1>3. CASE PollBegin
  <2>1. UNCHANGED <<next, cur>> /\ pend' = pend /\ depth = 0 /\ FirstUnread = 1
    BY <1>1, <1>3 DEF PollBegin, pend, TypeOK, FirstUnread
  <2> QED
    BY <1>1, <1>2, <2>1 DEF BusInv, Unmarked, InRange, Live
<1>4. CASE PollEnd
  <2>1. /\ cur' = pend /\ pend' = cur /\ next'[cur] = 0 /\ next'[pend] = next[pend]
        /\ pend # cur /\ next[pend] \in Nat
    BY <1>1, <1>4 DEF PollEnd, Swapped, Emptied, pend, TypeOK, Queues
  <2>2. Unmarked'
    BY <1>1, <2>1 DEF BusInv, Unmarked, Live, Slots, Queues, pend
  <2>3. InRange'
    BY <1>1, <2>1 DEF InRange
  <2> QED
    BY <1>2, <2>2, <2>3 DEF BusInv
<1> QED
  BY <1>3, <1>4

\* With one poll at a time the scan never meets a slot that is marked.
LEMMA NothingSkipped ==
  ASSUME MaxDepth = 1, IInv, BusInv
  PROVE  ~SkipProcessing
<1> SUFFICES ASSUME SkipProcessing PROVE FALSE
  OBVIOUS
<1>1. depth = 1 /\ Top.at = "scan" /\ Top \in Frame /\ cur \in Queues /\ TypeOK
  BY TopType DEF SkipProcessing, Scanning, IInv, TypeOK
<1>2. Top.i <= next[cur] /\ next[cur] \in 0 .. MaxQueueSize /\ Top.i \in Nat \ {0}
  BY <1>1 DEF SkipProcessing, TypeOK, Frame
<1>3. Top.i \in Slots /\ FirstUnread = Top.i
  BY <1>1, <1>2 DEF Slots, FirstUnread, HandingOver
<1> QED
  BY <1>2, <1>3 DEF BusInv, Unmarked, Live, SkipProcessing, Marked

\* Where an event that is taken stands, and what becomes of its slot.
LEMMA TakenShape ==
  ASSUME MaxDepth = 1, IInv, BusInv, TakeEvent
  PROVE  /\ depth = 1 /\ depth' = 1 /\ Top.at = "scan" /\ ~HandingOver /\ FirstUnread = Top.i
         /\ UNCHANGED <<next, cur, reg, known, calls, posted>> /\ pend' = pend
         /\ cur \in Queues /\ pend \in Queues /\ pend # cur
         /\ Top.i \in Slots /\ Live(cur, Top.i) /\ slot[cur][Top.i].id \in EventIds
         /\ slot'[pend] = slot[pend]
         /\ \A s \in Slots : /\ s # Top.i => slot'[cur][s] = slot[cur][s]
                             /\ slot'[cur][s].id = slot[cur][s].id
                             /\ slot'[cur][s].data = slot[cur][s].data
         /\ FirstUnread' = Top.i + 1
<1>1. /\ depth = 1 /\ depth' = 1 /\ Top.at = "scan" /\ Top \in Frame /\ TypeOK
      /\ UNCHANGED <<next, cur, reg, known, calls, posted>> /\ Top.i <= next[cur]
  BY TopType DEF TakeEvent, Scanning, IInv, TypeOK
<1>2. cur \in Queues /\ pend \in Queues /\ pend # cur /\ pend' = pend
  BY <1>1 DEF TypeOK, pend, Queues
<1>3. Top.i \in Slots
  <2>1. next[cur] \in 0 .. MaxQueueSize /\ Top.i \in Nat \ {0}
    BY <1>1, <1>2 DEF TypeOK, Frame
  <2> QED
    BY <1>1, <2>1 DEF Slots
<1>4. ~HandingOver /\ FirstUnread = Top.i
  BY <1>1 DEF HandingOver, FirstUnread
<1>5. Live(cur, Top.i) /\ slot[cur][Top.i].id \in EventIds
  BY <1>1, <1>2, <1>3 DEF Live, BusInv, Unmarked
<1>6. slot' = [slot EXCEPT ![cur] =
                 [slot[cur] EXCEPT ![Top.i] = [slot[cur][Top.i] EXCEPT !.processing = TRUE]]]
  BY DEF TakeEvent
<1>7. slot'[pend] = slot[pend]
  BY <1>1, <1>2, <1>6 DEF TypeOK
<1>8. ASSUME NEW s \in Slots
      PROVE  /\ s # Top.i => slot'[cur][s] = slot[cur][s]
             /\ slot'[cur][s].id = slot[cur][s].id /\ slot'[cur][s].data = slot[cur][s].data
  BY <1>1, <1>2, <1>3, <1>6 DEF TypeOK, Entry
<1>9. FirstUnread' = Top.i + 1
  <2>1. (Top'.at = "call" /\ Top'.i = Top.i) \/ Top' = NextSlot
    BY <1>1 DEF TakeEvent, TypeOK, Top
  <2> QED
    BY <1>1, <2>1 DEF FirstUnread, HandingOver, NextSlot, NewFrame
<1> QED
  BY <1>1, <1>2, <1>3, <1>4, <1>5, <1>7, <1>8, <1>9

LEMMA BusTake ==
  ASSUME MaxDepth = 1, IInv, BusInv, TakeEvent
  PROVE  BusInv'
<1> DEFINE e == slot[cur][Top.i]
           first == First(ListOf(e.id))
<1>1. Unmarked'
  <2>1. \A s \in Slots : Top.i + 1 <= s => s # Top.i /\ Top.i <= s
    BY TakenShape DEF Slots
  <2>2. \A q \in Queues, s \in Slots : slot'[q][s].id = slot[q][s].id
    BY TakenShape DEF Queues
  <2> QED
    BY <2>1, <2>2, TakenShape DEF BusInv, Unmarked, Live
<1>2. InRange'
  <2>1. next[cur] \in Nat /\ Top.i \in Nat
    BY TakenShape DEF IInv, TypeOK, Slots
  <2> QED
    BY <2>1, TakenShape DEF InRange, Live
<1>3. IdsKnown'
  BY TakenShape DEF BusInv, IdsKnown
<1>4. WalkedAll'
  <2> SUFFICES ASSUME HandingOver'
               PROVE  /\ \A r \in ListOf(Top.list)' : ~Reached(r)'
                      /\ Top'.item # 0 => Top'.n = Cardinality(Before')
    BY DEF WalkedAll
  <2>1. Top' = [at |-> "call", i |-> Top.i, q |-> cur, e |-> Top.i, list |-> e.id,
                item |-> first, n |-> 0]
    <3>1. e.id \in known
      <4> SUFFICES ASSUME e.id \notin known PROVE FALSE
        OBVIOUS
      <4>1. Top' = NextSlot
        BY TakenShape DEF TakeEvent, IInv, TypeOK, Top
      <4> QED
        BY <4>1 DEF HandingOver, NextSlot, NewFrame
    <3> QED
      BY <3>1, TakenShape DEF TakeEvent, IInv, TypeOK, Top
  <2>2. Top'.at = "call" /\ Top'.list = e.id /\ Top'.item = first /\ Top'.n = 0
    BY <2>1
  <2>3. ListOf(Top.list)' = ListOf(e.id) /\ ListOf(e.id) \in SUBSET Rids
    BY <2>2, TakenShape DEF ListOf, InList
  <2>4. \A r \in ListOf(e.id) : first # 0 /\ ~(r < first)
    BY <2>3, FirstLeast DEF Rids
  <2>5. \A r \in ListOf(Top.list)' : ~Reached(r)'
    BY <2>2, <2>3, <2>4 DEF Reached
  <2>6. Before' = {}
    BY <2>2, <2>3, <2>4 DEF Before
  <2> QED
    BY <2>2, <2>5, <2>6, FS_EmptySet
<1> QED
  BY <1>1, <1>2, <1>3, <1>4 DEF BusInv

\* A step of the walk itself: the event in hand and the lists stay as they are.
LEMMA WalkShape ==
  ASSUME MaxDepth = 1, IInv, KeptInv, HandInv, CallHandler \/ SkipFlagged \/ HandlerReturns
  PROVE  /\ HandingOver /\ HandingOver' /\ depth = 1 /\ depth' = 1
         /\ UNCHANGED <<slot, next, cur, reg, known, posted>> /\ TopEntry' = TopEntry
         /\ Top \in Frame /\ TopEntry.data \in Events
         /\ Top.item \in ListOf(Top.list) /\ Top.item \in Rids
         /\ Top'.i = Top.i /\ Top'.list = Top.list /\ Top'.q = Top.q /\ Top'.e = Top.e
         /\ ListOf(Top.list)' = ListOf(Top.list) /\ FirstUnread' = FirstUnread
<1>1. /\ HandingOver /\ Top.item # 0 /\ TypeOK /\ depth' = depth
      /\ UNCHANGED <<slot, next, cur, reg, known, posted>>
  BY DEF CallHandler, SkipFlagged, HandlerReturns, Walking, HandingOver, MoreHandlers, IInv,
     HandInv, InHand, histVars
<1>2. depth = 1 /\ Top \in Frame /\ TopEntry.data \in Events
  BY <1>1, InHandData DEF HandInv
<1>3. Top.item \in ListOf(Top.list) /\ Top.item \in Rids
  BY <1>1 DEF HandInv, InHand, ListOf
<1>4. /\ Top'.i = Top.i /\ Top'.list = Top.list /\ Top'.q = Top.q /\ Top'.e = Top.e
      /\ Top'.at \in {"call", "handler"}
  <2>1. CASE CallHandler
    <3>1. Top' = [Top EXCEPT !.at = "handler"]
      BY <1>1, <1>2, <2>1 DEF CallHandler, TypeOK, Top
    <3> QED
      BY <1>2, <3>1 DEF Frame
  <2>2. CASE WalkOn
    <3>1. PICK item \in Successors(Top.list, Top.item) :
            frame' = [frame EXCEPT ![depth] =
                        [at |-> "call", i |-> Top.i, q |-> Top.q, e |-> Top.e,
                         list |-> Top.list, item |-> item, n |-> Top.n + 1]]
      BY <2>2 DEF WalkOn
    <3> QED
      BY <1>1, <1>2, <3>1 DEF TypeOK, Top
  <2> QED
    BY <2>1, <2>2 DEF SkipFlagged, HandlerReturns
<1>5. HandingOver' /\ FirstUnread' = FirstUnread
  BY <1>1, <1>2, <1>4 DEF HandingOver, FirstUnread
<1>6. TopEntry' = TopEntry /\ ListOf(Top.list)' = ListOf(Top.list)
  BY <1>1, <1>4 DEF TopEntry, ListOf, InList
<1> QED
  BY <1>1, <1>2, <1>3, <1>4, <1>5, <1>6

LEMMA WalkBus ==
  ASSUME MaxDepth = 1, IInv, KeptInv, HandInv, BusInv,
         CallHandler \/ SkipFlagged \/ HandlerReturns
  PROVE  Unmarked' /\ InRange' /\ IdsKnown'
<1>1. pend' = pend
  BY WalkShape DEF pend
<1> QED
  BY <1>1, WalkShape DEF BusInv, Unmarked, InRange, IdsKnown, Live

LEMMA BusCall ==
  ASSUME MaxDepth = 1, IInv, KeptInv, HandInv, BusInv, CallHandler
  PROVE  BusInv'
<1> DEFINE d == TopEntry.data
           h == Top.item
<1>1. Top' = [Top EXCEPT !.at = "handler"] /\ Top.at = "call"
  BY WalkShape DEF CallHandler, Walking, IInv, TypeOK, Top
<1>2. Top'.at = "handler" /\ Top'.item = h /\ Top'.n = Top.n
  BY <1>1, WalkShape DEF Frame
<1>3. \A r \in Rids : /\ calls[r][d] > 0 => calls'[r][d] > 0
                     /\ calls'[h][d] > 0
  <2>1. calls' = [calls EXCEPT ![h][d] = @ + 1] /\ calls \in [Rids -> [Events -> Nat]]
    BY DEF CallHandler, IInv, TypeOK
  <2>2. h \in Rids /\ d \in Events
    BY WalkShape
  <2> HIDE DEF h, d
  <2> QED
    BY <2>1, <2>2
<1>4. \A r \in Rids : Reached(r)' => Reached(r) \/ r = h
  BY <1>1, <1>2 DEF Reached
<1>5. Before' = Before
  BY <1>2, WalkShape DEF Before
<1>6. WalkedAll'
  <2>1. ASSUME NEW r \in ListOf(Top.list), Reached(r)'
        PROVE  calls'[r][d] > 0 \/ reg[r].state = "flagged"
    <3>1. r \in Rids
      BY DEF ListOf
    <3> QED
      BY <1>3, <1>4, <2>1, <3>1, WalkShape DEF BusInv, WalkedAll
  <2>2. Top.item # 0 => Top.n = Cardinality(Before)
    BY WalkShape DEF BusInv, WalkedAll
  <2> QED
    BY <1>2, <1>5, <2>1, <2>2, WalkShape DEF WalkedAll
<1> QED
  BY <1>6, WalkBus DEF BusInv

LEMMA BusWalk ==
  ASSUME MaxDepth = 1, IInv, KeptInv, HandInv, BusInv, SkipFlagged \/ HandlerReturns
  PROVE  BusInv'
<1> DEFINE d == TopEntry.data
           h == Top.item
           later == {s \in ListOf(Top.list) : s > h}
<1>1. PICK item \in Successors(Top.list, h) :
        frame' = [frame EXCEPT ![depth] =
                    [at |-> "call", i |-> Top.i, q |-> Top.q, e |-> Top.e,
                     list |-> Top.list, item |-> item, n |-> Top.n + 1]]
  BY DEF SkipFlagged, HandlerReturns, WalkOn
<1>2. Top'.at = "call" /\ Top'.item = item /\ Top'.n = Top.n + 1
  BY <1>1, WalkShape DEF IInv, TypeOK, Top
<1>3. item = First(later) /\ later \in SUBSET Rids
  BY <1>1, WalkShape DEF Successors, ListOf
<1>4. \A r \in ListOf(Top.list) : r \in Rids /\ (item = 0 \/ r < item => ~(r > h))
  <2> SUFFICES ASSUME NEW r \in ListOf(Top.list), r > h PROVE item # 0 /\ ~(r < item)
    BY DEF ListOf
  <2>1. r \in later
    OBVIOUS
  <2> HIDE DEF later
  <2>2. item \in Rids /\ item <= r /\ r \in Rids
    BY <1>3, <2>1, FirstLeast
  <2> QED
    BY <2>2 DEF Rids
<1>5. \A r \in ListOf(Top.list) : Reached(r)' => Reached(r) \/ r = h
  <2> SUFFICES ASSUME NEW r \in ListOf(Top.list), Reached(r)' PROVE r < h \/ r = h
    BY DEF Reached
  <2>1. item = 0 \/ r < item
    BY <1>2 DEF Reached
  <2> QED
    BY <1>4, <2>1, WalkShape DEF Rids
<1>6. calls' = calls /\ (calls[h][d] > 0 \/ reg[h].state = "flagged")
  <2>1. CASE SkipFlagged
    BY <2>1 DEF SkipFlagged, histVars
  <2>2. CASE HandlerReturns
    <3>1. Reached(h)
      BY <2>2 DEF HandlerReturns, Reached
    <3> QED
      BY <2>2, <3>1, WalkShape DEF HandlerReturns, BusInv, WalkedAll, histVars
  <2> QED
    BY <2>1, <2>2
<1>7. ASSUME item # 0 PROVE Top.n + 1 = Cardinality(Before')
  <2>1. item \in later
    BY <1>3, <1>7, FirstType
  <2>2. item \in Rids /\ item > h /\ h \in Rids
    <3>1. item > h
      BY <2>1
    <3> QED
      BY <1>3, <2>1, <3>1, WalkShape
  <2>3. Before' = Before \cup {h}
    BY <1>2, <1>4, <2>2, WalkShape DEF Before, Rids
  <2>4. h \notin Before
    BY <2>2 DEF Before, Rids
  <2>5. IsFiniteSet(Before) /\ Cardinality(Before) \in Nat
    BY ListFinite DEF Before
  <2>6. Top.n = Cardinality(Before)
    BY <2>2, WalkShape DEF BusInv, WalkedAll, Rids
  <2> QED
    BY <2>3, <2>4, <2>5, <2>6, FS_AddElement
<1>8. WalkedAll'
  <2>1. ASSUME NEW r \in ListOf(Top.list), Reached(r)'
        PROVE  calls[r][d] > 0 \/ reg[r].state = "flagged"
    BY <1>5, <1>6, <2>1, WalkShape DEF BusInv, WalkedAll
  <2> QED
    BY <1>2, <1>6, <1>7, <2>1, WalkShape DEF WalkedAll
<1> QED
  BY <1>8, WalkBus DEF BusInv

LEMMA BusFinish ==
  ASSUME MaxDepth = 1, IInv, KeptInv, HandInv, BusInv, FinishEvent
  PROVE  BusInv' /\ ~HandingOver' /\ FirstUnread' = FirstUnread /\ pend' = pend
<1>1. /\ HandingOver /\ TypeOK /\ reg' = Purged(TopEntry.id)
      /\ UNCHANGED <<slot, next, cur, known, depth>>
      /\ frame' = [frame EXCEPT ![depth] = NextSlot]
  BY DEF FinishEvent, Walking, HandingOver, IInv
<1>2. depth = 1
  BY <1>1, InHandData DEF HandInv
<1>3. Top' = NextSlot /\ pend' = pend
  BY <1>1, <1>2 DEF TypeOK, Top, pend
<1>4. ~HandingOver' /\ FirstUnread' = FirstUnread
  BY <1>1, <1>2, <1>3 DEF HandingOver, FirstUnread, NextSlot, NewFrame
<1>5. \A r \in Rids : reg'[r].id = reg[r].id
  <2> SUFFICES ASSUME NEW r \in Rids PROVE reg'[r].id = reg[r].id
    OBVIOUS
  <2>1. reg[r] \in Registration
    BY <1>1 DEF TypeOK
  <2> QED
    BY <1>1, <2>1 DEF Purged, Registration
<1>6. Unmarked' /\ InRange' /\ IdsKnown' /\ WalkedAll'
  BY <1>1, <1>3, <1>4, <1>5 DEF BusInv, Unmarked, InRange, IdsKnown, WalkedAll, Live
<1> QED
  BY <1>3, <1>4, <1>6 DEF BusInv

LEMMA BusNextInv ==
  ASSUME MaxDepth = 1, IInv, KeptInv, HandInv, BusInv, [Next]_vars
  PROVE  BusInv'
<1>1. ASSUME NEW id \in EventIds, SendEvent(id) PROVE BusInv'
  BY <1>1, BusSend
<1>2. ASSUME NEW id \in EventIds, NEW key \in Keys, Register(id, key) \/ Unregister(id, key)
      PROVE  BusInv'
  BY <1>2, BusClient
<1>3. CASE UNCHANGED vars
  <2>1. UNCHANGED <<slot, next, cur, reg, known, frame, depth, calls>>
    BY <1>3 DEF vars, pumpVars, histVars
  <2>2. HandingOver => TopEntry' = TopEntry
    BY <2>1 DEF TopEntry, Top
  <2>3. WalkedAll' /\ IdsKnown' /\ FirstUnread' = FirstUnread /\ pend' = pend
    BY <2>1, <2>2, WalkedKept DEF pend
  <2>4. Unmarked' /\ InRange'
    BY <2>1, <2>3 DEF BusInv, Unmarked, InRange, Live
  <2> QED
    BY <2>3, <2>4 DEF BusInv
<1> QED
  BY <1>1, <1>2, <1>3, NothingSkipped, BusScan, BusTake, BusCall, BusWalk, BusFinish DEF Next, PollStep

LEMMA BusInvInit == Init => BusInv
<1> SUFFICES ASSUME Init PROVE BusInv
  OBVIOUS
<1>1. depth = 0 /\ ~HandingOver /\ FirstUnread = 1 /\ next = [q \in Queues |-> 0]
      /\ cur \in Queues /\ pend \in Queues
  BY DEF Init, HandingOver, FirstUnread, Queues, pend
<1>2. Unmarked /\ InRange
  BY <1>1 DEF Unmarked, InRange, Live, Slots
<1>3. WalkedAll /\ IdsKnown
  BY <1>1 DEF WalkedAll, IdsKnown, Init, InitReg
<1> QED
  BY <1>2, <1>3 DEF BusInv
-----------------------------------------------------------------------------
\* The events of one buffer that wait, as the bus sees them: those in the slots f to n.
Letters == [id : EventIds \cup {NoId}, data : 0 .. MaxEvents]
Letter(e) == [id |-> e.id, data |-> e.data]
Part(buffer, n, f) == [k \in 1 .. (n + 1 - f) |-> Letter(buffer[f + k - 1])]

LEMMA IntervalEnd ==
  ASSUME NEW m \in Nat, NEW n \in Nat, 1 .. m = 1 .. n
  PROVE  m = n
  OBVIOUS

LEMMA PartSeq ==
  ASSUME NEW buffer \in [Slots -> Entry], NEW n \in 0 .. MaxQueueSize, NEW f \in 1 .. n + 1
  PROVE  /\ Part(buffer, n, f) \in Seq(Letters)
         /\ Len(Part(buffer, n, f)) = n + 1 - f
         /\ \A k \in 1 .. (n + 1 - f) : Part(buffer, n, f)[k] = Letter(buffer[f + k - 1])
<1> DEFINE m == n + 1 - f
           part == Part(buffer, n, f)
<1>1. m \in Nat
  OBVIOUS
<1>2. ASSUME NEW k \in 1 .. m PROVE Letter(buffer[f + k - 1]) \in Letters
  <2>1. f + k - 1 \in Slots
    BY DEF Slots
  <2>2. buffer[f + k - 1] \in Entry
    BY <2>1
  <2> QED
    BY <2>2 DEF Letter, Letters, Entry
<1>3. part \in [1 .. m -> Letters]
  BY <1>2 DEF Part
<1>4. part \in Seq(Letters)
  BY <1>1, <1>3, SeqDef
<1>5. Len(part) = m
  <2>1. Len(part) \in Nat /\ DOMAIN part = 1 .. Len(part)
    BY <1>4, LenProperties
  <2>2. 1 .. Len(part) = 1 .. m
    BY <1>3, <2>1
  <2> HIDE DEF m, part
  <2> QED
    BY <1>1, <2>1, <2>2, IntervalEnd
<1> QED
  BY <1>4, <1>5 DEF Part

LEMMA PartWhole ==
  ASSUME NEW buffer \in [Slots -> Entry], NEW n \in 0 .. MaxQueueSize
  PROVE  /\ Part(buffer, n, 1) \in Seq(Letters)
         /\ Len(Part(buffer, n, 1)) = n
         /\ \A k \in 1 .. n : Part(buffer, n, 1)[k] = Letter(buffer[k])
<1>1. /\ Part(buffer, n, 1) \in Seq(Letters) /\ Len(Part(buffer, n, 1)) = n + 1 - 1
      /\ \A k \in 1 .. (n + 1 - 1) : Part(buffer, n, 1)[k] = Letter(buffer[1 + k - 1])
  BY PartSeq
<1> QED
  BY <1>1

LEMMA PartAppend ==
  ASSUME NEW buffer \in [Slots -> Entry], NEW n \in 0 .. MaxQueueSize, n < MaxQueueSize,
         NEW e \in Entry
  PROVE  Part([buffer EXCEPT ![n + 1] = e], n + 1, 1) = Append(Part(buffer, n, 1), Letter(e))
<1> DEFINE after == [buffer EXCEPT ![n + 1] = e]
           s == Part(after, n + 1, 1)
           t == Append(Part(buffer, n, 1), Letter(e))
<1>1. after \in [Slots -> Entry] /\ n + 1 \in 0 .. MaxQueueSize /\ n + 1 \in Slots
  BY DEF Slots
<1>2. s \in Seq(Letters) /\ Len(s) = n + 1 /\ \A k \in 1 .. n + 1 : s[k] = Letter(after[k])
  <2> HIDE DEF after
  <2> QED
    BY <1>1, PartWhole
<1>3. /\ Part(buffer, n, 1) \in Seq(Letters) /\ Len(Part(buffer, n, 1)) = n
      /\ \A k \in 1 .. n : Part(buffer, n, 1)[k] = Letter(buffer[k])
  BY PartWhole
<1>4. Letter(e) \in Letters
  BY DEF Letter, Letters, Entry
<1>5. /\ t \in Seq(Letters) /\ Len(t) = n + 1
      /\ \A k \in 1 .. n : t[k] = Letter(buffer[k])
      /\ t[n + 1] = Letter(e)
  BY <1>3, <1>4, AppendProperties
<1>6. ASSUME NEW k \in 1 .. n + 1 PROVE s[k] = t[k]
  <2>1. CASE k = n + 1
    <3>1. after[k] = e
      BY <1>1, <2>1
    <3> HIDE DEF s, t, after
    <3> QED
      BY <1>2, <1>5, <2>1, <3>1
  <2>2. CASE k # n + 1
    <3>1. after[k] = buffer[k] /\ k \in 1 .. n
      BY <1>1, <2>2 DEF Slots
    <3> HIDE DEF s, t, after
    <3> QED
      BY <1>2, <1>5, <3>1
  <2> QED
    BY <2>1, <2>2
<1> HIDE DEF s, t
<1>7. s = t
  BY <1>2, <1>5, <1>6, SeqEqual
<1> QED
  BY <1>7 DEF s, t

LEMMA PartTail ==
  ASSUME NEW buffer \in [Slots -> Entry], NEW n \in 0 .. MaxQueueSize, NEW f \in 1 .. n
  PROVE  /\ Part(buffer, n, f) # <<>>
         /\ Head(Part(buffer, n, f)) = Letter(buffer[f])
         /\ Tail(Part(buffer, n, f)) = Part(buffer, n, f + 1)
<1> DEFINE s == Part(buffer, n, f)
           t == Part(buffer, n, f + 1)
<1>1. f \in 1 .. n + 1 /\ f + 1 \in 1 .. n + 1 /\ n + 1 - (f + 1) = n - f
  OBVIOUS
<1>2. /\ s \in Seq(Letters) /\ Len(s) = n + 1 - f
      /\ \A k \in 1 .. (n + 1 - f) : s[k] = Letter(buffer[f + k - 1])
  BY <1>1, PartSeq
<1>3. /\ t \in Seq(Letters) /\ Len(t) = n - f
      /\ \A k \in 1 .. (n - f) : t[k] = Letter(buffer[(f + 1) + k - 1])
  <2>1. /\ t \in Seq(Letters) /\ Len(t) = n + 1 - (f + 1)
        /\ \A k \in 1 .. (n + 1 - (f + 1)) : t[k] = Letter(buffer[(f + 1) + k - 1])
    BY <1>1, PartSeq
  <2> HIDE DEF t
  <2> QED
    BY <1>1, <2>1
<1> HIDE DEF s, t
<1>4. s # <<>>
  BY <1>2, EmptySeq
<1>5. Head(s) = s[1] /\ s[1] = Letter(buffer[f])
  <2>1. 1 \in 1 .. (n + 1 - f) /\ f + 1 - 1 = f
    OBVIOUS
  <2> QED
    BY <1>2, <1>4, <2>1
<1>6. /\ Tail(s) \in Seq(Letters) /\ Len(Tail(s)) = Len(s) - 1
      /\ \A k \in 1 .. Len(Tail(s)) : Tail(s)[k] = s[k + 1]
  BY <1>2, <1>4, HeadTailProperties
<1>7. ASSUME NEW k \in 1 .. (n - f) PROVE Tail(s)[k] = t[k]
  <2>1. k + 1 \in 1 .. (n + 1 - f) /\ f + (k + 1) - 1 = (f + 1) + k - 1
    OBVIOUS
  <2>3. Len(Tail(s)) = n - f
    BY <1>2, <1>6
  <2>2. s[k + 1] = Letter(buffer[f + (k + 1) - 1])
    BY <1>2, <2>1
  <2> QED
    BY <1>3, <1>6, <2>1, <2>2, <2>3
<1>8. Tail(s) = t
  <2>1. Len(Tail(s)) = n - f
    BY <1>2, <1>6
  <2> QED
    BY <1>3, <1>6, <1>7, <2>1, SeqEqual
<1> QED
  BY <1>4, <1>5, <1>8 DEF s, t

\* Only the slots from the first one unread on matter.
LEMMA PartSame ==
  ASSUME NEW b \in [Slots -> Entry], NEW c \in [Slots -> Entry],
         NEW n \in 0 .. MaxQueueSize, NEW f \in 1 .. n + 1,
         \A s \in Slots : f <= s /\ s <= n => c[s].id = b[s].id /\ c[s].data = b[s].data
  PROVE  Part(c, n, f) = Part(b, n, f)
<1>1. ASSUME NEW k \in 1 .. (n + 1 - f) PROVE Letter(c[f + k - 1]) = Letter(b[f + k - 1])
  <2>1. f + k - 1 \in Slots /\ f <= f + k - 1 /\ f + k - 1 <= n
    BY DEF Slots
  <2> QED
    BY <2>1 DEF Letter
<1> QED
  BY <1>1 DEF Part

LEMMA PartEmpty ==
  ASSUME NEW buffer \in [Slots -> Entry], NEW n \in 0 .. MaxQueueSize
  PROVE  Part(buffer, n, n + 1) = <<>>
<1>1. n + 1 \in 1 .. n + 1 /\ n + 1 - (n + 1) = 0
  OBVIOUS
<1>2. Part(buffer, n, n + 1) \in Seq(Letters) /\ Len(Part(buffer, n, n + 1)) = 0
  BY <1>1, PartSeq
<1> QED
  BY <1>2, EmptySeq

LEMMA AppendBehind ==
  ASSUME NEW s \in Seq(Letters), NEW t \in Seq(Letters), NEW e \in Letters
  PROVE  s \o Append(t, e) = Append(s \o t, e)
<1>1. <<e>> \in Seq(Letters) /\ s \o t \in Seq(Letters)
  BY ConcatProperties
<1>2. Append(t, e) = t \o <<e>> /\ Append(s \o t, e) = (s \o t) \o <<e>>
  BY <1>1, AppendIsConcat
<1> QED
  BY <1>1, <1>2, ConcatAssociative

LEMMA TailOfBoth ==
  ASSUME NEW s \in Seq(Letters), NEW t \in Seq(Letters), s # <<>>
  PROVE  /\ s \o t # <<>>
         /\ Head(s \o t) = Head(s)
         /\ Tail(s \o t) = Tail(s) \o t
<1> DEFINE both == s \o t
<1>1. /\ both \in Seq(Letters) /\ Len(both) = Len(s) + Len(t)
      /\ \A k \in 1 .. Len(s) + Len(t) : both[k] = IF k <= Len(s) THEN s[k] ELSE t[k - Len(s)]
  BY ConcatProperties
<1>2. Len(s) \in Nat \ {0} /\ Len(t) \in Nat
  BY EmptySeq, LenProperties
<1>3. both # <<>>
  BY ConcatEqualIffEmpty
<1>4. /\ Tail(s) \in Seq(Letters) /\ Len(Tail(s)) = Len(s) - 1
      /\ \A k \in 1 .. Len(Tail(s)) : Tail(s)[k] = s[k + 1]
  BY HeadTailProperties
<1> HIDE DEF both
<1>5. /\ Tail(both) \in Seq(Letters) /\ Len(Tail(both)) = Len(both) - 1
      /\ \A k \in 1 .. Len(Tail(both)) : Tail(both)[k] = both[k + 1]
  BY <1>1, <1>3, HeadTailProperties
<1>6. Head(both) = Head(s)
  <2>1. Head(both) = both[1] /\ Head(s) = s[1]
    BY <1>1, <1>3
  <2> QED
    BY <1>1, <1>2, <2>1
<1>7. /\ Tail(s) \o t \in Seq(Letters) /\ Len(Tail(s) \o t) = Len(s) - 1 + Len(t)
      /\ \A k \in 1 .. Len(s) - 1 + Len(t) : (Tail(s) \o t)[k] =
            IF k <= Len(s) - 1 THEN Tail(s)[k] ELSE t[k - (Len(s) - 1)]
  BY <1>4, ConcatProperties
<1>8. ASSUME NEW k \in 1 .. Len(s) - 1 + Len(t) PROVE Tail(both)[k] = (Tail(s) \o t)[k]
  <2>1. Tail(both)[k] = both[k + 1] /\ k + 1 \in 1 .. Len(s) + Len(t)
    BY <1>1, <1>2, <1>5
  <2>2. CASE k <= Len(s) - 1
    <3>1. k + 1 <= Len(s) /\ k \in 1 .. Len(Tail(s))
      BY <1>2, <1>4, <2>2
    <3> QED
      BY <1>1, <1>4, <1>7, <2>1, <2>2, <3>1
  <2>3. CASE ~(k <= Len(s) - 1)
    <3>1. ~(k + 1 <= Len(s)) /\ k + 1 - Len(s) = k - (Len(s) - 1)
      BY <1>2, <2>3
    <3> QED
      BY <1>1, <1>7, <2>1, <2>3, <3>1
  <2> QED
    BY <2>2, <2>3
<1>9. Tail(both) = Tail(s) \o t
  <2>1. Len(Tail(both)) = Len(s) - 1 + Len(t)
    BY <1>1, <1>2, <1>5
  <2> QED
    BY <1>5, <1>7, <1>8, <2>1, SeqEqual
<1> QED
  BY <1>3, <1>6, <1>9 DEF both
-----------------------------------------------------------------------------
\* The values the bus is given in EventPump's INSTANCE of it.
Waits  == Unread(cur, FirstUnread) \o Unread(pend, 1)
Flight == IF HandingOver THEN Message(Top.q, Top.e) ELSE NoId
Served == IF HandingOver THEN {r \in Rids : calls[r][TopEntry.data] > 0} ELSE {}
Listed == [id \in EventIds |-> {r \in ListOf(id) : reg[r].state = "listed"}]

LEMMA WaitsParts ==
  /\ Waits = Part(slot[cur], next[cur], FirstUnread) \o Part(slot[pend], next[pend], 1)
  /\ Waits' = Part(slot'[cur'], next'[cur'], FirstUnread') \o Part(slot'[pend'], next'[pend'], 1)
  BY DEF Waits, Unread, Message, Part, Letter

LEMMA FlightLetter ==
  /\ Flight = IF HandingOver THEN Letter(TopEntry) ELSE NoId
  /\ Flight' = IF HandingOver' THEN Letter(TopEntry') ELSE NoId
  BY DEF Flight, Message, TopEntry, Letter

LEMMA PartsTyped ==
  ASSUME IInv, BusInv
  PROVE  /\ cur \in Queues /\ pend \in Queues /\ pend # cur /\ Queues = {cur, pend}
         /\ slot[cur] \in [Slots -> Entry] /\ slot[pend] \in [Slots -> Entry]
         /\ next[cur] \in 0 .. MaxQueueSize /\ next[pend] \in 0 .. MaxQueueSize
         /\ FirstUnread \in 1 .. next[cur] + 1
<1>1. cur \in Queues /\ pend \in Queues /\ pend # cur /\ Queues = {cur, pend} /\ TypeOK
  BY DEF IInv, TypeOK, pend, Queues
<1>2. /\ slot[cur] \in [Slots -> Entry] /\ slot[pend] \in [Slots -> Entry]
      /\ next[cur] \in 0 .. MaxQueueSize /\ next[pend] \in 0 .. MaxQueueSize
  BY <1>1 DEF TypeOK
<1>3. FirstUnread \in Nat \ {0}
  <2>1. depth > 0 => Top.i \in Nat \ {0}
    BY <1>1, TopType DEF Frame
  <2>2. depth \in Nat
    BY <1>1 DEF TypeOK
  <2> QED
    BY <2>1, <2>2 DEF FirstUnread
<1> QED
  BY <1>1, <1>2, <1>3 DEF BusInv, InRange

LEMMA SeenKept ==
  ASSUME UNCHANGED <<slot, next, cur>>, FirstUnread' = FirstUnread
  PROVE  Waits' = Waits
<1>1. pend' = pend
  BY DEF pend
<1> QED
  BY <1>1, WaitsParts

LEMMA FlightKept ==
  ASSUME HandingOver' = HandingOver, HandingOver => TopEntry' = TopEntry, calls' = calls
  PROVE  Flight' = Flight /\ Served' = Served
  BY FlightLetter DEF Served

LEMMA ListedKept ==
  ASSUME reg' = reg
  PROVE  Listed' = Listed
  BY DEF Listed, ListOf, InList

\* A post that is accepted goes behind everything that waits.
LEMMA PostShown ==
  ASSUME IInv, HandInv, BusInv, NEW id \in EventIds, SendEvent(id), HasRoom
  PROVE  /\ posted' = posted + 1
         /\ Len(Waits) < 2 * MaxQueueSize
         /\ Waits' = Append(Waits, [id |-> id, data |-> posted + 1])
         /\ Flight' = Flight /\ Served' = Served /\ Listed' = Listed
<1> DEFINE e == [id |-> id, data |-> posted + 1, processing |-> FALSE]
           ahead == Part(slot[cur], next[cur], FirstUnread)
           behind == Part(slot[pend], next[pend], 1)
<1>1. /\ UNCHANGED <<cur, reg, frame, depth, calls>> /\ posted' = posted + 1
      /\ slot' = [slot EXCEPT ![pend] = [slot[pend] EXCEPT ![next[pend] + 1] = e]]
      /\ next' = [next EXCEPT ![pend] = next[pend] + 1]
      /\ next[pend] < MaxQueueSize /\ posted + 1 \in 0 .. MaxEvents /\ TypeOK
  BY DEF SendEvent, HasRoom, IInv, TypeOK
<1>2. /\ slot'[cur] = slot[cur] /\ next'[cur] = next[cur] /\ next'[pend] = next[pend] + 1
      /\ slot'[pend] = [slot[pend] EXCEPT ![next[pend] + 1] = e]
  BY <1>1, PartsTyped DEF TypeOK
<1>3. /\ pend' = pend /\ HandingOver' = HandingOver /\ FirstUnread' = FirstUnread
      /\ Top' = Top
  BY <1>1 DEF pend, HandingOver, FirstUnread, Top
<1>4. HandingOver => TopEntry' = TopEntry
  BY <1>2, <1>3 DEF HandInv, InHand, TopEntry
<1>5. e \in Entry /\ Letter(e) = [id |-> id, data |-> posted + 1] /\ Letter(e) \in Letters
  BY <1>1 DEF Entry, Letter, Letters
<1>6. /\ ahead \in Seq(Letters) /\ behind \in Seq(Letters)
      /\ Len(ahead) = next[cur] + 1 - FirstUnread /\ Len(behind) = next[pend]
  <2>1. ahead \in Seq(Letters) /\ Len(ahead) = next[cur] + 1 - FirstUnread
    BY PartsTyped, PartSeq
  <2>2. behind \in Seq(Letters) /\ Len(behind) = next[pend]
    BY PartsTyped, PartWhole
  <2> QED
    BY <2>1, <2>2
<1>7. Len(Waits) < 2 * MaxQueueSize
  <2>1. Len(ahead \o behind) = Len(ahead) + Len(behind)
    BY <1>6, ConcatProperties
  <2>2. Len(ahead) <= MaxQueueSize /\ Len(behind) < MaxQueueSize
    BY <1>1, <1>6, PartsTyped
  <2>3. Len(ahead) \in Nat /\ Len(behind) \in Nat
    BY <1>6, LenProperties
  <2> HIDE DEF ahead, behind
  <2>4. Len(ahead) + Len(behind) < 2 * MaxQueueSize
    BY <2>2, <2>3
  <2> QED
    BY <2>1, <2>4, WaitsParts DEF ahead, behind
<1>8. Part(slot'[pend'], next'[pend'], 1) = Append(behind, Letter(e))
  <2>1. slot'[pend'] = [slot[pend] EXCEPT ![next[pend] + 1] = e] /\ next'[pend'] = next[pend] + 1
    BY <1>2, <1>3
  <2> HIDE DEF e
  <2>2. Part([slot[pend] EXCEPT ![next[pend] + 1] = e], next[pend] + 1, 1) = Append(behind, Letter(e))
    BY <1>1, <1>5, PartsTyped, PartAppend
  <2> QED
    BY <2>1, <2>2
<1>9. Waits' = Append(Waits, Letter(e))
  <2>1. Waits' = ahead \o Append(behind, Letter(e)) /\ Waits = ahead \o behind
    BY <1>1, <1>2, <1>3, <1>8, WaitsParts
  <2> HIDE DEF ahead, behind, e
  <2> QED
    BY <1>5, <1>6, <2>1, AppendBehind
<1> QED
  BY <1>1, <1>3, <1>4, <1>5, <1>7, <1>9, FlightKept, ListedKept

\* A post is refused only while the buffer being filled is full.
LEMMA RefuseShown ==
  ASSUME IInv, BusInv, NEW id \in EventIds, SendEvent(id), ~HasRoom
  PROVE  /\ posted' = posted + 1
         /\ Len(Waits) >= MaxQueueSize
         /\ Waits' = Waits /\ Flight' = Flight /\ Served' = Served /\ Listed' = Listed
<1> DEFINE ahead == Part(slot[cur], next[cur], FirstUnread)
           behind == Part(slot[pend], next[pend], 1)
<1>1. UNCHANGED <<slot, next, cur, reg, frame, depth, calls>> /\ posted' = posted + 1
  BY DEF SendEvent
<1>2. Top' = Top /\ HandingOver' = HandingOver /\ FirstUnread' = FirstUnread /\ TopEntry' = TopEntry
  BY <1>1 DEF HandingOver, FirstUnread, Top, TopEntry
<1>3. /\ ahead \in Seq(Letters) /\ behind \in Seq(Letters) /\ Len(behind) = next[pend]
  BY PartsTyped, PartSeq, PartWhole
<1>4. Len(Waits) >= MaxQueueSize
  <2>1. Len(ahead \o behind) = Len(ahead) + Len(behind) /\ Len(ahead) \in Nat
    BY <1>3, ConcatProperties, LenProperties
  <2>2. Len(behind) >= MaxQueueSize /\ Len(behind) \in Nat
    BY <1>3, PartsTyped DEF HasRoom
  <2> HIDE DEF ahead, behind
  <2>3. Len(ahead) + Len(behind) >= MaxQueueSize
    BY <2>1, <2>2
  <2> QED
    BY <2>1, <2>3, WaitsParts DEF ahead, behind
<1> QED
  BY <1>1, <1>2, <1>4, SeenKept, FlightKept, ListedKept

\* Beginning a poll shows nothing; ending one neither, for the buffer it leaves is read
\* to its end and the one filled meanwhile takes its place.
LEMMA PollShown ==
  ASSUME MaxDepth = 1, IInv, BusInv, PollBegin \/ PollEnd
  PROVE  posted' = posted /\ Waits' = Waits /\ Flight' = Flight /\ Served' = Served /\ Listed' = Listed
<1>1. /\ UNCHANGED <<slot, reg, posted, calls>> /\ TypeOK
      /\ ~HandingOver /\ ~HandingOver' /\ FirstUnread' = 1
  <2>1. UNCHANGED <<slot, reg, posted, calls>> /\ TypeOK
    BY DEF PollBegin, PollEnd, IInv, histVars
  <2>2. depth' = 0 \/ Top' = NewFrame
    BY <2>1 DEF PollBegin, PollEnd, TypeOK, Top, Scanning
  <2>3. depth = 0 \/ Top.at = "scan"
    BY <2>1 DEF PollBegin, PollEnd, TypeOK, Scanning
  <2> QED
    BY <2>1, <2>2, <2>3 DEF HandingOver, FirstUnread, NewFrame
<1>2. Flight' = Flight /\ Served' = Served /\ Listed' = Listed
  BY <1>1, FlightLetter, ListedKept DEF Served
<1>3. CASE PollBegin
  <2>1. UNCHANGED <<next, cur>> /\ depth = 0 /\ FirstUnread = 1
    BY <1>1, <1>3 DEF PollBegin, TypeOK, FirstUnread
  <2> QED
    BY <1>1, <1>2, <2>1, SeenKept
<1>4. CASE PollEnd
  <2> DEFINE behind == Part(slot[pend], next[pend], 1)
  <2>1. /\ cur' = pend /\ pend' = cur /\ next'[cur] = 0 /\ next'[pend] = next[pend]
    BY <1>1, <1>4 DEF PollEnd, Swapped, Emptied, pend, TypeOK, Queues
  <2>2. FirstUnread = next[cur] + 1
    <3>1. FirstUnread = Top.i /\ Top.i > next[cur]
      BY <1>1, <1>4 DEF PollEnd, Scanning, FirstUnread, HandingOver, TypeOK
    <3> QED
      BY <3>1, PartsTyped
  <2>3. Part(slot[cur], next[cur], FirstUnread) = <<>>
    BY <2>2, PartsTyped, PartEmpty
  <2>4. Part(slot[cur], 0, 1) = <<>>
    <3>1. 0 \in 0 .. MaxQueueSize /\ Part(slot[cur], 0, 1) = Part(slot[cur], 0, 0 + 1)
      OBVIOUS
    <3> QED
      BY <3>1, PartsTyped, PartEmpty
  <2>5. behind \in Seq(Letters)
    BY PartsTyped, PartWhole
  <2>6. Waits = <<>> \o behind /\ Waits' = behind \o <<>>
    BY <1>1, <2>1, <2>3, <2>4, WaitsParts
  <2> HIDE DEF behind
  <2>7. Waits' = Waits
    BY <2>5, <2>6, ConcatEmptySeq
  <2> QED
    BY <1>1, <1>2, <2>7
<1> QED
  BY <1>3, <1>4

\* A registration appears as a subscriber that was none before.
LEMMA RegisterShown ==
  ASSUME IInv, HandInv, BusInv, NEW id \in EventIds, NEW key \in Keys, Register(id, key)
  PROVE  /\ nregs + 1 \in Rids
         /\ \A other \in EventIds : nregs + 1 \notin Listed[other]
         /\ Listed' = [Listed EXCEPT ![id] = @ \cup {nregs + 1}]
         /\ posted' = posted /\ Waits' = Waits /\ Flight' = Flight /\ Served' = Served
<1> DEFINE new == nregs + 1
<1>1. /\ UNCHANGED <<slot, next, cur, frame, depth, calls, posted>> /\ TypeOK
      /\ reg' = [reg EXCEPT ![new] = [state |-> "listed", id |-> id, key |-> key]]
      /\ new \in Rids
  BY DEF Register, histVars, IInv, TypeOK, Rids
<1>2. /\ HandingOver' = HandingOver /\ FirstUnread' = FirstUnread /\ TopEntry' = TopEntry
  BY <1>1 DEF HandingOver, FirstUnread, Top, TopEntry
<1>3. reg[new].id = NoId
  <2>1. nregs \in Nat
    BY <1>1 DEF TypeOK
  <2> QED
    BY <1>1, <2>1 DEF HandInv, Made
<1>4. \A other \in EventIds : new \notin Listed[other]
  BY <1>3 DEF Listed, ListOf, InList
<1>5. /\ reg'[new].id = id /\ reg'[new].state = "listed"
      /\ \A r \in Rids : r # new => reg'[r] = reg[r]
  BY <1>1 DEF TypeOK
<1>6. ASSUME NEW other \in EventIds
      PROVE  Listed'[other] = IF other = id THEN Listed[other] \cup {new} ELSE Listed[other]
  <2> HIDE DEF new
  <2> QED
    BY <1>1, <1>3, <1>5 DEF Listed, ListOf, InList
<1>7. Listed' = [Listed EXCEPT ![id] = @ \cup {new}]
  BY <1>6 DEF Listed
<1> QED
  BY <1>1, <1>2, <1>4, <1>7, SeenKept, FlightKept

\* Unregistering takes the subscriber out, or finds it out already.
LEMMA UnregisterShown ==
  ASSUME IInv, NEW id \in EventIds, NEW key \in Keys, Unregister(id, key)
  PROVE  /\ \/ \E r \in Rids : r \in Listed[id] /\ Listed' = [Listed EXCEPT ![id] = @ \ {r}]
            \/ Listed' = Listed
         /\ posted' = posted /\ Waits' = Waits /\ Flight' = Flight /\ Served' = Served
<1> DEFINE matches == {r \in ListOf(id) : reg[r].key = key}
           first == First(matches)
<1>1. /\ UNCHANGED <<slot, next, cur, frame, depth, calls, posted>> /\ TypeOK
      /\ reg' = [reg EXCEPT ![first] = [reg[first] EXCEPT !.state = "flagged"]]
      /\ matches \in SUBSET Rids /\ matches # {}
  BY DEF Unregister, histVars, IInv, ListOf
<1>2. /\ HandingOver' = HandingOver /\ FirstUnread' = FirstUnread /\ TopEntry' = TopEntry
  BY <1>1 DEF HandingOver, FirstUnread, Top, TopEntry
<1>3. first \in matches
  <2> HIDE DEF matches
  <2> QED
    BY <1>1, FirstLeast
<1>4. first \in Rids /\ reg[first].id = id /\ reg[first].state \in {"listed", "flagged"}
  <2> HIDE DEF first
  <2> QED
    BY <1>3 DEF ListOf, InList
<1> HIDE DEF first
<1>5. ASSUME NEW r \in Rids
      PROVE  /\ r # first => reg'[r] = reg[r]
             /\ reg'[first].id = id /\ reg'[first].state = "flagged"
  <2>1. reg[first] \in Registration /\ reg \in [Rids -> Registration]
    BY <1>1, <1>4 DEF TypeOK
  <2>2. reg'[first] = [reg[first] EXCEPT !.state = "flagged"] /\ (r # first => reg'[r] = reg[r])
    BY <1>1, <1>4, <2>1
  <2> QED
    BY <1>4, <2>1, <2>2 DEF Registration
<1>6. ASSUME NEW other \in EventIds
      PROVE  Listed'[other] = IF other = id THEN Listed[other] \ {first} ELSE Listed[other]
  BY <1>4, <1>5 DEF Listed, ListOf, InList
<1>7. Listed' = [Listed EXCEPT ![id] = @ \ {first}]
  BY <1>6 DEF Listed
<1>8. CASE first \in Listed[id]
  BY <1>1, <1>2, <1>4, <1>7, <1>8, SeenKept, FlightKept
<1>9. CASE first \notin Listed[id]
  <2>1. Listed' = Listed
    BY <1>6, <1>9 DEF Listed
  <2> QED
    BY <1>1, <1>2, <2>1, SeenKept, FlightKept
<1> QED
  BY <1>8, <1>9

\* The event taken is the one that waited longest.
LEMMA TakeShown ==
  ASSUME MaxDepth = 1, IInv, KeptInv, HandInv, BusInv, TakeEvent
  PROVE  /\ Flight = NoId /\ Waits # <<>> /\ Waits' = Tail(Waits)
         /\ \/ Flight' = Head(Waits)
            \/ Flight' = NoId /\ Listed[Head(Waits).id] = {}
         /\ posted' = posted /\ Served' = Served /\ Listed' = Listed
<1> DEFINE e == slot[cur][Top.i]
           ahead == Part(slot[cur], next[cur], FirstUnread)
           behind == Part(slot[pend], next[pend], 1)
<1>1. FirstUnread = Top.i /\ Top.i \in 1 .. next[cur] /\ Top.i + 1 \in 1 .. next[cur] + 1
  BY TakenShape, PartsTyped DEF Live
<1>2. ahead # <<>> /\ Head(ahead) = Letter(e) /\ Tail(ahead) = Part(slot[cur], next[cur], Top.i + 1)
  BY <1>1, PartsTyped, PartTail
<1>3. Waits # <<>> /\ Head(Waits) = Letter(e) /\ Tail(Waits) = Tail(ahead) \o behind
  <2>1. ahead \in Seq(Letters)
    BY PartsTyped, PartSeq
  <2>2. behind \in Seq(Letters)
    BY PartsTyped, PartWhole
  <2> HIDE DEF ahead, behind
  <2>3. ahead \o behind # <<>> /\ Head(ahead \o behind) = Letter(e)
        /\ Tail(ahead \o behind) = Tail(ahead) \o behind
    BY <1>2, <2>1, <2>2, TailOfBoth
  <2> QED
    BY <2>3, WaitsParts DEF ahead, behind
<1>4. Part(slot'[cur], next[cur], Top.i + 1) = Part(slot[cur], next[cur], Top.i + 1)
  <2>1. slot'[cur] \in [Slots -> Entry]
    <3>1. IInv'
      BY NextInv DEF Next, PollStep
    <3> QED
      BY <3>1, TakenShape DEF IInv, TypeOK
  <2>2. /\ slot[cur] \in [Slots -> Entry] /\ next[cur] \in 0 .. MaxQueueSize
        /\ \A s \in Slots : slot'[cur][s].id = slot[cur][s].id
                            /\ slot'[cur][s].data = slot[cur][s].data
    BY PartsTyped, TakenShape
  <2> QED
    BY <1>1, <2>1, <2>2, PartSame
<1>5. Waits' = Tail(Waits)
  BY <1>2, <1>3, <1>4, TakenShape, WaitsParts
<1>6. Flight = NoId /\ Served = {} /\ Listed' = Listed
  BY TakenShape, FlightLetter, ListedKept DEF Served
<1>7. CASE e.id \in known
  <2>1. Top' = [at |-> "call", i |-> Top.i, q |-> cur, e |-> Top.i, list |-> e.id,
                item |-> First(ListOf(e.id)), n |-> 0]
    BY <1>7, TakenShape DEF TakeEvent, IInv, TypeOK, Top
  <2>2. HandingOver' /\ TopEntry' = slot'[cur][Top.i]
    <3>1. Top'.at = "call" /\ Top'.q = cur /\ Top'.e = Top.i
      BY <2>1
    <3> QED
      BY <3>1, TakenShape DEF HandingOver, TopEntry
  <2>3. TopEntry'.id = e.id /\ TopEntry'.data = e.data
    BY <2>2, TakenShape
  <2>4. Flight' = Letter(e)
    BY <2>2, <2>3, FlightLetter DEF Letter
  <2>5. Served' = {}
    <3>1. e.data \in accepted /\ e.data \notin taken
      BY TakenShape DEF IInv, SlotsHoldAccepted, TakeEvent, Marked
    <3>2. e.data \in Events
      BY <3>1 DEF IInv, TypeOK
    <3>3. \A r \in Rids : ~(calls[r][e.data] > 0)
      BY <3>1, <3>2 DEF HandInv, CallsKnown
    <3> QED
      BY <2>2, <2>3, <3>3, TakenShape DEF Served
  <2> QED
    BY <1>3, <1>5, <1>6, <2>4, <2>5, TakenShape
<1>8. CASE e.id \notin known
  <2>1. Top' = NextSlot
    BY <1>8, TakenShape DEF TakeEvent, IInv, TypeOK, Top
  <2>2. ~HandingOver'
    BY <2>1 DEF HandingOver, NextSlot, NewFrame
  <2>3. Flight' = NoId /\ Served' = {}
    BY <2>2, FlightLetter DEF Served
  <2>4. Listed[e.id] = {} /\ Letter(e).id = e.id
    BY <1>8, TakenShape DEF BusInv, IdsKnown, Listed, ListOf, InList, Letter
  <2> QED
    BY <1>3, <1>5, <1>6, <2>3, <2>4, TakenShape
<1> QED
  BY <1>7, <1>8

\* The event in hand is one: not the value that stands for none.
LEMMA FlightIsOne ==
  ASSUME MaxDepth = 1, IInv, KeptInv, HandInv, HandingOver
  PROVE  Flight # NoId /\ Flight.id = Top.list /\ Top.list \in EventIds
<1>1. TopEntry.data \in Events /\ TopEntry.id = Top.list /\ Top.list \in EventIds
  BY InHandData DEF HandInv, InHand
<1>2. Letter(TopEntry) \in [id : EventIds, data : 1 .. MaxEvents]
  BY <1>1 DEF Letter, Events
<1> QED
  BY <1>1, <1>2, FlightLetter DEF Letter

\* A handler that is called is a subscriber that did not have the event yet.
LEMMA CallShown ==
  ASSUME MaxDepth = 1, IInv, KeptInv, HandInv, BusInv, CallHandler
  PROVE  /\ Flight # NoId
         /\ Top.item \in Rids /\ Top.item \in Listed[Flight.id] \ Served
         /\ Served' = Served \cup {Top.item}
         /\ posted' = posted /\ Waits' = Waits /\ Flight' = Flight /\ Listed' = Listed
<1> DEFINE d == TopEntry.data
           h == Top.item
<1>1. Flight # NoId /\ Flight.id = Top.list /\ Top.list \in EventIds
  BY WalkShape, FlightIsOne
<1>2. h \in Listed[Flight.id]
  <2>1. h \in ListOf(Top.list) /\ reg[h].state = "listed"
    BY WalkShape DEF CallHandler, ListOf, InList
  <2> QED
    BY <1>1, <2>1 DEF Listed
<1>3. h \notin Served
  <2>1. Top.at = "call" /\ h # 0 /\ h \in Rids /\ HandingOver
    BY WalkShape DEF CallHandler, Walking, Rids
  <2>2. ~(h < h)
    BY <2>1 DEF Rids
  <2> QED
    BY <2>1, <2>2 DEF Served, HandInv, CalledSoFar
<1>4. Served' = Served \cup {h}
  <2>1. calls' = [calls EXCEPT ![h][d] = @ + 1] /\ calls \in [Rids -> [Events -> Nat]]
    BY DEF CallHandler, IInv, TypeOK
  <2>2. h \in Rids /\ d \in Events /\ HandingOver /\ HandingOver' /\ TopEntry' = TopEntry
    BY WalkShape
  <2> HIDE DEF h, d
  <2>3. \A r \in Rids : calls'[r][d] > 0 <=> calls[r][d] > 0 \/ r = h
    BY <2>1, <2>2
  <2> QED
    BY <2>2, <2>3 DEF Served, d
<1>5. Waits' = Waits /\ Flight' = Flight /\ Listed' = Listed
  BY WalkShape, SeenKept, FlightLetter, ListedKept
<1> QED
  BY <1>1, <1>2, <1>3, <1>4, <1>5, WalkShape

\* Going on to the next handler shows nothing.
LEMMA WalkShown ==
  ASSUME MaxDepth = 1, IInv, KeptInv, HandInv, SkipFlagged \/ HandlerReturns
  PROVE  posted' = posted /\ Waits' = Waits /\ Flight' = Flight /\ Served' = Served /\ Listed' = Listed
<1>1. calls' = calls
  BY DEF SkipFlagged, HandlerReturns, histVars
<1> QED
  BY <1>1, WalkShape, SeenKept, FlightKept, ListedKept

\* When the event is done with, every subscriber has had it.
LEMMA FinishShown ==
  ASSUME MaxDepth = 1, IInv, KeptInv, HandInv, BusInv, FinishEvent
  PROVE  /\ Flight # NoId
         /\ Listed[Flight.id] \subseteq Served
         /\ Flight' = NoId /\ Served' = {}
         /\ posted' = posted /\ Waits' = Waits /\ Listed' = Listed
<1>1. /\ HandingOver /\ TypeOK /\ reg' = Purged(TopEntry.id) /\ ~MoreHandlers
      /\ UNCHANGED <<slot, next, cur, known, depth, posted>>
  BY DEF FinishEvent, Walking, HandingOver, IInv
<1>2. Flight # NoId /\ Flight.id = Top.list /\ Top.list \in EventIds
  BY <1>1, FlightIsOne
<1>3. Flight' = NoId /\ Served' = {} /\ Waits' = Waits
  BY <1>1, BusFinish, FlightLetter, SeenKept DEF Served
<1>4. Listed' = Listed
  <2>1. ASSUME NEW r \in Rids
        PROVE  /\ reg'[r].id = reg[r].id
               /\ reg'[r].state = "listed" <=> reg[r].state = "listed"
    <3>1. reg[r] \in Registration
      BY <1>1 DEF TypeOK
    <3> QED
      BY <1>1, <3>1 DEF Purged, Registration
  <2> QED
    BY <2>1 DEF Listed, ListOf, InList
<1>5. Top.item = 0
  <2> SUFFICES ASSUME Top.item # 0 PROVE FALSE
    OBVIOUS
  <2> DEFINE all == ListOf(Top.list)
  <2>1. Top.item \in all /\ Top.n = Cardinality(Before)
    BY <1>1 DEF HandInv, InHand, BusInv, WalkedAll
  <2>2. Top.item \in Rids /\ Top.item \notin Before
    BY <2>1 DEF Before, ListOf, Rids
  <2>3. Before \cup {Top.item} \in SUBSET all
    BY <2>1 DEF Before
  <2>4. IsFiniteSet(Before) /\ Cardinality(Before) \in Nat
    <3>1. Before \in SUBSET ListOf(Top.list)
      BY DEF Before
    <3> QED
      BY <3>1, ListFinite
  <2>5. Cardinality(Before \cup {Top.item}) = Cardinality(Before) + 1
    BY <2>2, <2>4, FS_AddElement
  <2>6. /\ Cardinality(Before \cup {Top.item}) <= Cardinality(all)
        /\ Cardinality(all) \in Nat
    BY <2>3, ListFinite
  <2>7. ~(Top.n < Cardinality(all))
    BY <1>1 DEF MoreHandlers
  <2> HIDE DEF all
  <2> QED
    BY <2>1, <2>4, <2>5, <2>6, <2>7
<1>6. Listed[Flight.id] \subseteq Served
  <2> SUFFICES ASSUME NEW r \in Listed[Flight.id] PROVE r \in Served
    OBVIOUS
  <2>1. r \in ListOf(Top.list) /\ r \in Rids /\ reg[r].state = "listed"
    BY <1>2 DEF Listed, ListOf
  <2> QED
    BY <1>1, <1>5, <2>1 DEF BusInv, WalkedAll, Reached, Served
<1> QED
  BY <1>1, <1>2, <1>3, <1>4, <1>6
-----------------------------------------------------------------------------
\* Every step of the pump is a step of the bus, or one its clients do not see.
LEMMA StepShown ==
  ASSUME MaxDepth = 1, IInv, KeptInv, HandInv, BusInv, [Next]_vars
  PROVE  [Bus!BusNext]_Bus!busVars
<1> DEFINE Hidden == posted' = posted /\ Waits' = Waits /\ Flight' = Flight
                     /\ Served' = Served /\ Listed' = Listed
<1>1. Hidden => UNCHANGED Bus!busVars
  BY DEF Bus!busVars, Waits, Flight, Served, Listed
<1>2. ASSUME NEW id \in EventIds, SendEvent(id) PROVE Bus!BusNext
  <2>1. CASE HasRoom
    <3>1. Bus!Post(id)
      BY <1>2, <2>1, PostShown DEF Bus!Post, Waits, Flight, Served, Listed
    <3> QED
      BY <3>1 DEF Bus!BusNext
  <2>2. CASE ~HasRoom
    <3>1. Bus!Refuse
      BY <1>2, <2>2, RefuseShown DEF Bus!Refuse, Waits, Flight, Served, Listed
    <3> QED
      BY <3>1 DEF Bus!BusNext
  <2> QED
    BY <2>1, <2>2
<1>3. ASSUME NEW id \in EventIds, NEW key \in Keys, Register(id, key) PROVE Bus!BusNext
  <2>1. PICK r \in Rids : r = nregs + 1
    BY <1>3, RegisterShown
  <2>2. Bus!Subscribe(id, r)
    BY <1>3, <2>1, RegisterShown DEF Bus!Subscribe, Waits, Flight, Served, Listed
  <2> QED
    BY <2>2 DEF Bus!BusNext
<1>4. ASSUME NEW id \in EventIds, NEW key \in Keys, Unregister(id, key)
      PROVE  Bus!BusNext \/ Hidden
  <2>1. CASE Listed' = Listed
    BY <1>4, <2>1, UnregisterShown
  <2>2. ASSUME NEW r \in Rids, r \in Listed[id], Listed' = [Listed EXCEPT ![id] = @ \ {r}]
        PROVE  Bus!BusNext
    <3>1. Bus!Unsubscribe(id, r)
      BY <1>4, <2>2, UnregisterShown DEF Bus!Unsubscribe, Waits, Flight, Served, Listed
    <3> QED
      BY <3>1 DEF Bus!BusNext
  <2> QED
    BY <1>4, <2>1, <2>2, UnregisterShown
<1>5. CASE TakeEvent
  <2>1. Bus!Begin \/ Bus!Discard
    BY <1>5, TakeShown DEF Bus!Begin, Bus!Discard, Waits, Flight, Served, Listed
  <2> QED
    BY <2>1 DEF Bus!BusNext
<1>6. CASE CallHandler
  <2>1. PICK r \in Rids : r = Top.item
    BY <1>6, CallShown
  <2>2. Bus!Deliver(r)
    BY <1>6, <2>1, CallShown DEF Bus!Deliver, Waits, Flight, Served, Listed
  <2> QED
    BY <2>2 DEF Bus!BusNext
<1>7. CASE FinishEvent
  <2>1. Bus!Done
    BY <1>7, FinishShown DEF Bus!Done, Waits, Flight, Served, Listed
  <2> QED
    BY <2>1 DEF Bus!BusNext
<1>8. CASE PollBegin \/ PollEnd \/ SkipFlagged \/ HandlerReturns
  BY <1>1, <1>8, PollShown, WalkShown
<1>9. CASE UNCHANGED vars
  <2>1. UNCHANGED <<slot, next, cur, reg, frame, depth, calls, posted>>
    BY <1>9 DEF vars, pumpVars, histVars
  <2>2. /\ HandingOver' = HandingOver /\ FirstUnread' = FirstUnread /\ TopEntry' = TopEntry
    BY <2>1 DEF HandingOver, FirstUnread, Top, TopEntry
  <2> QED
    BY <1>1, <2>1, <2>2, SeenKept, FlightKept, ListedKept
<1> QED
  BY <1>1, <1>2, <1>3, <1>4, <1>5, <1>6, <1>7, <1>8, <1>9, NothingSkipped DEF Next, PollStep

LEMMA InitShown == Init => Bus!BusInit
<1> SUFFICES ASSUME Init PROVE Bus!BusInit
  OBVIOUS
<1>1. /\ depth = 0 /\ ~HandingOver /\ FirstUnread = 1 /\ next = [q \in Queues |-> 0]
      /\ cur \in Queues /\ pend \in Queues /\ posted = 0 /\ reg = InitReg
      /\ slot \in [Queues -> [Slots -> Entry]]
  BY InitInv DEF Init, HandingOver, FirstUnread, Queues, pend, IInv, TypeOK
<1>2. ASSUME NEW q \in Queues PROVE Part(slot[q], next[q], 1) = <<>>
  <2>1. 0 \in 0 .. MaxQueueSize /\ Part(slot[q], 0, 1) = Part(slot[q], 0, 0 + 1)
        /\ slot[q] \in [Slots -> Entry] /\ next[q] = 0
    BY <1>1
  <2> QED
    BY <2>1, PartEmpty
<1>3. Waits = <<>>
  <2>1. Waits = <<>> \o <<>> /\ <<>> \in Seq(Letters)
    BY <1>1, <1>2, WaitsParts, EmptySeq
  <2> QED
    BY <2>1, ConcatEmptySeq
<1>4. Flight = NoId /\ Served = {} /\ Listed = [id \in EventIds |-> {}]
  BY <1>1 DEF Flight, Served, Listed, ListOf, InList, InitReg
<1> QED
  BY <1>1, <1>3, <1>4 DEF Bus!BusInit, Waits, Flight, Served, Listed

\* As long as handlers do not run the dispatcher again, the two buffers, the lists with
\* their flags and the purges are a bounded first-in first-out backlog that hands the event
\* at its head, once, to each handler registered for it.
THEOREM PumpImplementsBus ==
  ASSUME MaxDepth = 1
  PROVE  Spec => ImplementsBus
<1>1. Init => Bus!BusInit /\ BusInv
  BY InitShown, BusInvInit
<1>2. IInv /\ KeptInv /\ HandInv /\ BusInv /\ [Next]_vars => BusInv' /\ [Bus!BusNext]_Bus!busVars
  BY BusNextInv, StepShown
<1> QED
  BY <1>1, <1>2, OneAtATime, PTL DEF Spec, Bus!Bus, ImplementsBus

-----------------------------------------------------------------------------
\* The dispatcher and its waits.
USE SizesAssumption, IdsAssumption, WaitsAssumption
    DEF SizesAssumption, IdsAssumption, WaitsAssumption

LoopTypeOK ==
  /\ joined \in BOOLEAN
  /\ waits \in [1 .. MaxWaits -> Wait]
  /\ nwaits \in 0 .. MaxWaits
  /\ stage \in [0 .. MaxWaits -> Stages]
  /\ timers \in 0 .. MaxTimers
  /\ strays \in BOOLEAN

\* An active wait waits for one of its ids, with a handler at an address on the stack, and
\* no two of them use one address.
WaitsHandled ==
  /\ \A w \in 1 .. nwaits : waits[w].id \in WaitIds /\ waits[w].addr \in Addresses
  /\ \A v, w \in 1 .. nwaits : waits[v].addr = waits[w].addr => v = w

\* A wait is alone only as the first one; the dispatcher is joined until its event comes.
AloneJoined ==
  \A w \in 1 .. nwaits :
    waits[w].alone => nwaits = 1 /\ (strays \/ joined \/ waits[w].found)

LoopInv == LoopTypeOK /\ WaitsHandled /\ AloneJoined

DInv == IInv /\ LoopInv

-----------------------------------------------------------------------------
LEMMA NoWaitType == NoWait \in Wait
  BY DEF NoWait, Wait

LEMMA DInitInv == DInit => DInv
<1> SUFFICES ASSUME DInit PROVE DInv
  OBVIOUS
<1>1. reg \in [Rids -> Registration]
  BY DEF DInit, InitReg, Rids, Registration
<1>2. TypeOK
  BY <1>1 DEF DInit, TypeOK, EmptyEntry, NewFrame, Entry, Frame,
              Queues, Slots, Events, Rids
<1>3. SlotsHoldAccepted /\ SlotsDistinct /\ Numbered
  BY DEF DInit, SlotsHoldAccepted, SlotsDistinct, Numbered, Live, Slots, Queues
<1>4. LoopInv
  <2>1. LoopTypeOK
    <3>1. waits \in [1 .. MaxWaits -> Wait] /\ nwaits \in 0 .. MaxWaits
      BY NoWaitType DEF DInit
    <3>2. stage \in [0 .. MaxWaits -> Stages] /\ timers \in 0 .. MaxTimers
      BY DEF DInit, Stages
    <3> QED
      BY <3>1, <3>2 DEF DInit, LoopTypeOK
  <2>2. 1 .. nwaits = {}
    BY DEF DInit
  <2> QED
    BY <2>1, <2>2 DEF LoopInv, WaitsHandled, AloneJoined
<1> QED
  BY <1>2, <1>3, <1>4 DEF DInv, IInv

\* Every step of the dispatcher is one of the pump, or leaves the pump alone.
LEMMA PumpStep ==
  ASSUME DInv, [DNext]_dispVars
  PROVE  [Next]_vars
<1>1. CASE Posts
  BY <1>1 DEF Posts, Next
<1>2. ASSUME NEW id \in WaitIds, NEW addr \in Addresses, StartWait(id, addr)
      PROVE  Next
  <2>1. id \in EventIds /\ addr \in Keys /\ Register(id, addr)
    BY <1>2 DEF StartWait
  <2> QED
    BY <2>1 DEF Next
<1>3. ASSUME NEW w \in 1 .. MaxWaits, TimeOut(w)
      PROVE  UNCHANGED vars
  BY <1>3 DEF TimeOut
<1>4. CASE LoopStep
  <2>1. CASE LoopOn \/ SocketsPolled \/ TimersPolled
    BY <2>1 DEF LoopOn, SocketsPolled, TimersPolled
  <2>2. CASE EndWait
    <3>1. nwaits \in 1 .. nwaits
      BY <2>2 DEF EndWait, DInv, LoopInv, LoopTypeOK
    <3>2. PICK id \in EventIds, addr \in Keys : id = waits[nwaits].id /\ addr = waits[nwaits].addr
      BY <3>1 DEF DInv, LoopInv, WaitsHandled
    <3>3. Unregister(id, addr)
      BY <2>2, <3>2 DEF EndWait, Unregister
    <3> QED
      BY <3>3 DEF Next
  <2>3. CASE EventsPolled
    BY <2>3 DEF EventsPolled, Next, PollStep
  <2>4. CASE HandlerCalled
    BY <2>4 DEF HandlerCalled, Next, PollStep
  <2>5. CASE PollRuns
    BY <2>5 DEF PollRuns, Next, PollStep
  <2> QED
    BY <1>4, <2>1, <2>2, <2>3, <2>4, <2>5 DEF LoopStep
<1>5. CASE UNCHANGED dispVars
  BY <1>5 DEF dispVars
<1> QED
  BY <1>1, <1>2, <1>3, <1>4, <1>5 DEF DNext

LEMMA LoopQuiet ==
  ASSUME LoopInv, UNCHANGED loopVars
  PROVE  LoopInv'
  BY DEF LoopInv, LoopTypeOK, WaitsHandled, AloneJoined, loopVars

LEMMA StartWaitInv ==
  ASSUME DInv, NEW id \in WaitIds, NEW addr \in Addresses, StartWait(id, addr)
  PROVE  LoopInv'
<1> DEFINE new == [NoWait EXCEPT !.id = id, !.addr = addr, !.armed = timers > 0,
                                 !.base = depth, !.alone = nwaits = 0]
<1>1. LoopTypeOK /\ nwaits < MaxWaits /\ depth \in 0 .. MaxDepth /\ nwaits \in Nat
      /\ nwaits + 1 \in 1 .. MaxWaits
  BY DEF DInv, LoopInv, LoopTypeOK, IInv, TypeOK, StartWait
<1>2. /\ new \in Wait /\ new.id = id /\ new.addr = addr
      /\ new.alone = (nwaits = 0)
  <2>1. id \in EventIds \cup {NoId} /\ addr \in Keys \cup {NoId} /\ (timers > 0) \in BOOLEAN
        /\ (nwaits = 0) \in BOOLEAN
    BY <1>1 DEF LoopTypeOK
  <2> QED
    BY <1>1, <2>1 DEF NoWait, Wait
<1>3. \A w \in 1 .. MaxWaits : [waits[w] EXCEPT !.alone = FALSE] \in Wait
  BY <1>1 DEF LoopTypeOK, Wait
<1>4. /\ waits' \in [1 .. MaxWaits -> Wait] /\ nwaits' = nwaits + 1 /\ joined' = TRUE
      /\ waits'[nwaits + 1].id = id /\ waits'[nwaits + 1].addr = addr
      /\ waits'[nwaits + 1].alone = (nwaits = 0)
      /\ \A w \in 1 .. nwaits : /\ waits'[w].id = waits[w].id /\ waits'[w].addr = waits[w].addr
                                /\ ~waits'[w].alone
  <2>1. waits' = [w \in 1 .. MaxWaits |-> IF w = nwaits + 1 THEN new
                                          ELSE [waits[w] EXCEPT !.alone = FALSE]]
        /\ nwaits' = nwaits + 1 /\ joined' = TRUE
    BY DEF StartWait, Joined
  <2> HIDE DEF new
  <2>2. waits' \in [1 .. MaxWaits -> Wait] /\ waits'[nwaits + 1] = new
    BY <1>1, <1>2, <1>3, <2>1
  <2>3. ASSUME NEW w \in 1 .. nwaits
        PROVE  /\ waits'[w].id = waits[w].id /\ waits'[w].addr = waits[w].addr
               /\ ~waits'[w].alone
    <3>1. w \in 1 .. MaxWaits /\ w # nwaits + 1
      BY <1>1
    <3>2. waits'[w] = [waits[w] EXCEPT !.alone = FALSE] /\ waits[w] \in Wait
      BY <1>1, <2>1, <3>1 DEF LoopTypeOK
    <3> QED
      BY <3>2 DEF Wait
  <2> QED
    BY <1>2, <2>1, <2>2, <2>3
<1>5. LoopTypeOK'
  <2>1. stage' \in [0 .. MaxWaits -> Stages]
    BY <1>1 DEF StartWait, LoopTypeOK, Stages
  <2>2. timers' \in 0 .. MaxTimers /\ strays' \in BOOLEAN
    BY <1>1 DEF StartWait, LoopTypeOK, TimersLeft
  <2> QED
    BY <1>1, <1>4, <2>1, <2>2 DEF LoopTypeOK
<1>6. WaitsHandled'
  <2>1. \A w \in 1 .. nwaits' : w \in 1 .. nwaits \/ w = nwaits + 1
    BY <1>1, <1>4
  <2>2. \A w \in 1 .. nwaits : waits[w].addr # addr
    BY DEF StartWait
  <2> QED
    BY <1>4, <2>1, <2>2 DEF DInv, LoopInv, WaitsHandled
<1>7. AloneJoined'
  <2>1. \A w \in 1 .. nwaits' : w \in 1 .. nwaits \/ w = nwaits + 1
    BY <1>1, <1>4
  <2>2. ASSUME NEW w \in 1 .. nwaits', waits'[w].alone PROVE nwaits' = 1
    <3>1. w = nwaits + 1
      BY <1>4, <2>1, <2>2
    <3>2. nwaits = 0
      BY <1>4, <2>2, <3>1
    <3> QED
      BY <1>4, <3>2
  <2> QED
    BY <1>4, <2>2 DEF AloneJoined
<1> QED
  BY <1>5, <1>6, <1>7 DEF LoopInv

LEMMA EndWaitInv ==
  ASSUME DInv, EndWait
  PROVE  LoopInv'
<1>1. /\ LoopTypeOK /\ nwaits \in 1 .. MaxWaits /\ nwaits' = nwaits - 1 /\ joined' = FALSE
      /\ waits' = [waits EXCEPT ![nwaits] = NoWait] /\ UNCHANGED <<timers, strays>>
      /\ stage' = [stage EXCEPT ![nwaits] = "socket"]
  BY DEF DInv, LoopInv, LoopTypeOK, EndWait
<1>2. LoopTypeOK'
  <2>1. waits' \in [1 .. MaxWaits -> Wait] /\ nwaits' \in 0 .. MaxWaits
    BY <1>1, NoWaitType DEF LoopTypeOK
  <2>2. stage' \in [0 .. MaxWaits -> Stages]
    BY <1>1 DEF LoopTypeOK, Stages
  <2> QED
    BY <1>1, <2>1, <2>2 DEF LoopTypeOK
<1>3. \A w \in 1 .. nwaits' : w \in 1 .. nwaits /\ waits'[w] = waits[w] /\ nwaits # 1
  BY <1>1 DEF LoopTypeOK
<1> QED
  BY <1>2, <1>3 DEF DInv, LoopInv, WaitsHandled, AloneJoined

LEMMA HandlerCalledInv ==
  ASSUME DInv, HandlerCalled
  PROVE  LoopInv'
<1> DEFINE addr == reg[Top.item].key
           owner == {w \in 1 .. nwaits : waits[w].addr = addr}
<1>1. LoopTypeOK /\ UNCHANGED <<nwaits, stage, timers>> /\ nwaits \in 0 .. MaxWaits
  BY DEF DInv, LoopInv, LoopTypeOK, HandlerCalled
<1>2. CASE addr \in Addresses
  <2>1. /\ joined' = FALSE
        /\ waits' = [w \in 1 .. MaxWaits |->
                       IF w \in owner THEN [waits[w] EXCEPT !.found = TRUE] ELSE waits[w]]
        /\ strays' = (strays \/ owner = {} \/ \E w \in owner : waits[w].id # TopEntry.id)
    BY <1>2 DEF HandlerCalled
  <2>2. ASSUME NEW w \in 1 .. MaxWaits
        PROVE  /\ waits'[w] \in Wait /\ waits'[w].id = waits[w].id
               /\ waits'[w].addr = waits[w].addr /\ waits'[w].alone = waits[w].alone
               /\ w \in owner => waits'[w].found
               /\ waits[w].found => waits'[w].found
    <3>1. waits[w] \in Wait
      BY <1>1 DEF LoopTypeOK
    <3>2. waits'[w] = IF w \in owner THEN [waits[w] EXCEPT !.found = TRUE] ELSE waits[w]
      BY <2>1
    <3> HIDE DEF owner
    <3> QED
      BY <3>1, <3>2 DEF Wait
  <2>3. LoopTypeOK'
    <3>1. strays' \in BOOLEAN
      BY <1>1, <2>1 DEF LoopTypeOK
    <3>2. waits' \in [1 .. MaxWaits -> Wait]
      BY <2>1, <2>2
    <3> QED
      BY <1>1, <2>1, <3>1, <3>2 DEF LoopTypeOK
  <2>4. WaitsHandled'
    BY <1>1, <2>2 DEF DInv, LoopInv, WaitsHandled
  <2>5. AloneJoined'
    <3> SUFFICES ASSUME NEW w \in 1 .. nwaits, waits'[w].alone
                 PROVE  nwaits = 1 /\ (strays' \/ waits'[w].found)
      BY <1>1 DEF AloneJoined
    <3>1. nwaits = 1 /\ w = 1 /\ w \in 1 .. MaxWaits
      <4>1. w \in 1 .. MaxWaits
        BY <1>1
      <4>2. nwaits = 1
        BY <2>2, <4>1 DEF DInv, LoopInv, AloneJoined
      <4> QED
        BY <4>1, <4>2
    <3>2. owner = {} \/ w \in owner
      BY <3>1
    <3> HIDE DEF owner
    <3> QED
      BY <1>1, <2>1, <2>2, <3>1, <3>2
  <2> QED
    BY <2>3, <2>4, <2>5 DEF LoopInv
<1>3. CASE addr \notin Addresses
  <2>1. UNCHANGED loopVars
    BY <1>1, <1>3 DEF HandlerCalled, loopVars
  <2> QED
    BY <2>1, LoopQuiet DEF DInv
<1> QED
  BY <1>2, <1>3

LEMMA LoopMovesInv ==
  ASSUME DInv, LoopOn \/ SocketsPolled \/ TimersPolled \/ EventsPolled \/ (\E w \in 1 .. MaxWaits : TimeOut(w))
  PROVE  LoopInv'
<1>1. LoopTypeOK /\ nwaits' = nwaits /\ UNCHANGED <<joined, timers, strays>>
  BY DEF DInv, LoopInv, LoopOn, SocketsPolled, TimersPolled, EventsPolled, TimeOut
<1>2. CASE \E w \in 1 .. MaxWaits : TimeOut(w)
  <2>1. PICK w \in 1 .. MaxWaits : waits' = [waits EXCEPT ![w] = [waits[w] EXCEPT !.fired = TRUE]]
                                   /\ stage' = stage
    BY <1>2 DEF TimeOut
  <2>2. ASSUME NEW v \in 1 .. MaxWaits
        PROVE  /\ waits'[v] \in Wait /\ waits'[v].id = waits[v].id
               /\ waits'[v].addr = waits[v].addr /\ waits'[v].alone = waits[v].alone
               /\ waits'[v].found = waits[v].found
    <3>1. waits[v] \in Wait
      BY <1>1 DEF LoopTypeOK
    <3>2. waits'[v] = IF v = w THEN [waits[v] EXCEPT !.fired = TRUE] ELSE waits[v]
      BY <1>1, <2>1 DEF LoopTypeOK
    <3> QED
      BY <3>1, <3>2 DEF Wait
  <2>3. waits' \in [1 .. MaxWaits -> Wait]
    BY <1>1, <2>1, <2>2 DEF LoopTypeOK
  <2>4. LoopTypeOK'
    BY <1>1, <2>1, <2>3 DEF LoopTypeOK
  <2>5. \A v \in 1 .. nwaits : v \in 1 .. MaxWaits
    BY <1>1 DEF LoopTypeOK
  <2> QED
    BY <1>1, <2>2, <2>4, <2>5 DEF DInv, LoopInv, WaitsHandled, AloneJoined
<1>3. CASE LoopOn \/ SocketsPolled \/ TimersPolled \/ EventsPolled
  <2>1. waits' = waits /\ \E s \in Stages : stage' = [stage EXCEPT ![nwaits] = s]
    BY <1>3 DEF LoopOn, SocketsPolled, TimersPolled, EventsPolled, Stages
  <2>2. LoopTypeOK'
    BY <1>1, <2>1 DEF LoopTypeOK
  <2> QED
    BY <1>1, <2>1, <2>2 DEF DInv, LoopInv, WaitsHandled, AloneJoined
<1> QED
  BY <1>2, <1>3

LEMMA DNextInv == DInv /\ [DNext]_dispVars => DInv'
<1> SUFFICES ASSUME DInv, [DNext]_dispVars PROVE DInv'
  OBVIOUS
<1>1. IInv'
  BY PumpStep, NextInv DEF DInv
<1>2. LoopInv'
  <2>1. CASE Posts \/ PollRuns \/ UNCHANGED dispVars
    BY <2>1, LoopQuiet DEF Posts, PollRuns, DInv, dispVars
  <2> QED
    BY <2>1, StartWaitInv, EndWaitInv, HandlerCalledInv, LoopMovesInv DEF DNext, LoopStep
<1> QED
  BY <1>1, <1>2 DEF DInv

-----------------------------------------------------------------------------
\* What is proved of the pump holds under the dispatcher, whatever waits are nested in it.
THEOREM PumpUnderWaits == DSpec => []DInv /\ [][Next]_vars
  BY DInitInv, DNextInv, PumpStep, PTL DEF DSpec

\* A handler that waits runs the dispatcher, and with it the poll that called the handler:
\* still no event's processing begins twice.
THEOREM WaitsTakeNothingTwice == DSpec => TakenAtMostOnce
<1>1. IInv /\ [Next]_vars => [TakeEvent => slot[cur][Top.i].data \notin taken]_vars
  BY TakeEventInv
<1>2. DInv => IInv
  BY DEF DInv
<1> QED
  BY <1>1, <1>2, PumpUnderWaits, PTL DEF TakenAtMostOnce

\* A wait that had the dispatcher to itself ends with its event or its timeout, not before,
\* until a handler outlives the wait it was registered for.
THEOREM LoneWaitEndsRightly == DSpec => LoneWaitSound
<1> DEFINE Sound ==
      \A w \in 1 .. MaxWaits :
        nwaits = w /\ nwaits' < w /\ waits[w].alone /\ ~strays => waits[w].found \/ waits[w].fired
<1>1. ASSUME DInv, [DNext]_dispVars PROVE [Sound]_dispVars
  <2>1. CASE EndWait
    <3> SUFFICES ASSUME NEW w \in 1 .. MaxWaits, nwaits = w, waits[w].alone, ~strays
                 PROVE  waits[w].found \/ waits[w].fired
      OBVIOUS
    <3>1. joined \/ waits[w].found
      BY <1>1 DEF DInv, LoopInv, AloneJoined
    <3> QED
      BY <2>1, <3>1 DEF EndWait, GoesOn
  <2>2. CASE ~EndWait
    <3>1. nwaits' = nwaits \/ nwaits' = nwaits + 1
      <4>1. CASE Posts \/ PollRuns \/ UNCHANGED dispVars
        BY <4>1 DEF Posts, PollRuns, dispVars, loopVars
      <4>2. CASE LoopOn \/ SocketsPolled \/ TimersPolled \/ EventsPolled \/ HandlerCalled
        BY <4>2 DEF LoopOn, SocketsPolled, TimersPolled, EventsPolled, HandlerCalled
      <4>3. ASSUME NEW w \in 1 .. MaxWaits, TimeOut(w) PROVE nwaits' = nwaits
        BY <4>3 DEF TimeOut
      <4>4. ASSUME NEW id \in WaitIds, NEW addr \in Addresses, StartWait(id, addr)
            PROVE  nwaits' = nwaits + 1
        BY <4>4 DEF StartWait
      <4> QED
        BY <1>1, <2>2, <4>1, <4>2, <4>3, <4>4 DEF DNext, LoopStep
    <3>2. nwaits \in Nat /\ ~(nwaits' < nwaits)
      BY <1>1, <3>1 DEF DInv, LoopInv, LoopTypeOK
    <3> QED
      BY <3>2
  <2> QED
    BY <2>1, <2>2
<1> QED
  BY <1>1, PumpUnderWaits, PTL DEF DSpec, LoneWaitSound
=============================================================================
