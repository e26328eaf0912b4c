------------------------------ MODULE EventPump ------------------------------
(***************************************************************************)
(* The event pump of libZaeUtil/event_pump.c: two fixed arrays of slots    *)
(* used as a double buffer, the handler lists, and the poll loop that      *)
(* empties the current buffer and then exchanges the two.                  *)
(*                                                                         *)
(* Two kinds of threads use it.  Any thread may post (event_pump_send_     *)
(* event takes pump_lock); everything else runs on the dispatcher thread.  *)
(* A handler may itself run the dispatcher (event_dispatcher_wait), and    *)
(* the poll then runs inside the poll that called the handler: the stack   *)
(* of active polls is explicit here, and MaxDepth bounds it.               *)
(*                                                                         *)
(* Events are numbered 1, 2, ... in the order they are posted; the number  *)
(* stands for the event_data pointer.  0 is NULL.                          *)
(***************************************************************************)
EXTENDS Integers, Sequences, FiniteSets

CONSTANTS
  EventIds,      \* the members of e_events that are in use
  OwnsData,      \* the ids whose events are posted with an event_free callback
  Keys,          \* the (on_event, context) pairs a handler is registered with
  NoId,          \* content of a slot that was never written
  MaxQueueSize,  \* slots of one buffer (1000 in the code)
  PurgeBatch,    \* registrations one purge can drop (100 in the code)
  MaxDepth,      \* bound: polls active at once on the dispatcher thread
  MaxEvents,     \* bound: events posted in a behaviour
  MaxRegs        \* bound: registrations made in a behaviour

ASSUME SizesAssumption ==
  /\ MaxQueueSize \in Nat \ {0}
  /\ PurgeBatch \in Nat \ {0}
  /\ MaxDepth \in Nat \ {0}
  /\ MaxEvents \in Nat
  /\ MaxRegs \in Nat

ASSUME IdsAssumption == OwnsData \subseteq EventIds /\ NoId \notin EventIds

ASSUME NoIdAssumption == NoId \notin [id : EventIds, data : 1 .. MaxEvents]

Queues == {0, 1}
Slots  == 1 .. MaxQueueSize
Events == 1 .. MaxEvents
Rids   == 1 .. MaxRegs

Entry == [id : EventIds \cup {NoId}, data : 0 .. MaxEvents, processing : BOOLEAN]

\* One activation of event_pump_poll.  i is the loop index, (q, e) the slot
\* the pointer e refers to, list the handler list being walked, item the list
\* element reached and n the count of elements walked so far.
Frame == [ at   : {"scan", "call", "handler"},
           i    : Nat \ {0},
           q    : Queues,
           e    : Slots,
           list : EventIds \cup {NoId},
           item : 0 .. MaxRegs,
           n    : Nat ]

Registration == [ state : {"unused", "listed", "flagged", "freed"},
                  id    : EventIds \cup {NoId},
                  key   : Keys \cup {NoId} ]

VARIABLES
  slot,      \* the two buffers
  next,      \* next_slot of each buffer
  cur,       \* which buffer current_event_queue_ptr refers to
  reg,       \* every registration made, in the order of the handler lists
  nregs,     \* registrations made so far
  known,     \* ids for which event_handlers has a list
  frame,     \* the active polls, innermost last
  depth,     \* how many polls are active
  posted,    \* history: events posted, those dropped included
  accepted,  \* history: events that entered a buffer
  taken,     \* history: events whose processing began
  calls,     \* history: how often registration r was called with event d
  frees      \* history: how often event_free ran for event d

pumpVars == <<slot, next, cur, reg, nregs, known, frame, depth>>
histVars == <<posted, accepted, taken, calls, frees>>
vars == <<pumpVars, histVars>>

-----------------------------------------------------------------------------
EmptyEntry == [id |-> NoId, data |-> 0, processing |-> FALSE]
NewFrame == [at |-> "scan", i |-> 1, q |-> 0, e |-> 1, list |-> NoId,
             item |-> 0, n |-> 0]

pend == 1 - cur                       \* pending_event_queue_ptr
Top == frame[depth]
TopEntry == slot[Top.q][Top.e]        \* what the pointer e reads, now
NextSlot == [NewFrame EXCEPT !.i = Top.i + 1]

\* The list of an id, oldest first: handlers are pushed back, so the order of
\* the list is the order of registration.
InList(r, id) == reg[r].id = id /\ reg[r].state \in {"listed", "flagged"}
ListOf(id) == {r \in Rids : InList(r, id)}
Firsts(S) == {r \in S : \A s \in S : r <= s}
First(S) == IF Firsts(S) = {} THEN 0 ELSE CHOOSE r \in Firsts(S) : TRUE

\* Mutant: the walk does not follow item->next.
Successors_Stuck(id, r) == {r}

\* Where item->next may lead.  When the element itself was freed by a nested
\* poll its next field is stale, and any element of the list may follow.  0 is
\* NULL: the walk stops there (the code would read through it only if elements
\* were missing from a list whose count it trusts).
Successors(id, r) ==
  IF r \in ListOf(id)
    THEN {First({s \in ListOf(id) : s > r})}
    ELSE IF ListOf(id) = {} THEN {0} ELSE ListOf(id)

\* The dispatcher thread runs code that is not the pump's own.
InClient == depth > 0 => Top.at = "handler"

InitReg == [r \in Rids |-> [state |-> "unused", id |-> NoId, key |-> NoId]]

Init ==
  /\ slot = [q \in Queues |-> [s \in Slots |-> EmptyEntry]]
  /\ next = [q \in Queues |-> 0]
  /\ cur = 0
  /\ reg = InitReg
  /\ nregs = 0
  /\ known = {}
  /\ frame = [k \in 1 .. MaxDepth |-> NewFrame]
  /\ depth = 0
  /\ posted = 0
  /\ accepted = {}
  /\ taken = {}
  /\ calls = [r \in Rids |-> [d \in Events |-> 0]]
  /\ frees = [d \in Events |-> 0]

-----------------------------------------------------------------------------
HasRoom == next[pend] < MaxQueueSize

\* event_pump_send_event, under pump_lock, from any thread.
SendEvent(id) ==
  /\ posted < MaxEvents
  /\ posted' = posted + 1
  /\ IF HasRoom
       THEN /\ slot' = [slot EXCEPT ![pend][next[pend] + 1] =
                          [id |-> id, data |-> posted + 1, processing |-> FALSE]]
            /\ next' = [next EXCEPT ![pend] = @ + 1]
            /\ accepted' = accepted \cup {posted + 1}
       ELSE UNCHANGED <<slot, next, accepted>>
  /\ UNCHANGED <<cur, reg, nregs, known, frame, depth, taken, calls, frees>>

\* event_pump_register_handler
Register(id, key) ==
  /\ InClient
  /\ nregs < MaxRegs
  /\ nregs' = nregs + 1
  /\ reg' = [reg EXCEPT ![nregs + 1] = [state |-> "listed", id |-> id, key |-> key]]
  /\ known' = known \cup {id}
  /\ UNCHANGED <<slot, next, cur, frame, depth, histVars>>

\* event_pump_unregister_handler: the first element that matches is flagged,
\* whether or not it is flagged already.
Unregister(id, key) ==
  LET matches == {r \in ListOf(id) : reg[r].key = key}
  IN  /\ InClient
      /\ matches # {}
      /\ reg' = [reg EXCEPT ![First(matches)].state = "flagged"]
      /\ UNCHANGED <<slot, next, cur, nregs, known, frame, depth, histVars>>

-----------------------------------------------------------------------------
\* event_pump_poll, one action per step of the loop.

\* The dispatcher polls the pump: from its main loop, or from the loop of
\* event_dispatcher_attach when a handler waits.
PollBegin ==
  /\ InClient
  /\ depth < MaxDepth
  /\ depth' = depth + 1
  /\ frame' = [frame EXCEPT ![depth + 1] = NewFrame]
  /\ UNCHANGED <<slot, next, cur, reg, nregs, known, histVars>>

Scanning == depth > 0 /\ Top.at = "scan"

\* Mutant: the processing mark is not looked at.
Marked_Ignored(e) == FALSE

Marked(e) == e.processing

\* An outer poll is processing this slot already, or has.
SkipProcessing ==
  /\ Scanning
  /\ Top.i <= next[cur]
  /\ Marked(slot[cur][Top.i])
  /\ frame' = [frame EXCEPT ![depth] = NextSlot]
  /\ UNCHANGED <<slot, next, cur, reg, nregs, known, depth, histVars>>

\* The slot's event gets its handlers called, if its id ever had one; the data
\* of an event whose id never had a handler is not freed either.
TakeEvent ==
  LET e == slot[cur][Top.i]
  IN  /\ Scanning
      /\ Top.i <= next[cur]
      /\ ~Marked(e)
      /\ slot' = [slot EXCEPT ![cur][Top.i].processing = TRUE]
      /\ taken' = taken \cup {e.data}
      /\ frame' = [frame EXCEPT ![depth] =
                     IF e.id \in known
                       THEN [at |-> "call", i |-> Top.i, q |-> cur, e |-> Top.i,
                             list |-> e.id, item |-> First(ListOf(e.id)), n |-> 0]
                       ELSE NextSlot]
      /\ UNCHANGED <<next, cur, reg, nregs, known, depth, posted, accepted,
                     calls, frees>>

Walking == depth > 0 /\ Top.at = "call"
\* Mutant: the walk stops one element early.
MoreHandlers_OffByOne == Top.n + 1 < Cardinality(ListOf(Top.list)) /\ Top.item # 0

MoreHandlers == Top.n < Cardinality(ListOf(Top.list)) /\ Top.item # 0

\* on_event of the list element, with whatever the slot holds by now.
CallHandler ==
  /\ Walking
  /\ MoreHandlers
  /\ reg[Top.item].state # "flagged"
  /\ frame' = [frame EXCEPT ![depth].at = "handler"]
  /\ calls' = [calls EXCEPT ![Top.item][TopEntry.data] = @ + 1]
  /\ UNCHANGED <<slot, next, cur, reg, nregs, known, depth, posted, accepted,
                 taken, frees>>

WalkOn ==
  \E item \in Successors(Top.list, Top.item) :
    frame' = [frame EXCEPT ![depth] =
                [at |-> "call", i |-> Top.i, q |-> Top.q, e |-> Top.e,
                 list |-> Top.list, item |-> item, n |-> Top.n + 1]]

SkipFlagged ==
  /\ Walking
  /\ MoreHandlers
  /\ reg[Top.item].state = "flagged"
  /\ WalkOn
  /\ UNCHANGED <<slot, next, cur, reg, nregs, known, depth, histVars>>

\* Mutant: event_free runs after each handler.
HandlerReturns_FreesData ==
  /\ depth > 0
  /\ Top.at = "handler"
  /\ WalkOn
  /\ frees' = [frees EXCEPT ![TopEntry.data] = @ + 1]
  /\ UNCHANGED <<slot, next, cur, reg, nregs, known, depth, posted, accepted,
                 taken, calls>>

HandlerReturns ==
  /\ depth > 0
  /\ Top.at = "handler"
  /\ WalkOn
  /\ UNCHANGED <<slot, next, cur, reg, nregs, known, depth, histVars>>

\* event_pump_purge_handlers: the first PurgeBatch flagged elements go.
Purged(id) ==
  LET gone == {r \in ListOf(id) : reg[r].state = "flagged"}
      batch == {r \in gone : Cardinality({s \in gone : s <= r}) <= PurgeBatch}
  IN  [r \in Rids |-> IF r \in batch THEN [reg[r] EXCEPT !.state = "freed"]
                                     ELSE reg[r]]

\* Mutant: event_free is never run.
Released_Never == frees

Released == IF TopEntry.id \in OwnsData
              THEN [frees EXCEPT ![TopEntry.data] = @ + 1]
              ELSE frees

\* After the last handler: event_free, then the purge, then the next slot.
FinishEvent ==
  /\ Walking
  /\ ~MoreHandlers
  /\ frees' = Released
  /\ reg' = Purged(TopEntry.id)
  /\ frame' = [frame EXCEPT ![depth] = NextSlot]
  /\ UNCHANGED <<slot, next, cur, nregs, known, depth, posted, accepted, taken,
                 calls>>

\* Mutant: the buffers are exchanged before the reset.
Emptied_Pending == [next EXCEPT ![pend] = 0]

Emptied == [next EXCEPT ![cur] = 0]

\* Mutant: the buffers are not exchanged.
Swapped_Not == cur

Swapped == pend

\* The loop is over: the buffer is emptied, the two are exchanged.
PollEnd ==
  /\ Scanning
  /\ Top.i > next[cur]
  /\ next' = Emptied
  /\ cur' = Swapped
  /\ depth' = depth - 1
  /\ frame' = [frame EXCEPT ![depth] = NewFrame]
  /\ UNCHANGED <<slot, reg, nregs, known, histVars>>

-----------------------------------------------------------------------------
PollStep ==
  \/ PollBegin
  \/ SkipProcessing
  \/ TakeEvent
  \/ CallHandler
  \/ SkipFlagged
  \/ HandlerReturns
  \/ FinishEvent
  \/ PollEnd

Next ==
  \/ \E id \in EventIds : SendEvent(id)
  \/ \E id \in EventIds, key \in Keys : Register(id, key)
  \/ \E id \in EventIds, key \in Keys : Unregister(id, key)
  \/ PollStep

Spec == Init /\ [][Next]_vars

\* The main loop polls for ever and a poll that began runs on: handlers return.
FairSpec == Spec /\ WF_vars(PollStep)
-----------------------------------------------------------------------------
\* Every variable keeps its type: in particular next_slot never passes the end
\* of its buffer (event_pump.c:89).
TypeOK ==
  /\ slot \in [Queues -> [Slots -> Entry]]
  /\ next \in [Queues -> 0 .. MaxQueueSize]
  /\ cur \in Queues
  /\ reg \in [Rids -> Registration]
  /\ nregs \in 0 .. MaxRegs
  /\ known \in SUBSET EventIds
  /\ frame \in [1 .. MaxDepth -> Frame]
  /\ depth \in 0 .. MaxDepth
  /\ posted \in 0 .. MaxEvents
  /\ accepted \in SUBSET Events
  /\ taken \in SUBSET Events
  /\ calls \in [Rids -> [Events -> Nat]]
  /\ frees \in [Events -> Nat]

Waiting(d) ==
  \E q \in Queues, s \in Slots :
    s <= next[q] /\ slot[q][s].data = d /\ ~slot[q][s].processing

\* An event that entered a buffer is processed or still waits there: no reset
\* of next_slot and no exchange of the buffers throws one away.
NoEventLost == \A d \in accepted : d \in taken \/ Waiting(d)

\* The processing of an event begins once, however the polls are nested: a poll
\* inside a handler passes by the events that the polls around it have taken.
TakenAtMostOnce == [][TakeEvent => slot[cur][Top.i].data \notin taken]_vars

\* No registration is called twice with the same event, whatever is registered
\* and unregistered while the list is being walked.
CalledAtMostOnce == \A r \in Rids, d \in Events : calls[r][d] <= 1

\* No handler is given data that event_free has already released.
DataOutlivesHandlers ==
  [][\A r \in Rids, d \in Events :
       calls'[r][d] # calls[r][d] => frees[d] = 0]_vars

\* Between two polls, data that reached a handler and came with an event_free
\* has been released, once.
OwnedDataFreedOnce ==
  depth = 0 => \A r \in Rids, d \in Events :
    calls[r][d] > 0 /\ reg[r].id \in OwnsData => frees[d] = 1

\* The dispatcher catches up: after the last post of a behaviour, every event that
\* entered a buffer gets processed, the ones in the buffer not yet polled included.
EventuallyTaken == (posted = MaxEvents) ~> (accepted \subseteq taken)

-----------------------------------------------------------------------------
\* The pump as the bus its clients see (one poll at a time).
Message(q, s) == [id |-> slot[q][s].id, data |-> slot[q][s].data]
Unread(q, from) == [k \in 1 .. (next[q] + 1 - from) |-> Message(q, from + k - 1)]
HandingOver == depth > 0 /\ Top.at # "scan"
FirstUnread == IF depth = 0 THEN 1 ELSE IF HandingOver THEN Top.i + 1 ELSE Top.i

Bus == INSTANCE EventBus WITH
  Subscribers <- Rids,
  Capacity    <- MaxQueueSize,
  None        <- NoId,
  backlog     <- Unread(cur, FirstUnread) \o Unread(pend, 1),
  inflight    <- IF HandingOver THEN Message(Top.q, Top.e) ELSE NoId,
  served      <- IF HandingOver
                   THEN {r \in Rids : calls[r][TopEntry.data] > 0} ELSE {},
  subscribed  <- [id \in EventIds |-> {r \in ListOf(id) : reg[r].state = "listed"}]

\* Posting, registering and polling, seen from outside, are a bounded FIFO bus
\* that hands each event to all its subscribers.
ImplementsBus == Bus!Bus
=============================================================================
