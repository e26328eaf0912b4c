--------------------------- MODULE EventDispatcher ---------------------------
(***************************************************************************)
(* The dispatcher of libZaeUtil/event_dispatcher.c on top of EventPump:    *)
(* the main loop, which polls the socket, timer and event pumps in turn,   *)
(* and event_dispatcher_wait, which blocks its caller by running the same  *)
(* loop until an event or a timeout ends it.                               *)
(*                                                                         *)
(* Waits start in socket handlers (a command typed at the CLI reads a      *)
(* Z-Wave device), in timer callbacks (the Timer service runs a command)   *)
(* and in event handlers (a scene's condition reads a device), so they     *)
(* nest in each other and in event_pump_poll.  All of them share one flag, *)
(* event_dispatcher_joined.                                                *)
(*                                                                         *)
(* The timer pump appears as the number of free entries of its table: an   *)
(* attach takes one and does not give it back, because it removes a timer  *)
(* that does not run and TimerPump drops only running timers (DropDue).    *)
(***************************************************************************)
EXTENDS EventPump

CONSTANTS
  WaitIds,    \* the ids that are waited for
  Addresses,  \* stack addresses of event_wait_context_t, keys of wait handlers
  SceneId,    \* the id whose ordinary handler, registered at start-up, may wait
  SceneKey,   \* that handler
  MaxTimers,  \* free entries of the timer table at the start
  MaxWaits    \* bound: waits active at once

ASSUME WaitsAssumption ==
  /\ WaitIds \subseteq EventIds
  /\ Addresses \subseteq Keys
  /\ SceneId \in EventIds /\ SceneKey \in Keys \ Addresses
  /\ MaxTimers \in Nat /\ MaxWaits \in Nat
  /\ MaxRegs >= 1   \* the handler registered at start-up

Stages == {"check", "socket", "timer", "event"}
Wait == [ id    : EventIds \cup {NoId},
          addr  : Keys \cup {NoId},
          armed : BOOLEAN,    \* the timeout's timer is in the table
          fired : BOOLEAN,    \* timer_fired
          found : BOOLEAN,    \* is_found
          base  : 0 .. MaxDepth, \* the polls active when it began
          alone : BOOLEAN ]   \* history: no other wait was active meanwhile

VARIABLES
  joined,   \* event_dispatcher_joined
  waits,    \* the active waits, innermost last
  nwaits,   \* how many are active
  stage,    \* what each loop does next; stage[0] is the main loop
  timers,   \* free entries of the timer table
  strays    \* history: a wait handler ran for a wait that is over

loopVars == <<joined, waits, nwaits, stage, timers, strays>>
dispVars == <<vars, loopVars>>

NoWait == [id |-> NoId, addr |-> NoId, armed |-> FALSE, fired |-> FALSE,
           found |-> FALSE, base |-> 0, alone |-> FALSE]

DInit ==
  /\ slot = [q \in Queues |-> [s \in Slots |-> EmptyEntry]]
  /\ next = [q \in Queues |-> 0]
  /\ cur = 0
  /\ reg = [InitReg EXCEPT ![1] = [state |-> "listed", id |-> SceneId, key |-> SceneKey]]
  /\ nregs = 1
  /\ known = {SceneId}
  /\ frame = [k \in 1 .. MaxDepth |-> NewFrame]
  /\ depth = 0
  /\ posted = 0
  /\ accepted = {}
  /\ taken = {}
  /\ calls = [r \in Rids |-> [d \in Events |-> 0]]
  /\ frees = [d \in Events |-> 0]
  /\ joined = FALSE
  /\ waits = [w \in 1 .. MaxWaits |-> NoWait]
  /\ nwaits = 0
  /\ stage = [l \in 0 .. MaxWaits |-> "socket"]
  /\ timers = MaxTimers
  /\ strays = FALSE

-----------------------------------------------------------------------------
\* Control is in the innermost loop, not in a poll it started.
InLoop == depth = IF nwaits = 0 THEN 0 ELSE waits[nwaits].base
At(s) == InLoop /\ stage[nwaits] = s

\* Code that may block: a socket handler, a timer callback, or the scene's
\* event handler.
MayWait ==
  IF InLoop THEN stage[nwaits] \in {"socket", "timer"}
            ELSE Top.at = "handler" /\ reg[Top.item].key = SceneKey

\* Mutant: attach does not set event_dispatcher_joined.
Joined_NotSet == joined

Joined == TRUE

TimersLeft == IF timers > 0 THEN timers - 1 ELSE 0

\* event_dispatcher_wait up to the loop: the handler, joined, the timer.
StartWait(id, addr) ==
  /\ MayWait
  /\ nwaits < MaxWaits
  /\ depth < MaxDepth
  /\ \A w \in 1 .. nwaits : waits[w].addr # addr
  /\ Register(id, addr)
  /\ joined' = Joined
  /\ nwaits' = nwaits + 1
  /\ waits' = [w \in 1 .. MaxWaits |->
       IF w = nwaits + 1
         THEN [NoWait EXCEPT !.id = id, !.addr = addr, !.armed = timers > 0,
                             !.base = depth, !.alone = nwaits = 0]
         ELSE [waits[w] EXCEPT !.alone = FALSE]]
  /\ stage' = [stage EXCEPT ![nwaits + 1] = "check"]
  /\ timers' = TimersLeft
  /\ UNCHANGED strays

\* Mutant: while (event_dispatcher_joined)
GoesOn_WithoutTimeout(w) == joined

\* while (!timer_fired && event_dispatcher_joined)
GoesOn(w) == ~waits[w].fired /\ joined

LoopOn ==
  /\ nwaits > 0
  /\ At("check")
  /\ GoesOn(nwaits)
  /\ stage' = [stage EXCEPT ![nwaits] = "socket"]
  /\ UNCHANGED <<vars, joined, waits, nwaits, timers, strays>>

\* The loop ends: joined is cleared for everybody, the timer is stopped and
\* marked removed, the handler is unregistered.
EndWait ==
  /\ nwaits > 0
  /\ At("check")
  /\ ~GoesOn(nwaits)
  /\ Unregister(waits[nwaits].id, waits[nwaits].addr)
  /\ joined' = FALSE
  /\ nwaits' = nwaits - 1
  /\ waits' = [waits EXCEPT ![nwaits] = NoWait]
  /\ stage' = [stage EXCEPT ![nwaits] = "socket"]
  /\ UNCHANGED <<timers, strays>>

\* _event_dispatcher_run: the socket pump, then the timer pump, then ...
SocketsPolled ==
  /\ At("socket")
  /\ stage' = [stage EXCEPT ![nwaits] = "timer"]
  /\ UNCHANGED <<vars, joined, waits, nwaits, timers, strays>>

\* A timeout fires in whichever loop polls the timer pump when it is due.
TimeOut(w) ==
  /\ At("timer")
  /\ w <= nwaits
  /\ waits[w].armed
  /\ ~waits[w].fired
  /\ waits' = [waits EXCEPT ![w].fired = TRUE]
  /\ UNCHANGED <<vars, joined, nwaits, stage, timers, strays>>

TimersPolled ==
  /\ At("timer")
  /\ stage' = [stage EXCEPT ![nwaits] = "event"]
  /\ UNCHANGED <<vars, joined, waits, nwaits, timers, strays>>

\* ... the event pump; the main loop has no condition to check after it.
EventsPolled ==
  /\ At("event")
  /\ PollBegin
  /\ stage' = [stage EXCEPT ![nwaits] = IF nwaits = 0 THEN "socket" ELSE "check"]
  /\ UNCHANGED <<joined, waits, nwaits, timers, strays>>

\* CallHandler, and event_id_wait_handler when that is the handler called: it
\* writes through the address it was registered with, and detaches.
HandlerCalled ==
  LET addr == reg[Top.item].key
      owner == {w \in 1 .. nwaits : waits[w].addr = addr}
  IN  /\ CallHandler
      /\ IF addr \in Addresses
           THEN /\ joined' = FALSE
                /\ waits' = [w \in 1 .. MaxWaits |->
                     IF w \in owner THEN [waits[w] EXCEPT !.found = TRUE] ELSE waits[w]]
                /\ strays' = (strays \/ owner = {}
                                     \/ \E w \in owner : waits[w].id # TopEntry.id)
           ELSE UNCHANGED <<joined, waits, strays>>
      /\ UNCHANGED <<nwaits, stage, timers>>

PollRuns ==
  /\ \/ SkipProcessing
     \/ TakeEvent
     \/ SkipFlagged
     \/ ~InLoop /\ HandlerReturns
     \/ FinishEvent
     \/ PollEnd
  /\ UNCHANGED loopVars

Posts == (\E id \in EventIds : SendEvent(id)) /\ UNCHANGED loopVars

LoopStep ==
  \/ LoopOn
  \/ EndWait
  \/ SocketsPolled
  \/ TimersPolled
  \/ EventsPolled
  \/ HandlerCalled
  \/ PollRuns

DNext ==
  \/ Posts
  \/ \E id \in WaitIds, addr \in Addresses : StartWait(id, addr)
  \/ \E w \in 1 .. MaxWaits : TimeOut(w)
  \/ LoopStep

DSpec == DInit /\ [][DNext]_dispVars

\* The dispatcher thread keeps running, and a timer whose time has passed is
\* called by one of the polls that follow.
DFairSpec ==
  /\ DSpec
  /\ WF_dispVars(LoopStep)
  /\ \A w \in 1 .. MaxWaits : SF_dispVars(TimeOut(w))

-----------------------------------------------------------------------------
\* A wait that had the dispatcher to itself, in a process where no handler has
\* outlived its wait so far, ends with its event or its timeout and not before.
LoneWaitSound ==
  [][\A w \in 1 .. MaxWaits :
       nwaits = w /\ nwaits' < w /\ waits[w].alone /\ ~strays
         => waits[w].found \/ waits[w].fired]_dispVars

\* Every wait comes to its end, and so do the polls it was started in, unless a
\* wait without a timeout runs above it (the timer table was full).
WaitsUnwind ==
  \A w \in 1 .. MaxWaits :
    (nwaits = w) ~> (nwaits < w \/ \E v \in 1 .. nwaits : ~waits[v].armed)

\* What the callers of event_dispatcher_wait take a false answer for: the time
\* they asked for has passed (command_class.c:404).
NotFoundMeansTimeout ==
  [][\A w \in 1 .. MaxWaits :
       nwaits = w /\ nwaits' < w /\ ~waits[w].found => waits[w].fired]_dispVars
=============================================================================
