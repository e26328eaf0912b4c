------------------------------ MODULE TimerPump ------------------------------
(***************************************************************************)
(* The timer pump of libZaeUtil/timer_pump.c: one fixed table of timers,   *)
(* filled from the front, compacted by copying the last entry over a       *)
(* removed one, and scanned by timer_pump_poll, which counts every started *)
(* timer down and calls those that are due.                                *)
(*                                                                         *)
(* Everything here runs on the dispatcher thread.  A callback may register *)
(* start, stop and remove timers, and may itself run the dispatcher, so    *)
(* polls nest as in EventPump.  Time is counted in units (the code counts  *)
(* nanoseconds) and moves while anything else happens.                     *)
(***************************************************************************)
EXTENDS Integers, FiniteSets

CONSTANTS
  Timeouts,   \* the timeouts clients ask for
  MaxTimers,  \* entries of the table (128 in the code)
  MaxDepth,   \* bound: polls active at once
  MaxIds,     \* bound: timers registered in a behaviour
  MaxClock    \* bound: the last instant of a behaviour

ASSUME TimersAssumption ==
  /\ Timeouts \subseteq Nat
  /\ MaxTimers \in Nat \ {0}
  /\ MaxDepth \in Nat \ {0}
  /\ MaxIds \in Nat
  /\ MaxClock \in Nat

Index == 1 .. MaxTimers
Ids == 0 .. MaxIds - 1
Instants == 0 .. MaxClock
Never == -1

Timer == [ id : Nat, timeout : Nat, left : Int, last : Nat,
           started : BOOLEAN, single : BOOLEAN, removed : BOOLEAN ]

\* One activation of timer_pump_poll: its loop index, the time it was given, when
\* the callback it is in began and, as history, how many entries it dropped and
\* whether a callback polled again.
Frame == [ at : {"scan", "callback"}, i : Nat, ts : Nat, called : Nat,
           dropped : Nat, nested : BOOLEAN ]

VARIABLES
  table,   \* timer_table
  next,    \* next_timer_slot: entries 1 .. next are in use
  maxId,   \* max_timer_id
  now,     \* CLOCK_MONOTONIC
  since,   \* when the main loop began its present round, at the earliest
  frame,   \* the active polls, innermost last
  depth,   \* how many polls are active
  held,    \* ids that clients were given and have not removed
  due      \* history: when each running timer is to be called, or Never

vars == <<table, next, maxId, now, since, frame, depth, held, due>>

-----------------------------------------------------------------------------
Zeroed == [id |-> 0, timeout |-> 0, left |-> 0, last |-> 0,
           started |-> FALSE, single |-> FALSE, removed |-> FALSE]
NewFrame == [at |-> "scan", i |-> 1, ts |-> 0, called |-> 0, dropped |-> 0,
             nested |-> FALSE]

Top == frame[depth]
InClient == depth > 0 => Top.at = "callback"

Init ==
  /\ table = [k \in Index |-> Zeroed]
  /\ next = 0
  /\ maxId = 0
  /\ now = 0
  /\ since = 0
  /\ frame = [k \in 1 .. MaxDepth |-> NewFrame]
  /\ depth = 0
  /\ held = {}
  /\ due = [id \in Ids |-> Never]

Tick ==
  /\ now < MaxClock
  /\ now' = now + 1
  /\ UNCHANGED <<table, next, maxId, since, frame, depth, held, due>>

-----------------------------------------------------------------------------
HasRoom == next < MaxTimers

\* timer_pump_add_timeout.  A full table answers -1, and nothing changes.
\* remove_pending_flag and current_timeout keep what the slot held.
AddTimeout(timeout, single) ==
  /\ InClient
  /\ HasRoom
  /\ maxId < MaxIds
  /\ table' = [table EXCEPT ![next + 1] =
                 [@ EXCEPT !.id = maxId, !.timeout = timeout, !.last = 0,
                           !.started = FALSE, !.single = single]]
  /\ next' = next + 1
  /\ maxId' = maxId + 1
  /\ held' = held \cup {maxId}
  /\ UNCHANGED <<now, since, frame, depth, due>>

\* The first entry with this id, as the loops over the table find it.
FirstWith(id, last) ==
  {k \in 1 .. last : table[k].id = id /\ \A j \in 1 .. k - 1 : table[j].id # id}

\* timer_pump_remove_timeout looks through the whole table, free slots included.
RemoveTimeout(id) ==
  /\ InClient
  /\ id \in held
  /\ held' = held \ {id}
  /\ due' = [due EXCEPT ![id] = Never]
  /\ table' = [k \in Index |-> IF k \in FirstWith(id, MaxTimers)
                                 THEN [table[k] EXCEPT !.removed = TRUE]
                                 ELSE table[k]]
  /\ UNCHANGED <<next, maxId, now, since, frame, depth>>

\* Mutant: the countdown is not reloaded.
Armed_NoReload(t) == [t EXCEPT !.started = TRUE, !.last = now]

Armed(t) == [t EXCEPT !.started = TRUE, !.last = now, !.left = t.timeout]

\* timer_pump_start_timer
StartTimer(id) ==
  /\ InClient
  /\ id \in held
  /\ table' = [k \in Index |-> IF k \in FirstWith(id, next) THEN Armed(table[k])
                                                         ELSE table[k]]
  /\ due' = [due EXCEPT ![id] =
               now + table[CHOOSE k \in FirstWith(id, next) : TRUE].timeout]
  /\ UNCHANGED <<next, maxId, now, since, frame, depth, held>>

\* timer_pump_stop_timer
StopTimer(id) ==
  /\ InClient
  /\ id \in held
  /\ table' = [k \in Index |-> IF k \in FirstWith(id, next)
                                 THEN [table[k] EXCEPT !.started = FALSE]
                                 ELSE table[k]]
  /\ due' = [due EXCEPT ![id] = Never]
  /\ UNCHANGED <<next, maxId, now, since, frame, depth, held>>

-----------------------------------------------------------------------------
\* timer_pump_poll, one action per step of the loop.  Each loop reads the clock as
\* a round begins and then lets the socket pump run, where a wait may poll the
\* timers with later readings: ts may be older than that of the poll before.  A
\* loop inside a callback reads the clock after the callback began.
PollBegin ==
  /\ InClient
  /\ depth < MaxDepth
  /\ depth' = depth + 1
  /\ \E ts \in (IF depth = 0 THEN since ELSE Top.called) .. now :
       frame' = [k \in 1 .. MaxDepth |->
                   IF k = depth + 1 THEN [NewFrame EXCEPT !.ts = ts]
                   ELSE IF k <= depth THEN [frame[k] EXCEPT !.nested = TRUE]
                   ELSE frame[k]]
  /\ UNCHANGED <<table, next, maxId, now, since, held, due>>

Scanning == depth > 0 /\ Top.at = "scan" /\ Top.i <= next
Here == table[Top.i]
Counts == Here.started /\ Here.last < Top.ts
Remaining == Here.left - (Top.ts - Here.last)
Counted == [Here EXCEPT !.left = Remaining, !.last = Top.ts]

SkipIdle ==
  /\ Scanning
  /\ ~Counts
  /\ frame' = [frame EXCEPT ![depth].i = @ + 1]
  /\ UNCHANGED <<table, next, maxId, now, since, depth, held, due>>

CountDown ==
  /\ Scanning
  /\ Counts
  /\ Remaining > 0
  /\ table' = [table EXCEPT ![Top.i] = Counted]
  /\ frame' = [frame EXCEPT ![depth].i = @ + 1]
  /\ UNCHANGED <<next, maxId, now, since, depth, held, due>>

\* on_event of a timer that is due and not removed.
Fire ==
  /\ Scanning
  /\ Counts
  /\ Remaining <= 0
  /\ ~Here.removed
  /\ table' = [table EXCEPT ![Top.i] = Counted]
  /\ frame' = [frame EXCEPT ![depth] = [@ EXCEPT !.at = "callback", !.called = now]]
  /\ UNCHANGED <<next, maxId, now, since, depth, held, due>>

\* Mutant: the removed entry is zeroed and the last one not moved.
Purge_NoMove(t, k) == IF t[k].removed THEN [t EXCEPT ![k] = Zeroed] ELSE t

\* timer_purge_timers(index) on the table t: the last entry is copied over a
\* removed one and its old place zeroed.
Purge(t, k) ==
  IF t[k].removed THEN [[t EXCEPT ![k] = t[next]] EXCEPT ![next] = Zeroed] ELSE t

\* Mutant: the loop index moves twice.
Following_Skips == Top.i + 2

Following == Top.i + 1

PurgeAndStep(t) ==
  LET gone == t[Top.i].removed
  IN  /\ table' = Purge(t, Top.i)
      /\ next' = IF gone THEN next - 1 ELSE next
      /\ frame' = [frame EXCEPT ![depth] =
                     [at |-> "scan", i |-> Following, ts |-> Top.ts, called |-> 0,
                      dropped |-> IF gone THEN Top.dropped + 1 ELSE Top.dropped,
                      nested |-> Top.nested]]

\* A removed timer goes when it falls due.
DropDue ==
  /\ Scanning
  /\ Counts
  /\ Remaining <= 0
  /\ Here.removed
  /\ PurgeAndStep([table EXCEPT ![Top.i] = Counted])
  /\ UNCHANGED <<maxId, now, since, depth, held, due>>

\* What follows on_event goes through the pointer taken before the call: it acts
\* on whatever entry is at the index by now.
Rearmed ==
  IF Here.single THEN [Here EXCEPT !.started = FALSE]
                 ELSE [Here EXCEPT !.left = Here.timeout]

CallbackReturns ==
  /\ depth > 0
  /\ Top.at = "callback"
  /\ PurgeAndStep([table EXCEPT ![Top.i] = Rearmed])
  /\ due' = IF Here.id \in held /\ Here.started
              THEN [due EXCEPT ![Here.id] =
                      IF Here.single THEN Never ELSE Here.last + Here.timeout]
              ELSE due
  /\ UNCHANGED <<maxId, now, since, depth, held>>

\* The poll was the main loop's, whose next round begins, or a wait's.
PollEnd ==
  /\ depth > 0
  /\ Top.at = "scan"
  /\ Top.i > next
  /\ depth' = depth - 1
  /\ since' \in (IF depth = 1 THEN {since, now} ELSE {since})
  /\ frame' = [frame EXCEPT ![depth] = NewFrame]
  /\ UNCHANGED <<table, next, maxId, now, held, due>>

-----------------------------------------------------------------------------
Next ==
  \/ Tick
  \/ \E timeout \in Timeouts, single \in BOOLEAN : AddTimeout(timeout, single)
  \/ \E id \in Ids : RemoveTimeout(id) \/ StartTimer(id) \/ StopTimer(id)
  \/ PollBegin
  \/ SkipIdle
  \/ CountDown
  \/ Fire
  \/ DropDue
  \/ CallbackReturns
  \/ PollEnd

Spec == Init /\ [][Next]_vars

-----------------------------------------------------------------------------
\* Every variable keeps its type: an id is at most the last one given, and the last table
\* slot in use is within the table (timer_pump.h).
TypeOK ==
  /\ table \in [Index -> Timer]
  /\ next \in 0 .. MaxTimers
  /\ maxId \in 0 .. MaxIds
  /\ now \in Instants
  /\ since \in Instants
  /\ frame \in [1 .. MaxDepth -> Frame]
  /\ depth \in 0 .. MaxDepth
  /\ held \in SUBSET Ids
  /\ due \in [Ids -> Nat \cup {Never}]

InUse == 1 .. next

\* The entries that are not marked removed are exactly the timers clients hold,
\* one entry each: compaction neither loses a timer, nor doubles it, nor brings
\* back a removed one.
TableMatchesHandles ==
  /\ \A j, k \in InUse : table[j].id = table[k].id => j = k
  /\ {table[k].id : k \in {k \in InUse : ~table[k].removed}} = held

\* A free slot is never marked removed, so that a new timer does not start its
\* life removed (timer_pump_add_timeout does not reset the mark).
FreeSlotsClean == \A k \in Index \ InUse : ~table[k].removed /\ ~table[k].started

\* A callback runs only for a timer that a client still holds and that started
\* at least its timeout ago.
NeverEarly ==
  [][Fire => Here.id \in held /\ due[Here.id] # Never /\ due[Here.id] <= Top.ts]_vars

Overdue == {k \in InUse : /\ table[k].started
                          /\ table[k].last < Top.ts
                          /\ table[k].left <= Top.ts - table[k].last}

\* When a poll ends, everything that was due has been called or dropped, except
\* for at most one timer per entry dropped: the one copied over it is passed by.
\* (Unless a callback polled: the outer scan then goes on with a changed table.)
Punctual ==
  [][PollEnd /\ ~Top.nested => Cardinality(Overdue) <= Top.dropped]_vars
=============================================================================
