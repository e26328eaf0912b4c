---------------------------- MODULE TimerService ----------------------------
(***************************************************************************)
(* services/Timer: the named timers of Timer.c and the commands that       *)
(* configure them (timer_cli.c).  A timer is in three places: in the timer *)
(* pump, in timer_list, and, if a command started it, in timer_config_list.*)
(* The pump is the one of TimerPump, here a set of timers that may expire  *)
(* at any time after they were started.                                    *)
(***************************************************************************)
EXTENDS ListWalk

CONSTANTS
  TimerTargets, \* what timers are for: [name, kind], kind being "scene" or "command"
  Timeouts,     \* timeouts that commands give
  MaxStarted,   \* bound: timers started in a behaviour
  MaxConfigured \* bound: entries of timer_config_list

ASSUME TimerAssumption == MaxStarted \in Nat /\ MaxConfigured \in Nat

VARIABLES
  timerEnabled,  \* timer_enabled
  timerConfig,   \* timer_config_list
  timerList,     \* timer_list, the last one started first
  timerPump,     \* the pump's entries: [id, single, timer], timer being on_timer_expired's context
  timerId,       \* max_timer_id of the pump
  timerLost      \* a list was walked on from freed memory

timerVars == <<timerEnabled, timerConfig, timerList, timerPump, timerId, timerLost>>

NoTimer == -1

TimerInit ==
  /\ timerEnabled = TRUE /\ timerConfig = << >> /\ timerList = << >>
  /\ timerPump = {} /\ timerId = 0 /\ timerLost = FALSE

-----------------------------------------------------------------------------
\* add_timer_event, which the four methods that start a timer share.  The pump is full when
\* others hold its entries, or entries of timers removed earlier are not purged yet.
Started(target, single) ==
  /\ timerId < MaxStarted /\ timerId' = timerId + 1
  /\ \E id \in {timerId', NoTimer} :
       LET timer == [target |-> target, id |-> id]
       IN /\ timerPump' = timerPump \cup
                            {[id |-> i, single |-> single, timer |-> timer] : i \in {id} \ {NoTimer}}
          /\ timerList' = <<timer>> \o timerList

\* Start, Invoke, StartInterval and IntervalInvoke do nothing while the service is disabled.
Start(target, single) ==
  IF timerEnabled THEN Started(target, single)
  ELSE UNCHANGED <<timerList, timerPump, timerId>>

\* The element a loop of timer_stop stands on leaves the pump and the list.
Named(name) == {i \in DOMAIN timerList : timerList[i].target.name = name}

Stop_KeepsPump(name) ==
  /\ timerList' = Purged(timerList, Named(name))
  /\ timerPump' = timerPump
  /\ timerLost' \in {FALSE, WalksFreed(timerList, Named(name))}

Stop(name) ==
  LET left == Purged(timerList, Named(name))
      gone == {timerList[i].id : i \in Named(name)} \ {left[i].id : i \in DOMAIN left}
  IN /\ timerList' = left
     /\ timerPump' = {entry \in timerPump : entry.id \notin gone}
     /\ timerLost' \in {FALSE, WalksFreed(timerList, Named(name))}

\* A method called in an expression.
CallStart(target, single) ==
  /\ ~timerLost /\ Start(target, single)
  /\ UNCHANGED <<timerEnabled, timerConfig, timerLost>>

CallStop(name) ==
  /\ ~timerLost /\ Stop(name)
  /\ UNCHANGED <<timerEnabled, timerConfig, timerId>>

-----------------------------------------------------------------------------
\* timer_cli.c.  The entry is kept even while the service is disabled.
Entry(target, single, timeout) == [target |-> target, single |-> single, timeout |-> timeout]

SetTimer(target, single, timeout) ==
  /\ ~timerLost /\ Len(timerConfig) < MaxConfigured
  /\ timerConfig' = Append(timerConfig, Entry(target, single, timeout))
  /\ Start(target, single)
  /\ UNCHANGED <<timerEnabled, timerLost>>

\* An interval's entry is released as a timer_info_t, which begins with another field:
\* free() is given the flag, and what lies next to it, as a pointer.  It may be NULL.
DelTimer(target, single, timeout) ==
  LET same == Positions(timerConfig, Entry(target, single, timeout))
      wild == ~single /\ same # {}
  IN /\ ~timerLost
     /\ timerConfig' = WithoutFirst(timerConfig, same)
     /\ \/ Stop(target.name)
        \/ wild /\ timerLost' = TRUE /\ UNCHANGED <<timerList, timerPump>>
     /\ UNCHANGED <<timerEnabled, timerId>>

EnableTimers(on) ==
  /\ ~timerLost /\ timerEnabled' = on
  /\ UNCHANGED <<timerConfig, timerList, timerPump, timerId, timerLost>>

\* on_timer_expired: the event is posted, and a single shot leaves the pump and the list.
Expired(entry) ==
  IF entry.single
  THEN /\ timerPump' = timerPump \ {entry}
       /\ timerList' = WithoutFirst(timerList, {i \in DOMAIN timerList : timerList[i].id = entry.id})
  ELSE UNCHANGED <<timerPump, timerList>>

Expire(entry) ==
  /\ ~timerLost /\ entry \in timerPump
  /\ Expired(entry)
  /\ UNCHANGED <<timerEnabled, timerConfig, timerId, timerLost>>

TimerNext ==
  \/ \E target \in TimerTargets, single \in BOOLEAN :
       \/ CallStart(target, single)
       \/ \E timeout \in Timeouts : SetTimer(target, single, timeout) \/ DelTimer(target, single, timeout)
  \/ \E target \in TimerTargets : CallStop(target.name)
  \/ \E on \in BOOLEAN : EnableTimers(on)
  \/ \E entry \in timerPump : Expire(entry)

TimerSpec == TimerInit /\ [][TimerNext]_timerVars

-----------------------------------------------------------------------------
\* A timer in the pump calls back with a timer_info_t that the list still owns, and a
\* timer in the list runs, unless the pump was full when it was started: nothing that was
\* stopped or has fired keeps its entry, and nothing fires with freed memory, whatever
\* mixture of commands, methods and expirations came before.
TimersListed ==
  /\ \A entry \in timerPump :
       Cardinality({i \in DOMAIN timerList : timerList[i] = entry.timer}) = 1
  /\ \A i \in DOMAIN timerList :
       timerList[i].id # NoTimer => \E entry \in timerPump : entry.timer = timerList[i]
=============================================================================
