------------------------------ MODULE Crontab ------------------------------
(***************************************************************************)
(* services/Cron: the tree of time lists (crontab.c), the records of the   *)
(* commands that fill it (cron_cli.c) and the tick (Cron.c).               *)
(*                                                                         *)
(* No entry of the tree is ever removed, only actions are.  So the tree is *)
(* the sequence of the times added, each a path from the root, in the order*)
(* in which they were added first: the entries of a level below a prefix   *)
(* are in the order of the first paths that go through them.               *)
(***************************************************************************)
EXTENDS ListWalk

CONSTANTS
  TimeLists,    \* for each of the five fields, the lists a job may give
  Readings,     \* readings of the clock: minute, hour, day, tm_mon, weekday
  JobActions,   \* scenes and commands
  MaxJobs       \* bound: jobs added in a behaviour

ASSUME CronAssumption == MaxJobs \in Nat /\ DOMAIN TimeLists = 1 .. 5

VARIABLES
  cronPaths,   \* the times in the tree
  cronActions, \* the actions below each of them
  cronJobs,    \* cron_cli_record_list: [time, action]
  cronAdded,   \* history: the jobs added so far
  cronTick,    \* the last tick: a reading, or none
  cronPosted,  \* the actions it posted events for
  cronLost     \* a list was walked on from freed memory

cronVars == <<cronPaths, cronActions, cronJobs, cronAdded, cronTick, cronPosted, cronLost>>

Wild == -1       \* "*"
JobTimes == {<<minute, hour, day, month, weekday>> :
               minute \in TimeLists[1], hour \in TimeLists[2], day \in TimeLists[3],
               month \in TimeLists[4], weekday \in TimeLists[5]}

CronInit ==
  /\ cronPaths = << >> /\ cronActions = << >> /\ cronJobs = << >> /\ cronAdded = << >>
  /\ cronTick = {} /\ cronPosted = << >> /\ cronLost = FALSE

-----------------------------------------------------------------------------
\* Two paths go through the same entries n levels down.
Agree(left, right, n) == \A i \in 1 .. n : left[i] = right[i]

FieldsAt(i) == {path[i] : path \in ToSet(cronPaths)}

\* Four levels down, the first entry of each with a list in hits is followed: there is no way
\* back from it.  The paths through all four, which are the entries of the last level.
Followed(hits) ==
  LET First(path, i) ==
        Min({k \in DOMAIN cronPaths : Agree(cronPaths[k], path, i - 1) /\ cronPaths[k][i] \in hits[i]})
  IN {path \in ToSet(cronPaths) : \A i \in 1 .. 4 :
        path[i] \in hits[i] /\ path[i] = cronPaths[First(path, i)][i]}

\* crontab_has_time, or the entry's first value is "*".
HasTime(list, value) == value \in ToSet(list) \/ list[1] = Wild

\* crontab_get_action.  At the last level every entry that matches counts, but one that
\* does not match before any action was found makes it forget that there was a way here.
ListsAt(now) == [i \in 1 .. 5 |-> {list \in FieldsAt(i) : HasTime(list, now[i])}]

GetAction_AnyDay(now) ==
  LET ways == {k \in DOMAIN cronPaths : cronPaths[k] \in Followed(ListsAt(now))}
  IN FlattenSeq([k \in DOMAIN cronPaths |->
                   IF k \in ways THEN cronActions[cronPaths[k]] ELSE << >>])

GetAction(now) ==
  LET ways == {k \in DOMAIN cronPaths : cronPaths[k] \in Followed(ListsAt(now))}
      hits == {k \in ways : HasTime(cronPaths[k][5], now[5])}
      forgets == \E k \in ways \ hits : \A j \in hits : j < k => cronActions[cronPaths[j]] = << >>
  IN IF forgets THEN << >>
     ELSE FlattenSeq([k \in DOMAIN cronPaths |->
                        IF k \in hits THEN cronActions[cronPaths[k]] ELSE << >>])

-----------------------------------------------------------------------------
\* cmd_cron_add_entry with crontab_add_entry.
AddJob(time, action) ==
  /\ ~cronLost /\ Len(cronAdded) < MaxJobs
  /\ cronPaths' = IF time \in ToSet(cronPaths) THEN cronPaths ELSE Append(cronPaths, time)
  /\ cronActions' = [path \in DOMAIN cronActions \cup {time} |->
                       (IF path \in DOMAIN cronActions THEN cronActions[path] ELSE << >>)
                         \o IF path = time THEN <<action>> ELSE << >>]
  /\ cronJobs' = Append(cronJobs, [time |-> time, action |-> action])
  /\ cronAdded' = Append(cronAdded, [time |-> time, action |-> action])
  /\ UNCHANGED <<cronTick, cronPosted, cronLost>>

\* crontab_del_entry follows the first entries that are equal or "*", and takes the action
\* out of every entry of the last level that is.
EqualOrWild(list, field) == list = field \/ list[1] = Wild

ActionsWithout(paths, action) ==
  [path \in DOMAIN cronActions |->
     IF path \notin paths THEN cronActions[path]
     ELSE Purged(cronActions[path], Positions(cronActions[path], action))]

LeafPaths(time) ==
  LET hits == [i \in 1 .. 5 |-> {list \in FieldsAt(i) : EqualOrWild(list, time[i])}]
  IN {path \in Followed(hits) : path[5] \in hits[5]}

\* cmd_cron_del_entry: the first record that is equal goes, and the tree is asked to
\* forget it.
DelJob(time, action) ==
  LET same == Positions(cronJobs, [time |-> time, action |-> action])
      Walked(path) == WalksFreed(cronActions[path], Positions(cronActions[path], action))
  IN /\ ~cronLost
     /\ cronJobs' = WithoutFirst(cronJobs, same)
     /\ IF same = {} THEN UNCHANGED <<cronActions, cronLost>>
        ELSE /\ cronActions' = ActionsWithout(LeafPaths(time), action)
             /\ cronLost' \in {FALSE, \E path \in LeafPaths(time) : Walked(path)}
     /\ UNCHANGED <<cronPaths, cronAdded, cronTick, cronPosted>>

\* timer_tick_event
Tick(now) ==
  /\ ~cronLost
  /\ cronTick' = {now} /\ cronPosted' = GetAction(now)
  /\ UNCHANGED <<cronPaths, cronActions, cronJobs, cronAdded, cronLost>>

CronNext ==
  \/ \E time \in JobTimes, action \in JobActions : AddJob(time, action) \/ DelJob(time, action)
  \/ \E now \in Readings : Tick(now)

CronSpec == CronInit /\ [][CronNext]_cronVars

-----------------------------------------------------------------------------
\* The date as a job writes it, "month[1-12]" (cron_cli.c:13): a reading has tm_mon, which
\* counts the months from 0.
Date(now) == [i \in 1 .. 5 |-> IF i = 4 THEN now[i] + 1 ELSE now[i]]

Due(job, date) == \A i \in 1 .. 5 : HasTime(job.time[i], date[i])

\* A job comes when it is due, but one that gives a month comes in the month after, and
\* one that gives December never: its month is looked for as tm_mon.
GivesMonth(job) == job.time[4][1] # Wild
Comes(job, now) == Due(job, IF GivesMonth(job) THEN now ELSE Date(now))

Ticks(now) == cronTick' = {now} /\ UNCHANGED cronJobs
PartAt(left, right) == Min({i \in 1 .. 5 : left[i] # right[i]})

\* A "*" on another path stands where the way to this one branches off.
Diverted(time) == \E path \in ToSet(cronPaths) \ {time} : path[PartAt(path, time)][1] = Wild

\* Added once, and every other path parts from this one before the weekday, where neither
\* is "*" and the other one has not what the tick looks for.
Apart(job, now) ==
  /\ Cardinality({k \in DOMAIN cronAdded : cronAdded[k] = job}) = 1
  /\ \A path \in ToSet(cronPaths) \ {job.time} :
       LET i == PartAt(path, job.time)
       IN i < 5 /\ job.time[i][1] # Wild /\ ~HasTime(path[i], now[i])

\* What a tick posts belongs to a job that is written down and comes now, or did when the
\* job's deletion was diverted; and a job that stands apart from the others runs whenever
\* it comes, whatever was added and deleted around it.  To come is to be due as the job
\* was written, but for jobs that give a month.
JobsAsWritten ==
  [][\A now \in Readings : Ticks(now) =>
       /\ \A action \in ToSet(cronPosted') :
            \/ \E job \in ToSet(cronJobs) : job.action = action /\ Comes(job, now)
            \/ \E job \in ToSet(cronAdded) :
                 job.action = action /\ Comes(job, now) /\ Diverted(job.time)
       /\ \A job \in ToSet(cronJobs) :
            Comes(job, now) /\ Apart(job, now) => job.action \in ToSet(cronPosted')]_cronVars

\* Every job that is due runs ("Provides cron-like ability to execute scenes or commands
\* at pre defined times").
DueJobsRun ==
  [][\A now \in Readings : Ticks(now) =>
       \A job \in ToSet(cronJobs) : Due(job, Date(now)) => job.action \in ToSet(cronPosted')]_cronVars
=============================================================================
