--------------------------- MODULE ChildProcesses ---------------------------
(***************************************************************************)
(* The programs the engine forks: homebridge (homebridge_manager.c), whose *)
(* output it reads from a pipe, and the scripts of scenes                  *)
(* (script_action_handler.c), whose environments it keeps until they end.  *)
(* A command typed with a "|" forks a filter and waits for it.  Both       *)
(* managers install a handler of SIGCHLD, and the last one installed gets  *)
(* the signals of all children.  A signal may come between any two steps;  *)
(* one that is pending absorbs the next.  The calls of the engine come from*)
(* the dispatcher's thread, one after the other.                           *)
(***************************************************************************)
EXTENDS Integers, Sequences

CONSTANTS
  MaxForks,        \* bound: children
  StoredScripts    \* MAX_SIMULTANEOUS_SCRIPTS

ASSUME ForksAssumption == MaxForks \in Nat /\ StoredScripts \in Nat

VARIABLES
  cpKids,      \* the children in the order of their forks: [kind, state, asked]
  cpHandler,   \* the handler of SIGCHLD: "none", "bridge" or "script"
  cpSignal,    \* the child whose SIGCHLD is pending
  cpAt,        \* where the dispatcher's thread is
  cpBlocked,   \* it waits in script_done_handler for a child to end
  cpNew,       \* the child it has forked
  cpMayStart,  \* can_start_homebridge
  cpRestart,   \* homebridge_restart_on_crash
  cpPid,       \* homebridge_pid
  cpFd,        \* homebridge_fd, named after the child that writes to it
  cpPumped,    \* the pipes registered with the socket pump
  cpEnvs,      \* stored_env_array
  cpNested     \* history: a start was begun inside another

bridgeVars == <<cpMayStart, cpRestart, cpPid, cpFd, cpPumped, cpNested>>
cpVars == <<cpKids, cpHandler, cpSignal, cpAt, cpBlocked, cpNew, bridgeVars, cpEnvs>>

NoChild == 0   \* -1 in the code
Kids == DOMAIN cpKids
Child(kind, state) == [kind |-> kind, state |-> state, asked |-> FALSE]

CpInit ==
  /\ cpKids = << >> /\ cpHandler = "none" /\ cpSignal = NoChild /\ cpAt = "idle" /\ cpNew = NoChild
  /\ cpBlocked = FALSE
  /\ cpMayStart = FALSE /\ cpRestart = FALSE /\ cpPid = NoChild /\ cpFd = NoChild
  /\ cpPumped = {} /\ cpNested = FALSE /\ cpEnvs = [i \in 1 .. StoredScripts |-> NoChild]

At(place) == cpAt = place /\ ~cpBlocked

-----------------------------------------------------------------------------
\* fork() may fail: the parent goes on with a pid of -1.
Forks(kind) ==
  /\ Len(cpKids) < MaxForks
  /\ \E state \in {"runs", "never"} : cpKids' = Append(cpKids, Child(kind, state))
  /\ cpNew' = Len(cpKids) + 1

PidOf(kids, n) == IF kids[n].state = "never" THEN NoChild ELSE n

\* Mutant: homebridge_manager_init does not look at homebridge_fd.
NoneStarted_Again == TRUE

\* -1 == homebridge_fd
NoneStarted == cpFd = NoChild

\* homebridge_manager_init, up to the fork; without a pipe it registers descriptor -1.
BeginStart ==
  /\ cpRestart' = TRUE
  /\ IF ~NoneStarted THEN UNCHANGED <<cpKids, cpNew, cpAt, cpPumped>>
     ELSE \/ Forks("bridge") /\ cpAt' = "forked" /\ UNCHANGED cpPumped
          \/ cpPumped' = cpPumped \cup {NoChild} /\ UNCHANGED <<cpKids, cpNew, cpAt>>
  /\ UNCHANGED <<cpBlocked, cpHandler, cpSignal, cpPid, cpFd, cpEnvs, cpNested>>

\* "enable", typed or read from the startup configuration, and the call from main.
Enable == At("idle") /\ cpMayStart' = TRUE /\ BeginStart
EnableLater == At("idle") /\ cpMayStart' = TRUE
  /\ UNCHANGED <<cpBlocked, cpKids, cpHandler, cpSignal, cpAt, cpNew, cpRestart, cpPid, cpFd,
                 cpPumped, cpNested, cpEnvs>>

StorePid ==
  /\ At("forked") /\ cpAt' = "stored"
  /\ cpPid' = PidOf(cpKids, cpNew)
  /\ UNCHANGED <<cpBlocked, cpKids, cpHandler, cpSignal, cpNew, cpMayStart,
                 cpRestart, cpFd, cpPumped, cpNested, cpEnvs>>

SetHandler ==
  /\ At("stored") /\ cpAt' = "handled"
  /\ cpHandler' = "bridge"
  /\ UNCHANGED <<cpBlocked, cpKids, cpSignal, cpNew, bridgeVars, cpEnvs>>

FinishStart ==
  /\ At("handled") /\ cpAt' = "idle"
  /\ cpFd' = cpNew /\ cpPumped' = cpPumped \cup {cpNew}
  /\ UNCHANGED <<cpBlocked, cpKids, cpHandler, cpSignal, cpNew, cpMayStart, cpRestart,
                 cpPid, cpNested, cpEnvs>>

\* "no enable": homebridge_manager_stop sends SIGINT to whatever homebridge_pid names.
Disable ==
  /\ At("idle")
  /\ cpMayStart' = FALSE /\ cpRestart' = FALSE
  /\ cpPumped' = cpPumped \ {cpFd} /\ cpFd' = NoChild
  /\ cpKids' = [n \in Kids |-> IF n = cpPid THEN [cpKids[n] EXCEPT !.asked = TRUE] ELSE cpKids[n]]
  /\ UNCHANGED <<cpBlocked, cpHandler, cpSignal, cpAt, cpNew, cpPid, cpNested, cpEnvs>>

\* homebridge_on_event, when the read fails; the end of the file changes nothing.
ReadFails(fd) ==
  /\ At("idle") /\ fd # NoChild
  /\ cpPumped' = cpPumped \ {fd}
  /\ UNCHANGED <<cpBlocked, cpKids, cpHandler, cpSignal, cpAt, cpNew, cpMayStart,
                 cpRestart, cpPid, cpFd, cpNested, cpEnvs>>

-----------------------------------------------------------------------------
\* script_exec, up to the fork, and store_env with the rest of it: a script without a free
\* place is not stored.
BeginScript ==
  /\ At("idle") /\ cpAt' = "script" /\ Forks("script")
  /\ UNCHANGED <<cpBlocked, cpHandler, cpSignal, bridgeVars, cpEnvs>>

FinishScript ==
  /\ At("script") /\ cpAt' = "idle"
  /\ LET free == {i \in 1 .. StoredScripts : cpEnvs[i] = NoChild}
     IN IF free = {} THEN UNCHANGED cpEnvs
        ELSE LET first == CHOOSE i \in free : \A j \in free : i <= j
             IN cpEnvs' = [cpEnvs EXCEPT ![first] = cpNew]
  /\ cpHandler' = "script"
  /\ UNCHANGED <<cpBlocked, cpKids, cpSignal, cpNew, bridgeVars>>

-----------------------------------------------------------------------------
\* A child exits or is killed.  Without a handler the signal is ignored.
ChildEnds(n) ==
  /\ cpKids[n].state = "runs"
  /\ \E state \in {"exited", "killed"} : cpKids' = [cpKids EXCEPT ![n].state = state]
  /\ cpSignal' = IF cpHandler = "none" \/ cpSignal # NoChild THEN cpSignal ELSE n
  /\ UNCHANGED <<cpBlocked, cpHandler, cpAt, cpNew, bridgeVars, cpEnvs>>

Zombies == {n \in Kids : cpKids[n].state \in {"exited", "killed"}}
Reaped(n) == [cpKids EXCEPT ![n].state = "gone"]

\* homebridge_manager_init as homebridge_stopped_handler calls it: all of it, before the
\* code that was interrupted goes on.
RestartInHandler(kids) ==
  IF ~(cpRestart /\ cpMayStart /\ NoneStarted) THEN
       cpKids' = kids /\ cpPumped' = cpPumped \ {cpFd} /\ UNCHANGED <<cpPid, cpFd, cpHandler, cpNested>>
  ELSE LET n == Len(kids) + 1 IN
       /\ n <= MaxForks
       /\ \E state \in {"runs", "never"} : cpKids' = Append(kids, Child("bridge", state))
       /\ cpPid' = PidOf(cpKids', n) /\ cpHandler' = "bridge"
       /\ cpFd' = n /\ cpPumped' = (cpPumped \ {cpFd}) \cup {n}
       /\ cpNested' = (cpNested \/ cpAt \in {"forked", "stored", "handled"})

\* homebridge_stopped_handler: a status that waitpid did not write reads as an exit.
BridgeSignal ==
  /\ ~cpBlocked /\ cpSignal # NoChild /\ cpHandler = "bridge" /\ cpSignal' = NoChild
  /\ IF cpSignal # cpPid \/ cpKids[cpPid].state = "killed"
     THEN /\ cpKids' = IF cpSignal # cpPid THEN cpKids ELSE Reaped(cpPid)
          /\ UNCHANGED <<cpHandler, bridgeVars>>
     ELSE RestartInHandler(Reaped(cpPid)) /\ UNCHANGED <<cpMayStart, cpRestart>>
  /\ UNCHANGED <<cpBlocked, cpAt, cpNew, cpEnvs>>

\* script_done_handler reaps one child, whichever it is, and clear_env releases what was
\* stored for it; as long as none has ended it does not return.  Without children waitpid
\* gives -1, the pid of the scripts whose fork failed.
EnvsWithout(kids) == [i \in DOMAIN cpEnvs |-> IF cpEnvs[i] \in kids THEN NoChild ELSE cpEnvs[i]]

ScriptReaps(n) == cpKids' = Reaped(n) /\ cpEnvs' = EnvsWithout({n})

ScriptSignal ==
  /\ ~cpBlocked /\ cpSignal # NoChild /\ cpHandler = "script" /\ cpSignal' = NoChild
  /\ \/ (\E n \in Zombies : ScriptReaps(n)) /\ UNCHANGED cpBlocked
     \/ /\ Zombies = {} /\ UNCHANGED cpKids
        /\ cpBlocked' = \E n \in Kids : cpKids[n].state = "runs"
        /\ cpEnvs' = IF cpBlocked' THEN cpEnvs ELSE EnvsWithout({n \in Kids : cpKids[n].state = "never"})
  /\ UNCHANGED <<cpHandler, cpAt, cpNew, bridgeVars>>

ScriptGoesOn ==
  /\ cpBlocked /\ cpBlocked' = FALSE
  /\ \E n \in Zombies : ScriptReaps(n)
  /\ UNCHANGED <<cpSignal, cpHandler, cpAt, cpNew, bridgeVars>>

-----------------------------------------------------------------------------
\* cli_command_exec_custom_node: the command runs and writes, then its filter is waited
\* for; without a fork, any child is.
BeginPipe ==
  /\ At("idle") /\ cpAt' = "pipe" /\ Forks("filter")
  /\ UNCHANGED <<cpBlocked, cpHandler, cpSignal, bridgeVars, cpEnvs>>

EndPipe ==
  /\ At("pipe") /\ cpAt' = "idle"
  /\ LET awaited == IF cpKids[cpNew].state = "never" THEN Kids ELSE {cpNew}
     IN \/ \E n \in awaited \cap Zombies : cpKids' = Reaped(n)
        \/ (\A n \in awaited : cpKids[n].state \in {"gone", "never"}) /\ UNCHANGED cpKids
  /\ UNCHANGED <<cpBlocked, cpHandler, cpSignal, cpNew, bridgeVars, cpEnvs>>

CpNext ==
  \/ Enable \/ EnableLater \/ StorePid \/ SetHandler \/ FinishStart \/ Disable
  \/ \E fd \in cpPumped : ReadFails(fd)
  \/ BeginScript \/ FinishScript
  \/ \E n \in Kids : ChildEnds(n)
  \/ BridgeSignal \/ ScriptSignal \/ ScriptGoesOn
  \/ BeginPipe \/ EndPipe

CpSpec == CpInit /\ [][CpNext]_cpVars

-----------------------------------------------------------------------------
\* Every homebridge that runs is the one that "no enable" will stop, or was told to stop,
\* however starts, stops, scripts and signals follow each other, unless a handler started
\* one inside a start that was not over (homebridge_manager.c:124).
OneHomebridge ==
  ~cpNested => \A n \in Kids :
    cpKids[n].kind = "bridge" /\ cpKids[n].state = "runs" =>
      n = cpPid \/ cpKids[n].asked \/ (cpAt = "forked" /\ n = cpNew)
=============================================================================
