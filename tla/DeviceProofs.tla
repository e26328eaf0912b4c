----------------------------- MODULE DeviceProofs -----------------------------
(***************************************************************************)
(* Proofs about the homebridge process, the answers of Z-Wave devices, the *)
(* listeners of their data and the virtual devices, for every number of    *)
(* forks, requests, listeners, devices, children of a data holder, cameras,*)
(* names and entries of the event pump.                                    *)
(***************************************************************************)
EXTENDS ChildProcesses, CommandClasses, DataCallbacks, VirtualDevices, ServiceProofs

-----------------------------------------------------------------------------
\* The homebridges that run and were not told to stop. A start begins when there is none,
\* as homebridge_fd is -1 only before the first one and after a stop; until it is over the
\* one that is being started is the only one.
KidRecords == [kind : {"bridge", "script", "filter"},
               state : {"runs", "never", "exited", "killed", "gone"}, asked : BOOLEAN]
Loose(kids) == {n \in DOMAIN kids : /\ kids[n].kind = "bridge" /\ kids[n].state = "runs"
                                    /\ ~kids[n].asked}
Starting == {"forked", "stored", "handled"}

BridgeInv ==
  /\ cpKids \in Seq(KidRecords)
  /\ cpAt \in Starting \cup {"idle", "script", "pipe"}
  /\ cpNew \in Nat /\ (cpAt \in Starting => cpNew # NoChild)
  /\ ~cpNested =>
       /\ Loose(cpKids) \subseteq {cpPid} \cup IF cpAt = "forked" THEN {cpNew} ELSE {}
       /\ cpAt \in Starting => Loose(cpKids) \subseteq {cpNew}
       /\ cpAt \notin Starting /\ cpFd = NoChild => Loose(cpKids) = {}

LEMMA BridgeInit == CpInit => BridgeInv
  BY DEF CpInit, BridgeInv, Loose, Starting, NoChild

\* A fork adds at most its own child, and only a homebridge that runs.
LEMMA ForkAdds ==
  ASSUME NEW kids \in Seq(KidRecords), NEW kind \in {"bridge", "script", "filter"},
         NEW state \in {"runs", "never"}
  PROVE  LET forked == Append(kids, Child(kind, state))
         IN /\ forked \in Seq(KidRecords)
            /\ Len(forked) = Len(kids) + 1
            /\ Loose(forked) \subseteq
                 Loose(kids) \cup IF kind = "bridge" /\ state = "runs" THEN {Len(kids) + 1} ELSE {}
<1> DEFINE forked == Append(kids, Child(kind, state))
<1>1. Child(kind, state) \in KidRecords
  BY DEF Child, KidRecords
<1>2. /\ forked \in Seq(KidRecords)
      /\ Len(forked) = Len(kids) + 1
      /\ \A n \in 1 .. Len(kids) : forked[n] = kids[n]
      /\ forked[Len(kids) + 1] = Child(kind, state)
  BY <1>1
<1>3. DOMAIN forked = 1 .. Len(kids) + 1 /\ DOMAIN kids = 1 .. Len(kids)
  BY <1>2
<1>4. Child(kind, state).kind = kind /\ Child(kind, state).state = state
  BY DEF Child
<1> HIDE DEF forked
<1> QED
  BY <1>2, <1>3, <1>4 DEF Loose, forked

\* The end of a child, its reaping and its being told to stop add none.
LEMMA ChangeKeeps ==
  ASSUME NEW kids \in Seq(KidRecords), NEW changed \in [DOMAIN kids -> KidRecords],
         \A n \in DOMAIN kids : changed[n] = kids[n] \/ changed[n].state # "runs" \/ changed[n].asked
  PROVE  changed \in Seq(KidRecords) /\ Loose(changed) \subseteq Loose(kids)
<1>1. DOMAIN kids = 1 .. Len(kids) /\ Len(kids) \in Nat
  OBVIOUS
<1>2. changed \in Seq(KidRecords)
  BY <1>1, IsASeq
<1> QED
  BY <1>2 DEF Loose

LEMMA EndKeeps ==
  ASSUME NEW kids \in Seq(KidRecords), NEW n, NEW state \in {"exited", "killed", "gone"}
  PROVE  LET ended == [kids EXCEPT ![n].state = state]
         IN ended \in Seq(KidRecords) /\ Loose(ended) \subseteq Loose(kids)
<1> DEFINE ended == [kids EXCEPT ![n].state = state]
<1>1. ASSUME NEW i \in DOMAIN kids
      PROVE  ended[i] \in KidRecords /\ (ended[i] = kids[i] \/ ended[i].state # "runs")
  <2>1. kids[i] \in KidRecords
    OBVIOUS
  <2> QED
    BY <2>1 DEF KidRecords
<1>2. ended \in [DOMAIN kids -> KidRecords]
  BY <1>1
<1> HIDE DEF ended
<1> QED
  BY <1>1, <1>2, ChangeKeeps DEF ended

\* What leaves the place in a start and the fields of homebridge alone, and adds no
\* homebridge, keeps the invariant.
LEMMA BridgeQuiet ==
  ASSUME BridgeInv, cpKids' \in Seq(KidRecords), Loose(cpKids') \subseteq Loose(cpKids),
         cpNew' = cpNew, cpAt' = cpAt, cpPid' = cpPid, cpFd' = cpFd, cpNested' = cpNested
  PROVE  BridgeInv'
  BY DEF BridgeInv

\* A start from inside the handler.
LEMMA HandlerKeeps ==
  ASSUME BridgeInv, NEW kids \in Seq(KidRecords), Loose(kids) \subseteq Loose(cpKids),
         RestartInHandler(kids), UNCHANGED <<cpAt, cpNew>>
  PROVE  BridgeInv'
<1>1. CASE ~(cpRestart /\ cpMayStart /\ NoneStarted)
  BY <1>1, BridgeQuiet DEF RestartInHandler
<1>2. CASE cpRestart /\ cpMayStart /\ NoneStarted
  <2> DEFINE n == Len(kids) + 1
  <2>1. PICK state \in {"runs", "never"} : cpKids' = Append(kids, Child("bridge", state))
    BY <1>2 DEF RestartInHandler
  <2>2. /\ cpFd = NoChild /\ cpFd' = n /\ cpPid' = PidOf(cpKids', n)
        /\ cpNested' = (cpNested \/ cpAt \in Starting)
    BY <1>2 DEF RestartInHandler, NoneStarted, Starting
  <2>3. /\ cpKids' \in Seq(KidRecords)
        /\ Loose(cpKids') \subseteq Loose(kids) \cup IF state = "runs" THEN {n} ELSE {}
    BY <2>1, ForkAdds
  <2>4. cpKids'[n].state = state
    BY <2>1 DEF Child
  <2>5. n # NoChild
    BY DEF NoChild
  <2>6. state = "runs" => cpPid' = n
    BY <2>2, <2>4 DEF PidOf
  <2>7. CASE cpNested'
    BY <2>3, <2>7 DEF BridgeInv
  <2>8. CASE ~cpNested'
    <3>1. ~cpNested /\ cpAt \notin Starting
      BY <2>2, <2>8
    <3>2. Loose(kids) = {}
      BY <3>1, <2>2 DEF BridgeInv
    <3>3. Loose(cpKids') \subseteq {cpPid'}
      BY <3>2, <2>3, <2>6
    <3> QED
      BY <3>1, <3>3, <2>2, <2>3, <2>5 DEF BridgeInv, Starting
  <2> QED
    BY <2>7, <2>8
<1> QED
  BY <1>1, <1>2

\* A fork by the dispatcher's thread.
LEMMA ForkKeeps ==
  ASSUME BridgeInv, NEW kind \in {"bridge", "script", "filter"}, Forks(kind)
  PROVE  /\ cpKids' \in Seq(KidRecords)
         /\ cpNew' \in Nat \ {NoChild}
         /\ Loose(cpKids') \subseteq Loose(cpKids) \cup IF kind = "bridge" THEN {cpNew'} ELSE {}
<1>1. PICK state \in {"runs", "never"} : cpKids' = Append(cpKids, Child(kind, state))
  BY DEF Forks
<1>2. cpNew' = Len(cpKids) + 1 /\ cpKids \in Seq(KidRecords)
  BY DEF Forks, BridgeInv
<1>3. cpNew' \in Nat \ {NoChild}
  BY <1>2 DEF NoChild
<1>4. /\ cpKids' \in Seq(KidRecords)
      /\ Loose(cpKids') \subseteq
           Loose(cpKids) \cup IF kind = "bridge" /\ state = "runs" THEN {Len(cpKids) + 1} ELSE {}
  BY <1>1, <1>2, ForkAdds
<1> QED
  BY <1>2, <1>3, <1>4

LEMMA BridgeStep == BridgeInv /\ [CpNext]_cpVars => BridgeInv'
<1> SUFFICES ASSUME BridgeInv, [CpNext]_cpVars PROVE BridgeInv'
  OBVIOUS
<1>k. cpKids \in Seq(KidRecords)
  BY DEF BridgeInv
<1>1. CASE Enable
  <2>1. cpAt = "idle" /\ cpAt \notin Starting /\ UNCHANGED <<cpPid, cpFd, cpNested>>
    BY <1>1 DEF Enable, BeginStart, At, Starting
  <2>2. CASE UNCHANGED <<cpKids, cpNew, cpAt>>
    BY <2>1, <2>2, BridgeQuiet, <1>k
  <2>3. CASE NoneStarted /\ Forks("bridge") /\ cpAt' = "forked"
    <3>1. /\ cpKids' \in Seq(KidRecords)
          /\ cpNew' \in Nat \ {NoChild}
          /\ Loose(cpKids') \subseteq Loose(cpKids) \cup {cpNew'}
      BY <2>3, ForkKeeps
    <3>2. ~cpNested => Loose(cpKids) = {}
      BY <2>1, <2>3 DEF BridgeInv, NoneStarted
    <3> QED
      BY <2>1, <2>3, <3>1, <3>2 DEF BridgeInv, Starting
  <2> QED
    BY <1>1, <2>2, <2>3 DEF Enable, BeginStart
<1>2. CASE EnableLater
  BY <1>2, <1>k, BridgeQuiet DEF EnableLater
<1>3. CASE StorePid
  <2>1. /\ cpAt = "forked" /\ cpAt' = "stored" /\ cpPid' = PidOf(cpKids, cpNew)
        /\ UNCHANGED <<cpKids, cpNew, cpFd, cpNested>>
    BY <1>3 DEF StorePid, At
  <2>2. ~cpNested => Loose(cpKids) \subseteq {cpNew}
    BY <2>1 DEF BridgeInv, Starting
  <2>3. cpNew \in Loose(cpKids) => cpPid' = cpNew
    BY <2>1 DEF Loose, PidOf
  <2>4. ~cpNested => Loose(cpKids) \subseteq {cpPid'}
    BY <2>2, <2>3
  <2> QED
    BY <2>1, <2>2, <2>4 DEF BridgeInv, Starting
<1>4. CASE SetHandler
  BY <1>4 DEF SetHandler, At, BridgeInv, Starting, bridgeVars
<1>5. CASE FinishStart
  BY <1>5 DEF FinishStart, At, BridgeInv, Starting
<1>6. CASE Disable
  <2>1. /\ cpAt = "idle" /\ UNCHANGED <<cpAt, cpNew, cpPid, cpNested>> /\ cpFd' = NoChild
        /\ cpKids' = [n \in DOMAIN cpKids |->
                        IF n = cpPid THEN [cpKids[n] EXCEPT !.asked = TRUE] ELSE cpKids[n]]
    BY <1>6 DEF Disable, At, Kids
  <2>2. ASSUME NEW n \in DOMAIN cpKids
        PROVE  /\ cpKids'[n] \in KidRecords
               /\ n # cpPid => cpKids'[n] = cpKids[n]
               /\ n = cpPid => cpKids'[n].asked
    <3>1. cpKids[n] \in KidRecords
      BY <1>k
    <3> QED
      BY <2>1, <3>1 DEF KidRecords
  <2>3. cpKids' \in [DOMAIN cpKids -> KidRecords]
    BY <2>1, <2>2
  <2>4. cpKids' \in Seq(KidRecords) /\ Loose(cpKids') \subseteq Loose(cpKids)
    BY <1>k, <2>2, <2>3, ChangeKeeps
  <2>5. cpPid \notin Loose(cpKids')
    BY <2>1, <2>2 DEF Loose
  <2>6. ~cpNested => Loose(cpKids') = {}
    BY <2>1, <2>4, <2>5 DEF BridgeInv
  <2> QED
    BY <2>1, <2>4, <2>6 DEF BridgeInv, Starting
<1>7. CASE \E fd \in cpPumped : ReadFails(fd)
  BY <1>7, <1>k, BridgeQuiet DEF ReadFails
<1>8. CASE BeginScript \/ BeginPipe
  <2>1. PICK kind \in {"script", "filter"} : Forks(kind)
    BY <1>8 DEF BeginScript, BeginPipe
  <2>2. /\ cpAt = "idle" /\ cpAt' \in {"script", "pipe"}
        /\ UNCHANGED <<cpPid, cpFd, cpNested>>
    BY <1>8 DEF BeginScript, BeginPipe, At, bridgeVars
  <2>3. /\ cpKids' \in Seq(KidRecords)
        /\ cpNew' \in Nat \ {NoChild}
        /\ Loose(cpKids') \subseteq Loose(cpKids)
    BY <2>1, ForkKeeps
  <2> QED
    BY <2>2, <2>3 DEF BridgeInv, Starting
<1>9. CASE FinishScript
  BY <1>9 DEF FinishScript, At, BridgeInv, Starting, bridgeVars
<1>10. CASE \E n \in Kids : ChildEnds(n)
  <2>1. PICK n \in Kids, state \in {"exited", "killed"} : cpKids' = [cpKids EXCEPT ![n].state = state]
    BY <1>10 DEF ChildEnds
  <2>2. UNCHANGED <<cpAt, cpNew, cpPid, cpFd, cpNested>>
    BY <1>10 DEF ChildEnds, bridgeVars
  <2> QED
    BY <1>k, <2>1, <2>2, EndKeeps, BridgeQuiet
<1>11. CASE BridgeSignal
  <2>1. UNCHANGED <<cpAt, cpNew>>
    BY <1>11 DEF BridgeSignal
  <2>2. Reaped(cpPid) \in Seq(KidRecords) /\ Loose(Reaped(cpPid)) \subseteq Loose(cpKids)
    BY <1>k, EndKeeps DEF Reaped
  <2>3. CASE RestartInHandler(Reaped(cpPid))
    BY <2>1, <2>2, <2>3, HandlerKeeps
  <2>4. CASE cpKids' \in {cpKids, Reaped(cpPid)} /\ UNCHANGED bridgeVars
    BY <1>k, <2>1, <2>2, <2>4, BridgeQuiet DEF bridgeVars
  <2> QED
    BY <1>11, <2>3, <2>4 DEF BridgeSignal
<1>12. CASE ScriptSignal \/ ScriptGoesOn \/ EndPipe
  <2>1. /\ UNCHANGED <<cpNew, cpPid, cpFd, cpNested>>
        /\ cpAt' = cpAt \/ (cpAt = "pipe" /\ cpAt' = "idle")
    BY <1>12 DEF ScriptSignal, ScriptGoesOn, EndPipe, bridgeVars, At
  <2>2. cpKids' = cpKids \/ \E n : cpKids' = Reaped(n)
    BY <1>12 DEF ScriptSignal, ScriptGoesOn, EndPipe, ScriptReaps
  <2>3. cpKids' \in Seq(KidRecords) /\ Loose(cpKids') \subseteq Loose(cpKids)
    BY <1>k, <2>2, EndKeeps DEF Reaped
  <2> QED
    BY <2>1, <2>3 DEF BridgeInv, Starting
<1>13. CASE UNCHANGED cpVars
  BY <1>13, <1>k, BridgeQuiet DEF cpVars, bridgeVars
<1> QED
  BY <1>1, <1>2, <1>3, <1>4, <1>5, <1>6, <1>7, <1>8, <1>9, <1>10, <1>11, <1>12, <1>13
     DEF CpNext

\* Every homebridge that runs is the one "no enable" will stop, or was told to stop, for
\* any number of children and any interleaving of signals, unless a start was begun inside
\* another (homebridge_manager.c).
THEOREM BridgeIsStoppable == CpSpec => []OneHomebridge
<1>1. BridgeInv => OneHomebridge
  BY DEF BridgeInv, OneHomebridge, Loose, Kids
<1> QED
  BY <1>1, BridgeInit, BridgeStep, PTL DEF CpSpec

-----------------------------------------------------------------------------
\* A listener is attached to all children from the first one it hears of, and has missed
\* nothing before that.
Listeners == [name : {"node", "command"}, added : BOOLEAN,
              watched : SUBSET HolderChildren, missed : {0, 1}]
Attached(l, children) == (l.added => children \subseteq l.watched) /\ (~l.added => l.missed = 0)

ListenerInv ==
  /\ zcListeners \in Seq(Listeners)
  /\ zcChildren \subseteq HolderChildren
  /\ ~zcHolder => zcListeners = << >>
  /\ \A i \in DOMAIN zcListeners : Attached(zcListeners[i], zcChildren)

LEMMA ListenerInit == ZcInit => ListenerInv
  BY DEF ZcInit, ListenerInv

\* What a change and a creation do to a listener.
LEMMA ListenerHears ==
  ASSUME NEW l \in Listeners, NEW children \in SUBSET HolderChildren, NEW child \in children,
         Attached(l, children)
  PROVE  LET heard == OnUpdated(ValueChanged(l, child), children)
         IN heard \in Listeners /\ Attached(heard, children)
<1> DEFINE valued == ValueChanged(l, child)
<1>1. MaxMissed \in Nat
  BY ListenersAssumption
<1>2. CASE l.added
  <2>1. valued = l
    BY <1>2 DEF ValueChanged, Attached
  <2> QED
    BY <1>2, <2>1 DEF OnUpdated
<1>3. CASE ~l.added
  <2>1. /\ valued \in Listeners
        /\ ~valued.added
    BY <1>1, <1>3 DEF ValueChanged, Attached, Listeners
  <2> HIDE DEF valued
  <2> QED
    BY <2>1 DEF OnUpdated, InstallCallback, Listeners, Attached, valued
<1> QED
  BY <1>2, <1>3

LEMMA ListenerTold ==
  ASSUME NEW l \in Listeners, NEW children \in SUBSET HolderChildren
  PROVE  OnCreated(l, children) \in Listeners /\ Attached(OnCreated(l, children), children)
  BY DEF OnCreated, InstallCallback, Listeners, Attached

LEMMA ListenerStep == ListenerInv /\ [ZcNext]_zcVars => ListenerInv'
<1> SUFFICES ASSUME ListenerInv, [ZcNext]_zcVars PROVE ListenerInv'
  OBVIOUS
<1> USE DEF ListenerInv
<1>1. CASE DeviceAdded
  BY <1>1 DEF DeviceAdded
<1>2. CASE HolderCreated
  BY <1>2 DEF HolderCreated
<1>3. CASE CommandAdded
  <2> DEFINE new == [name |-> IF zcNames = {"node", "command"} THEN "node" ELSE "command",
                     added |-> FALSE, watched |-> {}, missed |-> 0]
  <2>1. new \in Listeners /\ Attached(new, zcChildren)
    BY DEF Listeners, Attached
  <2>2. /\ zcListeners' = Append(zcListeners, new)
        /\ zcHolder' = zcHolder /\ zcChildren' = zcChildren /\ zcHolder
    BY <1>3 DEF CommandAdded
  <2> HIDE DEF new
  <2>3. zcListeners' \in Seq(Listeners)
    BY <2>1, <2>2
  <2>4. ASSUME NEW i \in DOMAIN zcListeners' PROVE Attached(zcListeners'[i], zcChildren)
    <3>1. zcListeners'[i] = IF i = Len(zcListeners) + 1 THEN new ELSE zcListeners[i]
      BY <2>1, <2>2, <2>4
    <3>2. i # Len(zcListeners) + 1 => i \in DOMAIN zcListeners
      BY <2>1, <2>2, <2>4
    <3> QED
      BY <2>1, <3>1, <3>2
  <2> QED
    BY <2>2, <2>3, <2>4
<1>4. CASE CommandRemoved
  BY <1>4 DEF CommandRemoved
<1>5. CASE Renamed
  BY <1>5 DEF Renamed
<1>6. ASSUME NEW child \in HolderChildren, ChildCreated(child) PROVE ListenerInv'
  <2>1. /\ zcChildren' = zcChildren \cup {child} /\ zcHolder' = zcHolder
        /\ zcListeners' = [i \in DOMAIN zcListeners |-> OnCreated(zcListeners[i], zcChildren')]
        /\ zcHolder
    BY <1>6 DEF ChildCreated
  <2>2. \A i \in DOMAIN zcListeners :
          zcListeners'[i] \in Listeners /\ Attached(zcListeners'[i], zcChildren')
    BY <2>1, ListenerTold
  <2>3. DOMAIN zcListeners' = 1 .. Len(zcListeners) /\ DOMAIN zcListeners = 1 .. Len(zcListeners)
    BY <2>1
  <2>4. zcListeners' \in [1 .. Len(zcListeners) -> Listeners]
    BY <2>1, <2>2, <2>3
  <2>5. zcListeners' \in Seq(Listeners)
    BY <2>4
  <2> QED
    BY <2>1, <2>2, <2>3, <2>5
<1>7. ASSUME NEW child \in HolderChildren, ChildUpdated(child) PROVE ListenerInv'
  <2>1. /\ zcChildren' = zcChildren /\ zcHolder' = zcHolder /\ child \in zcChildren /\ zcHolder
        /\ zcListeners' = [i \in DOMAIN zcListeners |->
             OnUpdated(ValueChanged(zcListeners[i], child), zcChildren)]
    BY <1>7 DEF ChildUpdated
  <2>2. \A i \in DOMAIN zcListeners :
          zcListeners'[i] \in Listeners /\ Attached(zcListeners'[i], zcChildren)
    BY <2>1, ListenerHears
  <2>3. DOMAIN zcListeners' = 1 .. Len(zcListeners) /\ DOMAIN zcListeners = 1 .. Len(zcListeners)
    BY <2>1
  <2>4. zcListeners' \in [1 .. Len(zcListeners) -> Listeners]
    BY <2>1, <2>2, <2>3
  <2>5. zcListeners' \in Seq(Listeners)
    BY <2>4
  <2> QED
    BY <2>1, <2>2, <2>3, <2>5
<1>8. CASE UNCHANGED zcVars
  BY <1>8 DEF zcVars
<1> QED
  BY <1>1, <1>2, <1>3, <1>4, <1>5, <1>6, <1>7, <1>8 DEF ZcNext

\* However the command classes and children of a device come and go, a listener misses at
\* most the change by which it hears of them (data_callbacks.c).
THEOREM MissesAtMostTheFirst == ZcSpec => []MissesAtMostOne
<1>1. ASSUME ListenerInv PROVE MissesAtMostOne
  <2> SUFFICES ASSUME NEW i \in DOMAIN zcListeners
               PROVE  /\ zcListeners[i].missed <= 1
                      /\ zcListeners[i].added => zcChildren \subseteq zcListeners[i].watched
    BY DEF MissesAtMostOne
  <2>1. zcListeners[i] \in Listeners
    BY <1>1 DEF ListenerInv
  <2>2. zcListeners[i].missed \in {0, 1}
    BY <2>1 DEF Listeners
  <2> QED
    BY <1>1, <2>2 DEF ListenerInv, Attached
<1> QED
  BY <1>1, ListenerInit, ListenerStep, PTL DEF ZcSpec

-----------------------------------------------------------------------------
\* While a method waits alone, only its own request can be answered, and what is posted
\* or found is its answer.
Waits == [id : Nat, device : ZWaveDevices, found : BOOLEAN, alone : BOOLEAN]
Answered(w) == ccHeld[w.device] = w.id \/ w.id \in ccFailed
Own(w) ==
  /\ Len(ccWaits) = 1
  /\ ccPending \subseteq {[id |-> w.id, device |-> w.device]}
  /\ ccReady > 0 \/ w.found => Answered(w)

AnswerInv ==
  /\ ccCount \in Nat /\ ccReady \in Nat
  /\ ccHeld \in [ZWaveDevices -> Nat]
  /\ ccPending \subseteq [id : Nat, device : ZWaveDevices]
  /\ ccWaits \in Seq(Waits)
  /\ \A i \in DOMAIN ccWaits : ccWaits[i].alone => Own(ccWaits[i])
  /\ LoneAnswerFresh

LEMMA AnswerInit == CcInit => AnswerInv
  BY DEF CcInit, AnswerInv, LoneAnswerFresh, NoResult

LEMMA AnswerStep == AnswerInv /\ [CcNext]_ccVars => AnswerInv'
<1> SUFFICES ASSUME AnswerInv, [CcNext]_ccVars PROVE AnswerInv'
  OBVIOUS
<1> USE DEF AnswerInv
<1>1. ASSUME NEW method \in Called, NEW device \in ZWaveDevices, ReadHeld(method, device)
      PROVE  AnswerInv'
  BY <1>1 DEF ReadHeld, NoResult, LoneAnswerFresh, Own, Answered
<1>2. ASSUME NEW method \in Called, Send(method) PROVE AnswerInv'
  BY <1>2 DEF Send, NoResult, LoneAnswerFresh, Own, Answered
<1>3. ASSUME NEW method \in Called, NEW device \in ZWaveDevices, Ask(method, device)
      PROVE  AnswerInv'
  <2> DEFINE before == [w \in DOMAIN ccWaits |-> [ccWaits[w] EXCEPT !.alone = FALSE]]
             new == [id |-> ccCount', device |-> device, found |-> FALSE,
                     alone |-> ccWaits = << >> /\ ccPending = {} /\ ccReady = 0]
  <2>1. /\ ccWaits' = Append(before, new) /\ ccCount' = ccCount + 1
        /\ ccPending' = ccPending \cup {[id |-> ccCount', device |-> device]}
        /\ UNCHANGED <<ccHeld, ccReady, ccFailed, ccResult>>
    BY <1>3 DEF Ask
  <2>2. DOMAIN ccWaits = 1 .. Len(ccWaits) /\ Len(ccWaits) \in Nat
    OBVIOUS
  <2>3. \A w \in DOMAIN ccWaits : before[w] \in Waits /\ ~before[w].alone
    <3> SUFFICES ASSUME NEW w \in DOMAIN ccWaits
                 PROVE  before[w] \in Waits /\ ~before[w].alone
      OBVIOUS
    <3>1. ccWaits[w] \in Waits
      OBVIOUS
    <3> QED
      BY <3>1 DEF Waits
  <2>4. before \in Seq(Waits) /\ Len(before) = Len(ccWaits)
    <3>1. before \in [1 .. Len(ccWaits) -> Waits]
      BY <2>2, <2>3
    <3> HIDE DEF before
    <3> QED
      BY <2>2, <3>1
  <2>5. new \in Waits
    BY <2>1 DEF Waits
  <2>6. new.alone => ccWaits = << >> /\ ccPending = {} /\ ccReady = 0
    OBVIOUS
  <2>7. new.id = ccCount' /\ new.device = device /\ new.found = FALSE
    OBVIOUS
  <2> HIDE DEF before, new
  <2>8. ccWaits' \in Seq(Waits) /\ Len(ccWaits') = Len(ccWaits) + 1
    BY <2>1, <2>4, <2>5
  <2>9. ASSUME NEW i \in DOMAIN ccWaits', ccWaits'[i].alone PROVE Own(ccWaits[i])'
    <3>1. i = Len(ccWaits) + 1
      BY <2>1, <2>2, <2>3, <2>4, <2>5, <2>9
    <3>2. ccWaits'[i] = new
      BY <2>1, <2>4, <2>5, <3>1
    <3>3. ccWaits = << >> /\ ccPending = {} /\ ccReady = 0
      BY <2>6, <2>9, <3>2
    <3>4. Len(ccWaits') = 1
      BY <2>8, <3>3
    <3> QED
      BY <2>1, <2>7, <3>2, <3>3, <3>4 DEF Own
  <2> QED
    BY <2>1, <2>8, <2>9 DEF LoneAnswerFresh
<1>4. ASSUME NEW r \in ccPending, Succeeds(r) \/ Fails(r) \/ Ignored(r) PROVE AnswerInv'
  <2>1. r \in [id : Nat, device : ZWaveDevices]
    OBVIOUS
  <2>2. /\ ccPending' = ccPending \ {r} /\ ccReady' \in Nat
        /\ UNCHANGED <<ccWaits, ccCount, ccResult>>
        /\ ccHeld' \in [ZWaveDevices -> Nat] /\ ccFailed \subseteq ccFailed'
    BY <1>4, <2>1 DEF Succeeds, Fails, Ignored
  <2>3. Ignored(r) \/ ccHeld'[r.device] = r.id \/ r.id \in ccFailed'
    BY <1>4, <2>1 DEF Succeeds, Fails
  <2>4. Ignored(r) => UNCHANGED <<ccHeld, ccReady, ccFailed>>
    BY DEF Ignored
  <2>5. ASSUME NEW i \in DOMAIN ccWaits, ccWaits[i].alone PROVE Own(ccWaits[i])'
    <3>1. Own(ccWaits[i])
      BY <2>5
    <3>2. r = [id |-> ccWaits[i].id, device |-> ccWaits[i].device]
      BY <3>1 DEF Own
    <3>3. r.id = ccWaits[i].id /\ r.device = ccWaits[i].device
      BY <3>2
    <3> QED
      BY <2>2, <2>3, <2>4, <3>1, <3>3 DEF Own, Answered
  <2> QED
    BY <2>2, <2>5 DEF LoneAnswerFresh
<1>5. CASE TakeReady
  <2> DEFINE after == [w \in DOMAIN ccWaits |-> [ccWaits[w] EXCEPT !.found = TRUE]]
  <2>1. /\ ccWaits' = after /\ ccReady > 0 /\ ccReady' = ccReady - 1
        /\ UNCHANGED <<ccHeld, ccPending, ccCount, ccFailed, ccResult>>
    BY <1>5 DEF TakeReady
  <2>2. DOMAIN ccWaits = 1 .. Len(ccWaits) /\ Len(ccWaits) \in Nat
    OBVIOUS
  <2>3. ASSUME NEW w \in DOMAIN ccWaits
        PROVE  /\ after[w] \in Waits
               /\ after[w].id = ccWaits[w].id /\ after[w].device = ccWaits[w].device
               /\ after[w].alone = ccWaits[w].alone
    <3>1. ccWaits[w] \in Waits
      OBVIOUS
    <3> QED
      BY <3>1 DEF Waits
  <2>4. after \in [1 .. Len(ccWaits) -> Waits]
    BY <2>2, <2>3
  <2>5. DOMAIN after = DOMAIN ccWaits
    OBVIOUS
  <2> HIDE DEF after
  <2>6. after \in Seq(Waits) /\ Len(after) = Len(ccWaits)
    BY <2>2, <2>4
  <2>7. ASSUME NEW i \in DOMAIN ccWaits', ccWaits'[i].alone PROVE Own(ccWaits[i])'
    <3>1. i \in DOMAIN ccWaits /\ ccWaits[i].alone
      BY <2>1, <2>3, <2>5, <2>7
    <3>2. Own(ccWaits[i])
      BY <3>1
    <3> QED
      BY <2>1, <2>3, <2>6, <3>1, <3>2 DEF Own, Answered
  <2> QED
    BY <2>1, <2>6, <2>7 DEF LoneAnswerFresh
<1>6. CASE WaitOver
  <2> DEFINE last == ccWaits[Len(ccWaits)]
  <2>1. /\ ccWaits # << >> /\ ccWaits' = SubSeq(ccWaits, 1, Len(ccWaits) - 1)
        /\ ccResult' = [id |-> last.id, value |-> ccHeld[last.device],
                        found |-> last.found, alone |-> last.alone]
        /\ UNCHANGED <<ccHeld, ccPending, ccReady, ccCount, ccFailed>>
    BY <1>6 DEF WaitOver, Held
  <2>2. Len(ccWaits) \in Nat \ {0} /\ Len(ccWaits) \in DOMAIN ccWaits
    BY <2>1
  <2>3. /\ ccWaits' \in Seq(Waits) /\ Len(ccWaits') = Len(ccWaits) - 1
        /\ \A i \in DOMAIN ccWaits' : i \in DOMAIN ccWaits /\ ccWaits'[i] = ccWaits[i]
    <3>1. ccWaits \in Seq(Waits)
      OBVIOUS
    <3> DEFINE n == Len(ccWaits) - 1
    <3>2. n \in Int /\ 1 \in Int /\ \A i \in 1 .. n : i \in DOMAIN ccWaits /\ ccWaits[i] \in Waits
      BY <2>2, <3>1
    <3>3. /\ SubSeq(ccWaits, 1, n) \in Seq(Waits)
          /\ Len(SubSeq(ccWaits, 1, n)) = IF 1 <= n THEN n - 1 + 1 ELSE 0
          /\ \A i \in 1 .. n - 1 + 1 : SubSeq(ccWaits, 1, n)[i] = ccWaits[1 + i - 1]
      BY <3>2, SubSeqProperties
    <3>4. (IF 1 <= n THEN n - 1 + 1 ELSE 0) = n /\ n - 1 + 1 = n
      <4>1. n \in Nat
        BY <2>2
      <4> HIDE DEF n
      <4> QED
        BY <4>1
    <3>5. \A i \in 1 .. n : 1 + i - 1 = i
      BY <3>2
    <3>6. ccWaits' = SubSeq(ccWaits, 1, n)
      BY <2>1
    <3> HIDE DEF n
    <3>7. Len(ccWaits') = n
      BY <3>3, <3>4, <3>6, Zenon
    <3>8. \A i \in 1 .. n : ccWaits'[i] = ccWaits[i]
      BY <3>3, <3>4, <3>5, <3>6, Zenon
    <3>9. DOMAIN ccWaits' = 1 .. n
      BY <3>3, <3>6, <3>7
    <3> QED
      BY <3>2, <3>3, <3>6, <3>7, <3>8, <3>9 DEF n
  <2>4. ASSUME NEW i \in DOMAIN ccWaits', ccWaits'[i].alone PROVE FALSE
    <3>1. Own(ccWaits[i])
      BY <2>3, <2>4
    <3>2. Len(ccWaits') = 0
      BY <2>3, <3>1 DEF Own
    <3> QED
      BY <2>3, <2>4, <3>2
  <2>5. LoneAnswerFresh'
    <3> SUFFICES ASSUME last.found, last.alone
                 PROVE  ccHeld[last.device] = last.id \/ last.id \in ccFailed
      BY <2>1 DEF LoneAnswerFresh
    <3>1. Own(last)
      BY <2>2
    <3> QED
      BY <3>1 DEF Own, Answered
  <2> QED
    BY <2>1, <2>3, <2>4, <2>5
<1>7. CASE UNCHANGED ccVars
  BY <1>7 DEF ccVars, LoneAnswerFresh, Own, Answered
<1> QED
  BY <1>1, <1>2, <1>3, <1>4, <1>5, <1>6, <1>7 DEF CcNext, Exec

\* A method whose wait ended with an event, and that shared it with no other request,
\* returns the device's answer, for any number of devices and requests (command_class.c).
THEOREM LoneAnswerIsFresh == CcSpec => []LoneAnswerFresh
<1>1. AnswerInv => LoneAnswerFresh
  BY DEF AnswerInv
<1> QED
  BY <1>1, AnswerInit, AnswerStep, PTL DEF CcSpec
-----------------------------------------------------------------------------
\* The devices that are configured by name and instance, and their names.
DeviceEntries == [serial : Nat, name : DeviceNames, instance : DeviceInstances,
                  on : BOOLEAN, timed : BOOLEAN]
DeviceIds == [node : Classes \cup {"SecuritySystem"}, instance : DeviceInstances \cup {0},
              command : Commands]
MotionTimers == [serial : Nat, instance : DeviceInstances, runs : BOOLEAN]

DeviceTypes ==
  /\ devEntries \in [Classes -> Seq(DeviceEntries)]
  /\ devTimers \in Seq(MotionTimers)
  /\ devAdded \in Nat

\* Names have entries behind them.
Behind(entries, n, id) ==
  \/ n \in UserNames \/ id.node = "SecuritySystem"
  \/ id.node = "Sensor" /\ id.command = "model"
  \/ \E i \in DOMAIN entries[id.node] :
       LET entry == entries[id.node][i]
       IN n = Name(entry.name, entry.instance, id.node, id.command)

NamesSound ==
  /\ \A n \in DOMAIN devNames : devNames[n] \in DeviceIds /\ Behind(devEntries, n, devNames[n])
  /\ \A m, n \in DOMAIN devNames : devNames[m] = devNames[n] => m = n

\* Serial numbers tell all entries apart, and a timer belongs to a camera, if that still
\* exists.
SerialsApart ==
  \A c, d \in Classes : \A i \in DOMAIN devEntries[c], j \in DOMAIN devEntries[d] :
    /\ devEntries[c][i].serial <= devAdded
    /\ devEntries[c][i].serial = devEntries[d][j].serial => c = d /\ i = j

TimersOfCameras ==
  \A k \in DOMAIN devTimers :
    /\ devTimers[k].serial <= devAdded
    /\ \A c \in Classes : \A i \in DOMAIN devEntries[c] :
         devEntries[c][i].serial = devTimers[k].serial =>
           c = "BlinkCamera" /\ devEntries[c][i].instance = devTimers[k].instance

\* Of the cameras with one instance, which reports and timeouts do not tell apart, only
\* the first one is ever on.
Cameras == devEntries["BlinkCamera"]
FirstIsOn ==
  \A i, j \in DOMAIN Cameras : i < j /\ Cameras[j].on => Cameras[i].instance # Cameras[j].instance

DeviceInv == DeviceTypes /\ NamesSound /\ SerialsApart /\ TimersOfCameras /\ FirstIsOn /\ MotionEnds

LEMMA EntriesTyped ==
  ASSUME DeviceTypes, NEW c \in Classes
  PROVE  /\ devEntries[c] \in Seq(DeviceEntries)
         /\ Len(devEntries[c]) \in Nat /\ DOMAIN devEntries[c] = 1 .. Len(devEntries[c])
         /\ \A i \in DOMAIN devEntries[c] :
              /\ devEntries[c][i] \in DeviceEntries
              /\ devEntries[c][i].serial \in Nat /\ devEntries[c][i].name \in DeviceNames
              /\ devEntries[c][i].instance \in DeviceInstances
              /\ devEntries[c][i].on \in BOOLEAN /\ devEntries[c][i].timed \in BOOLEAN
<1>1. devEntries[c] \in Seq(DeviceEntries)
  BY DEF DeviceTypes
<1>2. /\ Len(devEntries[c]) \in Nat /\ DOMAIN devEntries[c] = 1 .. Len(devEntries[c])
      /\ \A i \in DOMAIN devEntries[c] : devEntries[c][i] \in DeviceEntries
  BY <1>1, LenProperties
<1> QED
  BY <1>1, <1>2 DEF DeviceEntries

LEMMA TimersTyped ==
  ASSUME DeviceTypes
  PROVE  /\ Len(devTimers) \in Nat /\ DOMAIN devTimers = 1 .. Len(devTimers)
         /\ \A k \in DOMAIN devTimers :
              /\ devTimers[k] \in MotionTimers /\ devTimers[k].serial \in Nat
              /\ devTimers[k].instance \in DeviceInstances /\ devTimers[k].runs \in BOOLEAN
<1>1. /\ Len(devTimers) \in Nat /\ DOMAIN devTimers = 1 .. Len(devTimers)
      /\ \A k \in DOMAIN devTimers : devTimers[k] \in MotionTimers
  BY LenProperties DEF DeviceTypes
<1> QED
  BY <1>1 DEF MotionTimers

\* The first of the elements at hits.
LEMMA FirstOfHits ==
  ASSUME NEW S, NEW s \in Seq(S), NEW hits \in SUBSET DOMAIN s, hits # {}
  PROVE  /\ Min(hits) \in hits /\ \A i \in hits : Min(hits) <= i
         /\ FirstOf(s, hits) = {s[Min(hits)]}
<1>1. hits \in SUBSET Nat
  BY LenProperties
<1> QED
  BY <1>1, LeastNat DEF FirstOf

LEMMA AllLeft ==
  ASSUME NEW S, NEW s \in Seq(S) PROVE IsLeft(s, s, DOMAIN s)
<1> DEFINE f == [i \in DOMAIN s |-> i]
<1>1. f \in [DOMAIN s -> DOMAIN s] /\ \A i \in DOMAIN s : f[i] = i
  OBVIOUS
<1> HIDE DEF f
<1> QED
  BY <1>1 DEF IsLeft

\* resolver_add_entry.
LEMMA NameAdded ==
  ASSUME NEW table, NEW name, NEW id
  PROVE  /\ \A n \in DOMAIN AddName(table, name, id) :
              \/ n = name /\ AddName(table, name, id)[n] = id
              \/ /\ n \in DOMAIN table /\ table[n] # id
                 /\ AddName(table, name, id)[n] = table[n]
         /\ (\A m, n \in DOMAIN table : table[m] = table[n] => m = n) =>
              \A m, n \in DOMAIN AddName(table, name, id) :
                AddName(table, name, id)[m] = AddName(table, name, id)[n] => m = n
<1> DEFINE others == {n \in DOMAIN table \ {name} : table[n] # id}
           added == AddName(table, name, id)
<1>1. added = [n \in others \cup {name} |-> IF n = name THEN id ELSE table[n]]
  BY DEF AddName
<1>2. /\ DOMAIN added = others \cup {name}
      /\ \A n \in DOMAIN added : added[n] = IF n = name THEN id ELSE table[n]
  BY <1>1
<1> HIDE DEF added
<1>3. \A n \in DOMAIN added : \/ n = name /\ added[n] = id
                              \/ n \in DOMAIN table /\ table[n] # id /\ added[n] = table[n]
  BY <1>2
<1>4. ASSUME \A m, n \in DOMAIN table : table[m] = table[n] => m = n,
             NEW m \in DOMAIN added, NEW n \in DOMAIN added, added[m] = added[n]
      PROVE  m = n
  BY <1>3, <1>4
<1> QED
  BY <1>3, <1>4 DEF added

\* Entries whose state alone has changed.
StatesChanged ==
  /\ devEntries' \in [Classes -> Seq(DeviceEntries)]
  /\ \A c \in Classes : /\ DOMAIN devEntries'[c] = DOMAIN devEntries[c]
                        /\ \A i \in DOMAIN devEntries[c] :
                             /\ devEntries'[c][i].serial = devEntries[c][i].serial
                             /\ devEntries'[c][i].name = devEntries[c][i].name
                             /\ devEntries'[c][i].instance = devEntries[c][i].instance

LEMMA StatesKeep ==
  ASSUME DeviceInv, StatesChanged
  PROVE  /\ devNames' = devNames => NamesSound'
         /\ devAdded' = devAdded => SerialsApart'
         /\ \A serial : Alive(serial)' <=> Alive(serial)
<1> USE DEF StatesChanged
<1>1. ASSUME devNames' = devNames PROVE NamesSound'
  <2>1. ASSUME NEW n \in DOMAIN devNames PROVE Behind(devEntries', n, devNames[n])
    <3>1. Behind(devEntries, n, devNames[n]) /\ devNames[n] \in DeviceIds
      BY DEF DeviceInv, NamesSound
    <3> DEFINE id == devNames[n]
    <3>2. CASE id.node \in Classes
      BY <1>1, <3>1, <3>2 DEF Behind
    <3>3. CASE id.node = "SecuritySystem"
      BY <1>1, <3>3 DEF Behind
    <3> QED
      BY <3>1, <3>2, <3>3 DEF DeviceIds
  <2> QED
    BY <1>1, <2>1 DEF DeviceInv, NamesSound
<1>2. ASSUME devAdded' = devAdded PROVE SerialsApart'
  BY <1>2 DEF DeviceInv, SerialsApart
<1>3. \A serial : Alive(serial)' <=> Alive(serial)
  BY DEF Alive
<1> QED
  BY <1>1, <1>2, <1>3

LEMMA DeviceInitInv == DeviceInit => DeviceInv
<1> SUFFICES ASSUME DeviceInit PROVE DeviceInv
  OBVIOUS
<1>1. /\ devEntries = [class \in Classes |-> << >>] /\ devTimers = << >> /\ devAdded = 0
      /\ devNames = [n \in {Name("SecuritySystem", 0, "SecuritySystem", c) : c \in Commands} |->
                       Id("SecuritySystem", 0, IF n[3] = "model" THEN "model" ELSE "level")]
  BY DEF DeviceInit
<1>2. \A c \in Classes : devEntries[c] = << >> /\ DOMAIN devEntries[c] = {}
  BY <1>1
<1>3. DeviceTypes
  <2>1. << >> \in Seq(DeviceEntries) /\ << >> \in Seq(MotionTimers)
    OBVIOUS
  <2> QED
    BY <1>1, <2>1 DEF DeviceTypes
<1>4. NamesSound
  <2>1. ASSUME NEW n \in DOMAIN devNames
        PROVE  /\ devNames[n] \in DeviceIds /\ devNames[n].node = "SecuritySystem"
               /\ n = Name("SecuritySystem", 0, "SecuritySystem", devNames[n].command)
    <3>1. PICK c \in Commands : n = Name("SecuritySystem", 0, "SecuritySystem", c)
      BY <1>1
    <3>2. devNames[n] = Id("SecuritySystem", 0, IF n[3] = "model" THEN "model" ELSE "level")
      BY <1>1
    <3>3. IF c = "model" THEN n[3] = "model" ELSE n[3] = "SecuritySystem" /\ c = "level"
      BY <3>1 DEF Name, Commands
    <3>4. devNames[n] = Id("SecuritySystem", 0, c)
      BY <3>2, <3>3
    <3> QED
      BY <3>1, <3>4 DEF Id, DeviceIds, Commands
  <2>2. \A m, n \in DOMAIN devNames : devNames[m] = devNames[n] => m = n
    BY <2>1
  <2> QED
    BY <2>1, <2>2 DEF NamesSound, Behind
<1>5. "BlinkCamera" \in Classes
  BY DEF Classes
<1>6. SerialsApart /\ FirstIsOn /\ MotionEnds
  BY <1>2, <1>5 DEF SerialsApart, FirstIsOn, Cameras, MotionEnds
<1>7. TimersOfCameras
  BY <1>1 DEF TimersOfCameras
<1> QED
  BY <1>3, <1>4, <1>6, <1>7 DEF DeviceInv

\* "instance INT name WORD": the new entry is the last of its class.
LEMMA AddKeepsDevices ==
  ASSUME DeviceInv, NEW class \in Classes, NEW instance \in DeviceInstances,
         NEW name \in DeviceNames, AddDevice(class, name, instance)
  PROVE  DeviceInv'
<1> DEFINE new == [serial |-> devAdded', name |-> name, instance |-> instance,
                   on |-> FALSE, timed |-> TRUE]
           old == devEntries[class]
           level == Name(name, instance, class, "level")
           model == Name(name, instance, class, "model")
<1>1. /\ devAdded' = devAdded + 1 /\ devAdded \in Nat /\ devTimers' = devTimers
      /\ devEntries' = [devEntries EXCEPT ![class] = Append(old, new)]
  BY DEF AddDevice, DeviceInv, DeviceTypes
<1>2. new \in DeviceEntries
  BY <1>1 DEF DeviceEntries
<1>3. /\ Append(old, new) \in Seq(DeviceEntries)
      /\ DOMAIN Append(old, new) = DOMAIN old \cup {Len(old) + 1}
      /\ \A i \in DOMAIN old : Append(old, new)[i] = old[i] /\ i < Len(old) + 1
      /\ Append(old, new)[Len(old) + 1] = new /\ Len(old) \in Nat
  <2>1. old \in Seq(DeviceEntries) /\ Len(old) \in Nat /\ DOMAIN old = 1 .. Len(old)
    BY EntriesTyped DEF DeviceInv
  <2>2. /\ Append(old, new) \in Seq(DeviceEntries) /\ Len(Append(old, new)) = Len(old) + 1
        /\ \A i \in 1 .. Len(old) : Append(old, new)[i] = old[i]
        /\ Append(old, new)[Len(old) + 1] = new
    BY <1>2, <2>1, AppendProperties
  <2>3. DOMAIN Append(old, new) = 1 .. Len(old) + 1
    BY <2>2, LenProperties
  <2> QED
    BY <2>1, <2>2, <2>3
<1>4. DeviceTypes'
  BY <1>1, <1>3 DEF DeviceInv, DeviceTypes
<1> HIDE DEF new
<1>5. \A c \in Classes : \A i \in DOMAIN devEntries'[c] :
        \/ i \in DOMAIN devEntries[c] /\ devEntries'[c][i] = devEntries[c][i]
        \/ c = class /\ i = Len(old) + 1 /\ devEntries'[c][i] = new
  BY <1>1, <1>3 DEF DeviceInv, DeviceTypes
<1>6. \A c \in Classes : \A i \in DOMAIN devEntries[c] :
        i \in DOMAIN devEntries'[c] /\ devEntries'[c][i] = devEntries[c][i]
  BY <1>1, <1>3 DEF DeviceInv, DeviceTypes
<1>7. Len(old) + 1 \in DOMAIN devEntries'[class] /\ devEntries'[class][Len(old) + 1] = new
  BY <1>1, <1>3 DEF DeviceInv, DeviceTypes
<1>8. new.serial = devAdded + 1 /\ new.name = name /\ new.instance = instance /\ ~new.on
  BY <1>1 DEF new
<1>9. NamesSound'
  <2> DEFINE named == AddName(devNames, level, Id(class, instance, "level"))
  <2>1. devNames' = AddName(named, model, Id(class, instance, "model"))
    BY DEF AddDevice
  <2>2. /\ \A n \in DOMAIN named :
             \/ n = level /\ named[n] = Id(class, instance, "level")
             \/ n \in DOMAIN devNames /\ named[n] = devNames[n]
        /\ \A m, n \in DOMAIN named : named[m] = named[n] => m = n
    BY NameAdded DEF DeviceInv, NamesSound
  <2> HIDE DEF named
  <2>3. /\ \A n \in DOMAIN devNames' :
             \/ n = model /\ devNames'[n] = Id(class, instance, "model")
             \/ n \in DOMAIN named /\ devNames'[n] = named[n]
        /\ \A m, n \in DOMAIN devNames' : devNames'[m] = devNames'[n] => m = n
    BY <2>1, <2>2, NameAdded
  <2>4. ASSUME NEW command \in Commands
        PROVE  /\ Id(class, instance, command) \in DeviceIds
               /\ Behind(devEntries', Name(name, instance, class, command), Id(class, instance, command))
    <3>1. /\ Id(class, instance, command).node = class
          /\ Id(class, instance, command).command = command
          /\ Id(class, instance, command) \in DeviceIds
      BY DEF Id, DeviceIds
    <3> QED
      BY <1>7, <1>8, <3>1 DEF Behind
  <2>5. ASSUME NEW n \in DOMAIN devNames
        PROVE  devNames[n] \in DeviceIds /\ Behind(devEntries', n, devNames[n])
    <3>1. Behind(devEntries, n, devNames[n]) /\ devNames[n] \in DeviceIds
      BY DEF DeviceInv, NamesSound
    <3>2. devNames[n].node \in Classes \cup {"SecuritySystem"}
      BY <3>1 DEF DeviceIds
    <3>3. CASE \E i \in DOMAIN devEntries[devNames[n].node] :
                 n = Name(devEntries[devNames[n].node][i].name,
                          devEntries[devNames[n].node][i].instance,
                          devNames[n].node, devNames[n].command)
               /\ devNames[n].node \in Classes
      BY <1>6, <3>1, <3>3 DEF Behind
    <3> QED
      BY <3>1, <3>2, <3>3 DEF Behind
  <2>6. "level" \in Commands /\ "model" \in Commands
    BY DEF Commands
  <2>7. ASSUME NEW n \in DOMAIN devNames'
        PROVE  devNames'[n] \in DeviceIds /\ Behind(devEntries', n, devNames'[n])
    <3>1. CASE n = model /\ devNames'[n] = Id(class, instance, "model")
      BY <2>4, <2>6, <3>1
    <3>2. CASE n = level /\ devNames'[n] = Id(class, instance, "level")
      BY <2>4, <2>6, <3>2
    <3>3. CASE n \in DOMAIN devNames /\ devNames'[n] = devNames[n]
      BY <2>5, <3>3
    <3> QED
      BY <2>2, <2>3, <2>7, <3>1, <3>2, <3>3
  <2> QED
    BY <2>3, <2>7 DEF NamesSound, Behind
<1>10. \A c \in Classes : \A i \in DOMAIN devEntries[c] :
         devEntries[c][i].serial <= devAdded /\ devEntries[c][i].serial \in Nat
  BY EntriesTyped DEF DeviceInv, SerialsApart
<1>11. SerialsApart'
  <2> SUFFICES ASSUME NEW c \in Classes, NEW d \in Classes,
                      NEW i \in DOMAIN devEntries'[c], NEW j \in DOMAIN devEntries'[d]
               PROVE  /\ devEntries'[c][i].serial <= devAdded'
                      /\ devEntries'[c][i].serial = devEntries'[d][j].serial => c = d /\ i = j
    BY DEF SerialsApart
  <2>1. devEntries'[c][i].serial <= devAdded'
    BY <1>1, <1>5, <1>8, <1>10
  <2>2. CASE /\ i \in DOMAIN devEntries[c] /\ devEntries'[c][i] = devEntries[c][i]
             /\ j \in DOMAIN devEntries[d] /\ devEntries'[d][j] = devEntries[d][j]
    BY <2>1, <2>2 DEF DeviceInv, SerialsApart
  <2>3. CASE /\ i \in DOMAIN devEntries[c] /\ devEntries'[c][i] = devEntries[c][i]
             /\ d = class /\ j = Len(old) + 1 /\ devEntries'[d][j] = new
    BY <1>1, <1>8, <1>10, <2>1, <2>3
  <2>4. CASE /\ j \in DOMAIN devEntries[d] /\ devEntries'[d][j] = devEntries[d][j]
             /\ c = class /\ i = Len(old) + 1 /\ devEntries'[c][i] = new
    BY <1>1, <1>8, <1>10, <2>1, <2>4
  <2> QED
    BY <1>5, <2>1, <2>2, <2>3, <2>4
<1>12. TimersOfCameras'
  <2> SUFFICES ASSUME NEW k \in DOMAIN devTimers
               PROVE  /\ devTimers[k].serial <= devAdded'
                      /\ \A c \in Classes : \A i \in DOMAIN devEntries'[c] :
                           devEntries'[c][i].serial = devTimers[k].serial =>
                             /\ c = "BlinkCamera"
                             /\ devEntries'[c][i].instance = devTimers[k].instance
    BY <1>1 DEF TimersOfCameras
  <2>1. devTimers[k].serial <= devAdded /\ devTimers[k].serial \in Nat
    BY TimersTyped DEF DeviceInv, TimersOfCameras
  <2> QED
    BY <1>1, <1>5, <1>8, <2>1 DEF DeviceInv, TimersOfCameras
<1>13. "BlinkCamera" \in Classes
  BY DEF Classes
<1>14. FirstIsOn'
  <2> SUFFICES ASSUME NEW i \in DOMAIN Cameras', NEW j \in DOMAIN Cameras', i < j, Cameras'[j].on
               PROVE  Cameras'[i].instance # Cameras'[j].instance
    BY DEF FirstIsOn
  <2>1. j \in DOMAIN Cameras /\ Cameras'[j] = Cameras[j]
    BY <1>5, <1>8, <1>13 DEF Cameras
  <2>2. i \in DOMAIN Cameras /\ Cameras'[i] = Cameras[i]
    <3>1. Cameras \in Seq(DeviceEntries) /\ DOMAIN Cameras = 1 .. Len(Cameras) /\ Len(Cameras) \in Nat
      BY <1>13, EntriesTyped DEF DeviceInv, Cameras
    <3>2. class = "BlinkCamera" => i # Len(Cameras) + 1
      BY <2>1, <3>1
    <3> QED
      BY <1>5, <1>13, <3>2 DEF Cameras
  <2> QED
    BY <2>1, <2>2 DEF DeviceInv, FirstIsOn
<1>15. MotionEnds'
  <2> SUFFICES ASSUME NEW i \in DOMAIN devEntries'["BlinkCamera"],
                      devEntries'["BlinkCamera"][i].on, devEntries'["BlinkCamera"][i].timed
               PROVE  \E k \in DOMAIN devTimers :
                        /\ devTimers[k].runs
                        /\ devTimers[k].instance = devEntries'["BlinkCamera"][i].instance
                        /\ Alive(devTimers[k].serial)'
    BY <1>1 DEF MotionEnds, Alive
  <2>1. /\ i \in DOMAIN devEntries["BlinkCamera"]
        /\ devEntries'["BlinkCamera"][i] = devEntries["BlinkCamera"][i]
    BY <1>5, <1>8, <1>13
  <2>2. PICK k \in DOMAIN devTimers :
          /\ devTimers[k].runs /\ devTimers[k].instance = devEntries["BlinkCamera"][i].instance
          /\ Alive(devTimers[k].serial)
    BY <2>1 DEF DeviceInv, MotionEnds
  <2>3. Alive(devTimers[k].serial)'
    BY <1>1, <1>6, <2>2 DEF Alive
  <2> QED
    BY <2>1, <2>2, <2>3
<1> QED
  BY <1>4, <1>9, <1>11, <1>12, <1>14, <1>15 DEF DeviceInv

\* "no instance INT": the first entry with the instance goes.
LEMMA DeletedEntries ==
  ASSUME DeviceTypes, NEW class \in Classes, NEW instance, DelDevice(class, instance)
  PROVE  /\ devEntries' \in [Classes -> Seq(DeviceEntries)]
         /\ \A c \in Classes : \E kept \in SUBSET DOMAIN devEntries[c] :
              /\ IsLeft(devEntries'[c], devEntries[c], kept)
              /\ \A i \in DOMAIN devEntries[c] \ kept :
                   /\ c = class /\ devEntries[c][i].instance = instance
                   /\ devEntries[c][i] \in OfInstance(class, instance)
                   /\ \A j \in DOMAIN devEntries[c] :
                        devEntries[c][j].instance = instance => i <= j
<1> DEFINE old == devEntries[class]
           hits == WithInstance(class, instance)
           left == WithoutFirst(old, hits)
<1>1. devEntries' = [devEntries EXCEPT ![class] = left]
  BY DEF DelDevice
<1>2. old \in Seq(DeviceEntries) /\ hits \in SUBSET DOMAIN old
  BY EntriesTyped DEF WithInstance
<1>3. /\ left \in Seq(DeviceEntries)
      /\ hits = {} => left = old
      /\ hits # {} => /\ Min(hits) \in hits
                      /\ IsLeft(left, old, DOMAIN old \ {Min(hits)})
  BY <1>2, WithoutFirstLeft
<1>4. devEntries' \in [Classes -> Seq(DeviceEntries)]
  BY <1>1, <1>3 DEF DeviceTypes
<1>5. \A c \in Classes : devEntries'[c] = IF c = class THEN left ELSE devEntries[c]
  BY <1>1 DEF DeviceTypes
<1>6. ASSUME NEW c \in Classes, c # class \/ hits = {}
      PROVE  IsLeft(devEntries'[c], devEntries[c], DOMAIN devEntries[c])
  <2>1. devEntries'[c] = devEntries[c]
    BY <1>3, <1>5, <1>6
  <2> QED
    BY <2>1, EntriesTyped, AllLeft
<1>7. ASSUME hits # {}
      PROVE  LET kept == DOMAIN old \ {Min(hits)}
             IN /\ IsLeft(devEntries'[class], old, kept)
                /\ \A i \in DOMAIN old \ kept :
                     /\ old[i].instance = instance /\ old[i] \in OfInstance(class, instance)
                     /\ \A j \in DOMAIN old : old[j].instance = instance => i <= j
  <2>1. /\ Min(hits) \in hits /\ \A j \in hits : Min(hits) <= j
        /\ FirstOf(old, hits) = {old[Min(hits)]}
    BY <1>2, <1>7, FirstOfHits
  <2>2. \A j \in DOMAIN old : j \in hits <=> old[j].instance = instance
    BY DEF WithInstance
  <2>3. old[Min(hits)] \in OfInstance(class, instance)
    BY <2>1 DEF OfInstance
  <2> HIDE DEF hits
  <2> QED
    BY <1>3, <1>5, <1>7, <2>1, <2>2, <2>3
<1> HIDE DEF hits, left
<1>8. ASSUME NEW c \in Classes
      PROVE  \E kept \in SUBSET DOMAIN devEntries[c] :
               /\ IsLeft(devEntries'[c], devEntries[c], kept)
               /\ \A i \in DOMAIN devEntries[c] \ kept :
                    /\ c = class /\ devEntries[c][i].instance = instance
                    /\ devEntries[c][i] \in OfInstance(class, instance)
                    /\ \A j \in DOMAIN devEntries[c] :
                         devEntries[c][j].instance = instance => i <= j
  <2>1. CASE c # class \/ hits = {}
    BY <1>6, <2>1
  <2>2. CASE c = class /\ hits # {}
    BY <1>7, <2>2
  <2> QED
    BY <2>1, <2>2
<1> QED
  BY <1>4, <1>8

LEMMA DelKeepsDevices ==
  ASSUME DeviceInv, NEW class \in Classes, NEW instance, DelDevice(class, instance)
  PROVE  DeviceInv'
<1>1. devTimers' = devTimers /\ devAdded' = devAdded /\ DeviceTypes
  BY DEF DelDevice, DeviceInv
<1>2. devEntries' \in [Classes -> Seq(DeviceEntries)]
  BY <1>1, DeletedEntries
<1>3. DeviceTypes'
  BY <1>1, <1>2 DEF DeviceTypes
<1>4. \A c \in Classes :
        /\ \A i \in DOMAIN devEntries[c] : i \in Int
        /\ \A i \in DOMAIN devEntries'[c] : i \in Int
  <2>1. \A c \in Classes : DOMAIN devEntries'[c] = 1 .. Len(devEntries'[c])
    BY <1>2, LenProperties
  <2> QED
    BY <1>1, <2>1, EntriesTyped
<1>5. \A c \in Classes : \E f \in [DOMAIN devEntries'[c] -> DOMAIN devEntries[c]] :
        /\ \A k, l \in DOMAIN devEntries'[c] : k < l => f[k] < f[l]
        /\ \A k \in DOMAIN devEntries'[c] : devEntries'[c][k] = devEntries[c][f[k]]
        /\ \A i \in DOMAIN devEntries[c] :
             \/ \E k \in DOMAIN devEntries'[c] : f[k] = i
             \/ /\ c = class /\ devEntries[c][i].instance = instance
                /\ devEntries[c][i] \in OfInstance(class, instance)
        /\ \A i \in DOMAIN devEntries[c] : \A k \in DOMAIN devEntries'[c] :
             /\ devEntries[c][f[k]].instance = instance
             /\ ~ \E l \in DOMAIN devEntries'[c] : f[l] = i
             => i < f[k]
  <2> SUFFICES ASSUME NEW c \in Classes
               PROVE  \E f \in [DOMAIN devEntries'[c] -> DOMAIN devEntries[c]] :
                 /\ \A k, l \in DOMAIN devEntries'[c] : k < l => f[k] < f[l]
                 /\ \A k \in DOMAIN devEntries'[c] : devEntries'[c][k] = devEntries[c][f[k]]
                 /\ \A i \in DOMAIN devEntries[c] :
                      \/ \E k \in DOMAIN devEntries'[c] : f[k] = i
                      \/ /\ c = class /\ devEntries[c][i].instance = instance
                         /\ devEntries[c][i] \in OfInstance(class, instance)
                 /\ \A i \in DOMAIN devEntries[c] : \A k \in DOMAIN devEntries'[c] :
                      /\ devEntries[c][f[k]].instance = instance
                      /\ ~ \E l \in DOMAIN devEntries'[c] : f[l] = i
                      => i < f[k]
    OBVIOUS
  <2>1. PICK kept \in SUBSET DOMAIN devEntries[c] :
          /\ IsLeft(devEntries'[c], devEntries[c], kept)
          /\ \A i \in DOMAIN devEntries[c] \ kept :
               /\ c = class /\ devEntries[c][i].instance = instance
               /\ devEntries[c][i] \in OfInstance(class, instance)
               /\ \A j \in DOMAIN devEntries[c] : devEntries[c][j].instance = instance => i <= j
    BY <1>1, DeletedEntries
  <2>2. PICK f \in [DOMAIN devEntries'[c] -> DOMAIN devEntries[c]] :
          /\ \A k, l \in DOMAIN devEntries'[c] : k < l => f[k] < f[l]
          /\ \A k \in DOMAIN devEntries'[c] : devEntries'[c][k] = devEntries[c][f[k]] /\ f[k] \in kept
          /\ \A i \in kept : \E k \in DOMAIN devEntries'[c] : f[k] = i
    BY <2>1 DEF IsLeft
  <2>3. ASSUME NEW i \in DOMAIN devEntries[c], NEW k \in DOMAIN devEntries'[c],
               devEntries[c][f[k]].instance = instance,
               ~ \E l \in DOMAIN devEntries'[c] : f[l] = i
        PROVE  i < f[k]
    <3>1. i \notin kept /\ f[k] \in kept /\ i \in Int /\ f[k] \in Int
      BY <1>4, <2>2, <2>3
    <3>2. i <= f[k] /\ i # f[k]
      BY <2>1, <2>3, <3>1
    <3> QED
      BY <3>1, <3>2
  <2> QED
    BY <2>1, <2>2, <2>3
<1>6. NamesSound'
  <2> DEFINE gone == UNION {NamesOf(class, e) : e \in OfInstance(class, instance)}
  <2>1. devNames' = [n \in DOMAIN devNames \ gone |-> devNames[n]]
    BY DEF DelDevice
  <2>2. ASSUME NEW n \in DOMAIN devNames \ gone
        PROVE  devNames[n] \in DeviceIds /\ Behind(devEntries', n, devNames[n])
    <3> DEFINE id == devNames[n]
    <3>1. Behind(devEntries, n, id) /\ id \in DeviceIds
      BY DEF DeviceInv, NamesSound
    <3>2. id.node \in Classes \cup {"SecuritySystem"} /\ id.command \in Commands
      BY <3>1 DEF DeviceIds
    <3> HIDE DEF id
    <3>3. CASE \/ n \in UserNames \/ id.node = "SecuritySystem"
               \/ id.node = "Sensor" /\ id.command = "model"
      BY <3>1, <3>3 DEF Behind, id
    <3>4. CASE /\ id.node \in Classes /\ ~(id.node = "Sensor" /\ id.command = "model")
               /\ \E i \in DOMAIN devEntries[id.node] :
                    n = Name(devEntries[id.node][i].name, devEntries[id.node][i].instance,
                             id.node, id.command)
      <4>1. PICK i \in DOMAIN devEntries[id.node] :
              n = Name(devEntries[id.node][i].name, devEntries[id.node][i].instance,
                       id.node, id.command)
        BY <3>4
      <4>2. PICK f \in [DOMAIN devEntries'[id.node] -> DOMAIN devEntries[id.node]] :
              /\ \A k \in DOMAIN devEntries'[id.node] :
                   devEntries'[id.node][k] = devEntries[id.node][f[k]]
              /\ \/ \E k \in DOMAIN devEntries'[id.node] : f[k] = i
                 \/ id.node = class /\ devEntries[id.node][i] \in OfInstance(class, instance)
        BY <1>5, <3>4
      <4>3. CASE \E k \in DOMAIN devEntries'[id.node] : f[k] = i
        BY <3>1, <4>1, <4>2, <4>3 DEF Behind, id
      <4>4. CASE id.node = class /\ devEntries[id.node][i] \in OfInstance(class, instance)
        <5>1. id.command \in IF class = "Sensor" THEN {"level"} ELSE Commands
          BY <3>2, <3>4, <4>4 DEF Commands
        <5>2. n \in NamesOf(class, devEntries[class][i])
          BY <4>1, <4>4, <5>1 DEF NamesOf
        <5>3. n \in gone
          BY <4>4, <5>2
        <5> QED
          BY <5>3
      <4> QED
        BY <4>2, <4>3, <4>4
    <3> QED
      BY <3>1, <3>2, <3>3, <3>4 DEF Behind
  <2> HIDE DEF gone
  <2> QED
    BY <2>1, <2>2 DEF DeviceInv, NamesSound
<1>7. SerialsApart'
  <2> SUFFICES ASSUME NEW c \in Classes, NEW d \in Classes,
                      NEW i \in DOMAIN devEntries'[c], NEW j \in DOMAIN devEntries'[d]
               PROVE  /\ devEntries'[c][i].serial <= devAdded
                      /\ devEntries'[c][i].serial = devEntries'[d][j].serial => c = d /\ i = j
    BY <1>1 DEF SerialsApart
  <2>1. PICK f \in [DOMAIN devEntries'[c] -> DOMAIN devEntries[c]] :
          /\ \A k, l \in DOMAIN devEntries'[c] : k < l => f[k] < f[l]
          /\ \A k \in DOMAIN devEntries'[c] : devEntries'[c][k] = devEntries[c][f[k]]
    BY <1>5
  <2>2. PICK g \in [DOMAIN devEntries'[d] -> DOMAIN devEntries[d]] :
          \A k \in DOMAIN devEntries'[d] : devEntries'[d][k] = devEntries[d][g[k]]
    BY <1>5
  <2>3. devEntries'[c][i].serial <= devAdded
    BY <2>1 DEF DeviceInv, SerialsApart
  <2>4. ASSUME devEntries'[c][i].serial = devEntries'[d][j].serial PROVE c = d /\ i = j
    <3>1. c = d
      BY <2>1, <2>2, <2>4 DEF DeviceInv, SerialsApart
    <3>2. f[i] = f[j]
      BY <2>1, <2>4, <3>1 DEF DeviceInv, SerialsApart
    <3>3. f[i] \in Int /\ f[j] \in Int /\ i \in Int /\ j \in Int
      BY <1>4, <2>1, <3>1
    <3> QED
      BY <2>1, <3>1, <3>2, <3>3
  <2> QED
    BY <2>3, <2>4
<1>8. TimersOfCameras'
  <2> SUFFICES ASSUME NEW t \in DOMAIN devTimers
               PROVE  /\ devTimers[t].serial <= devAdded
                      /\ \A c \in Classes : \A k \in DOMAIN devEntries'[c] :
                           devEntries'[c][k].serial = devTimers[t].serial =>
                             /\ c = "BlinkCamera"
                             /\ devEntries'[c][k].instance = devTimers[t].instance
    BY <1>1 DEF TimersOfCameras
  <2>1. ASSUME NEW c \in Classes, NEW k \in DOMAIN devEntries'[c],
               devEntries'[c][k].serial = devTimers[t].serial
        PROVE  c = "BlinkCamera" /\ devEntries'[c][k].instance = devTimers[t].instance
    <3>1. PICK i \in DOMAIN devEntries[c] : devEntries'[c][k] = devEntries[c][i]
      BY <1>5
    <3> QED
      BY <2>1, <3>1 DEF DeviceInv, TimersOfCameras
  <2> QED
    BY <2>1 DEF DeviceInv, TimersOfCameras
<1>9. "BlinkCamera" \in Classes
  BY DEF Classes
<1>10. PICK f \in [DOMAIN Cameras' -> DOMAIN Cameras] :
        /\ \A k, l \in DOMAIN Cameras' : k < l => f[k] < f[l]
        /\ \A k \in DOMAIN Cameras' : Cameras'[k] = Cameras[f[k]]
        /\ \A i \in DOMAIN Cameras : \/ \E k \in DOMAIN Cameras' : f[k] = i
                                     \/ Cameras[i].instance = instance
        /\ \A i \in DOMAIN Cameras : \A k \in DOMAIN Cameras' :
             Cameras[f[k]].instance = instance /\ (~ \E l \in DOMAIN Cameras' : f[l] = i)
             => i < f[k]
  BY <1>5, <1>9 DEF Cameras
<1>11. FirstIsOn'
  BY <1>10 DEF DeviceInv, FirstIsOn
<1>12. MotionEnds'
  <2> SUFFICES ASSUME NEW k \in DOMAIN Cameras', Cameras'[k].on, Cameras'[k].timed
               PROVE  \E t \in DOMAIN devTimers :
                        /\ devTimers[t].runs /\ devTimers[t].instance = Cameras'[k].instance
                        /\ Alive(devTimers[t].serial)'
    BY <1>1 DEF MotionEnds, Cameras, Alive
  <2>1. PICK t \in DOMAIN devTimers :
          /\ devTimers[t].runs /\ devTimers[t].instance = Cameras[f[k]].instance
          /\ Alive(devTimers[t].serial)
    BY <1>10 DEF DeviceInv, MotionEnds, Cameras
  <2>2. PICK i \in DOMAIN Cameras : /\ Cameras[i].serial = devTimers[t].serial
                                    /\ Cameras[i].instance = Cameras[f[k]].instance
    <3>1. PICK c \in Classes : \E j \in DOMAIN devEntries[c] :
            devEntries[c][j].serial = devTimers[t].serial
      BY <2>1 DEF Alive
    <3> QED
      BY <2>1, <3>1 DEF DeviceInv, TimersOfCameras, Cameras
  <2>3. \E l \in DOMAIN Cameras' : f[l] = i
    <3> SUFFICES ASSUME ~ \E l \in DOMAIN Cameras' : f[l] = i PROVE FALSE
      OBVIOUS
    <3>1. Cameras[f[k]].instance = instance /\ i < f[k]
      BY <1>10, <2>2
    <3> QED
      BY <1>10, <2>2, <3>1 DEF DeviceInv, FirstIsOn
  <2>4. Alive(devTimers[t].serial)'
    BY <1>1, <1>9, <1>10, <2>2, <2>3 DEF Alive, Cameras
  <2> QED
    BY <1>10, <2>1, <2>4
<1> QED
  BY <1>3, <1>6, <1>7, <1>8, <1>11, <1>12 DEF DeviceInv

\* What the resolver's commands do to names does not touch the devices.
LEMMA NamingKeepsDevices ==
  ASSUME DeviceInv, UNCHANGED <<devEntries, devTimers, devAdded>>, NamesSound'
  PROVE  DeviceInv'
<1>1. DeviceTypes'
  BY DEF DeviceInv, DeviceTypes
<1>2. SerialsApart' /\ TimersOfCameras' /\ FirstIsOn'
  BY DEF DeviceInv, SerialsApart, TimersOfCameras, FirstIsOn, Cameras
<1>3. MotionEnds'
  BY DEF DeviceInv, MotionEnds, Alive
<1> QED
  BY <1>1, <1>2, <1>3 DEF DeviceInv

LEMMA NameKeepsDevices ==
  ASSUME DeviceInv, NEW name \in UserNames, NEW n \in DOMAIN devNames,
         NameDevice(name, devNames[n])
  PROVE  DeviceInv'
<1>1. /\ devNames' = AddName(devNames, name, devNames[n])
      /\ UNCHANGED <<devEntries, devTimers, devAdded>>
  BY DEF NameDevice
<1>2. NamesSound'
  <2>1. /\ \A m \in DOMAIN devNames' :
             \/ m = name /\ devNames'[m] = devNames[n]
             \/ m \in DOMAIN devNames /\ devNames'[m] = devNames[m]
        /\ \A l, m \in DOMAIN devNames' : devNames'[l] = devNames'[m] => l = m
    BY <1>1, NameAdded DEF DeviceInv, NamesSound
  <2>2. ASSUME NEW m \in DOMAIN devNames'
        PROVE  devNames'[m] \in DeviceIds /\ Behind(devEntries, m, devNames'[m])
    <3>1. CASE m = name /\ devNames'[m] = devNames[n]
      BY <3>1 DEF DeviceInv, NamesSound, Behind
    <3>2. CASE m \in DOMAIN devNames /\ devNames'[m] = devNames[m]
      BY <3>2 DEF DeviceInv, NamesSound
    <3> QED
      BY <2>1, <3>1, <3>2
  <2> QED
    BY <1>1, <2>1, <2>2 DEF NamesSound
<1> QED
  BY <1>1, <1>2, NamingKeepsDevices

LEMMA UnnameKeepsDevices ==
  ASSUME DeviceInv, NEW name, UnnameDevice(name) PROVE DeviceInv'
<1>1. /\ devNames' = [n \in DOMAIN devNames \ {name} |-> devNames[n]]
      /\ UNCHANGED <<devEntries, devTimers, devAdded>>
  BY DEF UnnameDevice, RemoveName
<1>2. NamesSound'
  BY <1>1 DEF DeviceInv, NamesSound
<1> QED
  BY <1>1, <1>2, NamingKeepsDevices

\* One entry is written to.
Written(class, i, on, timed) ==
  /\ StatesChanged
  /\ devEntries'[class][i].on = on /\ devEntries'[class][i].timed = timed
  /\ \A c \in Classes : \A j \in DOMAIN devEntries[c] :
       c # class \/ j # i => devEntries'[c][j] = devEntries[c][j]

LEMMA EntryWritten ==
  ASSUME DeviceTypes, NEW class \in Classes, NEW i \in DOMAIN devEntries[class],
         NEW on \in BOOLEAN, NEW timed \in BOOLEAN, NEW entry,
         entry = [devEntries[class][i] EXCEPT !.on = on, !.timed = timed],
         devEntries' = [devEntries EXCEPT ![class][i] = entry]
  PROVE  Written(class, i, on, timed)
<1> DEFINE old == devEntries[class]
           new == [old EXCEPT ![i] = entry]
<1>1. devEntries' = [devEntries EXCEPT ![class] = new]
  BY DEF DeviceTypes
<1>2. old \in Seq(DeviceEntries) /\ old[i] \in DeviceEntries /\ i \in 1 .. Len(old)
  BY EntriesTyped
<1>3. /\ entry \in DeviceEntries /\ entry.on = on /\ entry.timed = timed
      /\ entry.serial = old[i].serial /\ entry.name = old[i].name /\ entry.instance = old[i].instance
  BY <1>2 DEF DeviceEntries
<1>4. /\ new \in Seq(DeviceEntries) /\ DOMAIN new = DOMAIN old /\ new[i] = entry
      /\ \A j \in DOMAIN old : j # i => new[j] = old[j]
  <2>1. new \in Seq(DeviceEntries)
    BY <1>2, <1>3, ExceptSeq
  <2> QED
    BY <2>1
<1> HIDE DEF new
<1>5. /\ devEntries' \in [Classes -> Seq(DeviceEntries)] /\ devEntries'[class] = new
      /\ \A c \in Classes : c # class => devEntries'[c] = devEntries[c]
  BY <1>1, <1>4 DEF DeviceTypes
<1>6. \A c \in Classes : \A j \in DOMAIN devEntries[c] :
        c # class \/ j # i => devEntries'[c][j] = devEntries[c][j]
  BY <1>4, <1>5
<1>7. StatesChanged
  <2> SUFFICES ASSUME NEW c \in Classes
               PROVE  /\ DOMAIN devEntries'[c] = DOMAIN devEntries[c]
                      /\ \A j \in DOMAIN devEntries[c] :
                           /\ devEntries'[c][j].serial = devEntries[c][j].serial
                           /\ devEntries'[c][j].name = devEntries[c][j].name
                           /\ devEntries'[c][j].instance = devEntries[c][j].instance
    BY <1>5 DEF StatesChanged
  <2>1. CASE c = class
    BY <1>3, <1>4, <1>5, <2>1
  <2>2. CASE c # class
    BY <1>5, <2>2
  <2> QED
    BY <2>1, <2>2
<1> QED
  BY <1>3, <1>4, <1>5, <1>6, <1>7 DEF Written

\* A state goes to the first entry with the instance.
LEMMA SetOnWrites ==
  ASSUME DeviceTypes, NEW class \in Classes, NEW instance, NEW on \in BOOLEAN,
         SetOn(class, instance, on)
  PROVE  \/ /\ devEntries' = devEntries
            /\ \A i \in DOMAIN devEntries[class] : devEntries[class][i].instance # instance
         \/ \E i \in DOMAIN devEntries[class], timed \in BOOLEAN :
              /\ Written(class, i, on, timed)
              /\ timed = (devEntries[class][i].timed \/ ~on)
              /\ devEntries[class][i].instance = instance
              /\ \A j \in DOMAIN devEntries[class] : devEntries[class][j].instance = instance => i <= j
<1> DEFINE hits == WithInstance(class, instance)
<1>1. CASE hits = {}
  BY <1>1 DEF SetOn, WithInstance
<1>2. CASE hits # {}
  <2> DEFINE m == Min(hits)
             old == devEntries[class][m]
  <2>1. devEntries[class] \in Seq(DeviceEntries) /\ hits \in SUBSET DOMAIN devEntries[class]
    BY EntriesTyped DEF WithInstance
  <2>2. m \in hits /\ \A j \in hits : m <= j
    BY <1>2, <2>1, FirstOfHits
  <2>3. devEntries' = [devEntries EXCEPT ![class][m].on = on, ![class][m].timed = @ \/ ~on]
    BY <1>2 DEF SetOn
  <2>4. /\ devEntries \in [Classes -> Seq(DeviceEntries)] /\ m \in DOMAIN devEntries[class]
        /\ old \in DeviceEntries
    BY <2>1, <2>2, EntriesTyped DEF DeviceTypes
  <2>5. \A j \in DOMAIN devEntries[class] : j \in hits <=> devEntries[class][j].instance = instance
    BY DEF WithInstance
  <2> HIDE DEF m, hits
  <2>6. PICK timed \in BOOLEAN : timed = (old.timed \/ ~on)
    OBVIOUS
  <2>7. devEntries' = [devEntries EXCEPT ![class][m] = [old EXCEPT !.on = on, !.timed = timed]]
    BY <2>3, <2>4, <2>6 DEF DeviceEntries
  <2>8. Written(class, m, on, timed)
    BY <2>4, <2>7, EntryWritten
  <2> QED
    BY <2>2, <2>4, <2>5, <2>6, <2>8
<1> QED
  BY <1>1, <1>2

\* "Set" of a button or a sensor: no camera is switched by its name.
LEMMA SetKeepsDevices ==
  ASSUME DeviceInv, NEW name \in DOMAIN devNames, NEW on \in BOOLEAN, SetDevice(name, on)
  PROVE  DeviceInv'
<1> DEFINE class == devNames[name].node
           instance == devNames[name].instance
<1>1. /\ class \in {"Button", "Sensor"} /\ SetOn(class, instance, on) /\ DeviceTypes
      /\ UNCHANGED <<devNames, devTimers, devAdded>>
  BY DEF SetDevice, DeviceInv
<1>2. "BlinkCamera" \in Classes /\ class \in Classes /\ class # "BlinkCamera"
  BY <1>1 DEF Classes
<1> HIDE DEF class, instance
<1>3. CASE devEntries' = devEntries
  <2>1. NamesSound'
    BY <1>1, <1>3 DEF DeviceInv, NamesSound
  <2> QED
    BY <1>1, <1>3, <2>1, NamingKeepsDevices
<1>4. CASE \E i \in DOMAIN devEntries[class], timed \in BOOLEAN : Written(class, i, on, timed)
  <2>1. StatesChanged /\ devEntries'["BlinkCamera"] = devEntries["BlinkCamera"]
    <3>1. PICK i \in DOMAIN devEntries[class], timed \in BOOLEAN : Written(class, i, on, timed)
      BY <1>4
    <3> DEFINE old == devEntries["BlinkCamera"]
               new == devEntries'["BlinkCamera"]
    <3>2. /\ StatesChanged /\ DOMAIN new = DOMAIN old /\ old \in Seq(DeviceEntries)
          /\ new \in Seq(DeviceEntries) /\ \A j \in DOMAIN old : new[j] = old[j]
      BY <1>1, <1>2, <3>1, EntriesTyped DEF Written, StatesChanged
    <3>3. Len(new) = Len(old)
      BY <3>2, LenProperties
    <3> QED
      BY <3>2, <3>3, SeqEqual, LenProperties
  <2>2. NamesSound' /\ SerialsApart' /\ \A serial : Alive(serial)' <=> Alive(serial)
    BY <1>1, <2>1, StatesKeep
  <2>3. DeviceTypes'
    BY <1>1, <2>1 DEF DeviceTypes, StatesChanged
  <2>4. TimersOfCameras'
    BY <1>1, <2>1 DEF DeviceInv, TimersOfCameras, StatesChanged
  <2>5. FirstIsOn' /\ MotionEnds'
    BY <1>1, <2>1, <2>2 DEF DeviceInv, FirstIsOn, Cameras, MotionEnds
  <2> QED
    BY <2>2, <2>3, <2>4, <2>5 DEF DeviceInv
<1> QED
  BY <1>1, <1>2, <1>3, <1>4, SetOnWrites

AliveIn(entries, serial) ==
  \E class \in Classes : \E i \in DOMAIN entries[class] : entries[class][i].serial = serial

\* MotionDetected: the report starts a timer, if the pump has room for it, that will write to
\* the entry that is on.
LEMMA MotionKeepsDevices ==
  ASSUME DeviceInv, NEW name, MotionDetected(name) PROVE DeviceInv'
<1> DEFINE room == Len(devTimers) < PumpEntries
<1>1. "BlinkCamera" \in Classes /\ DeviceTypes
  BY DEF Classes, DeviceInv
<1>2. PICK entry \in OfName("BlinkCamera", name) :
        /\ Timed(entry)
        /\ devEntries' = [devEntries EXCEPT
             !["BlinkCamera"][Min(WithInstance("BlinkCamera", entry.instance))].on = TRUE,
             !["BlinkCamera"][Min(WithInstance("BlinkCamera", entry.instance))].timed = room]
  BY DEF MotionDetected
<1>3. UNCHANGED <<devNames, devAdded>>
  BY DEF MotionDetected
<1>4. PICK e \in DOMAIN Cameras : Cameras[e] = entry
  <2> DEFINE hits == {i \in DOMAIN Cameras : Cameras[i].name = name}
  <2>1. entry \in FirstOf(Cameras, hits)
    BY <1>2 DEF OfName, Cameras
  <2>2. hits # {}
    BY <2>1 DEF FirstOf
  <2>3. Cameras \in Seq(DeviceEntries) /\ hits \in SUBSET DOMAIN Cameras
    BY <1>1, EntriesTyped DEF Cameras
  <2>4. Min(hits) \in hits /\ FirstOf(Cameras, hits) = {Cameras[Min(hits)]}
    BY <2>2, <2>3, FirstOfHits
  <2> HIDE DEF hits
  <2> QED
    BY <2>1, <2>3, <2>4
<1> DEFINE hits == WithInstance("BlinkCamera", entry.instance)
           i == Min(hits)
<1>5. /\ i \in DOMAIN Cameras /\ Cameras[i].instance = entry.instance
      /\ \A j \in DOMAIN Cameras : Cameras[j].instance = entry.instance => i <= j
  <2>1. /\ Cameras \in Seq(DeviceEntries) /\ e \in hits
        /\ hits = {j \in DOMAIN Cameras : Cameras[j].instance = entry.instance}
    BY <1>1, <1>4, EntriesTyped DEF Cameras, WithInstance
  <2>2. i \in hits /\ \A j \in hits : i <= j
    BY <2>1, FirstOfHits
  <2> HIDE DEF i
  <2> QED
    BY <2>1, <2>2
<1> HIDE DEF i, hits
<1>6. Written("BlinkCamera", i, TRUE, room)
  <2>1. devEntries' = [devEntries EXCEPT !["BlinkCamera"][i].on = TRUE, !["BlinkCamera"][i].timed = room]
    BY <1>2 DEF i, hits
  <2>2. /\ devEntries \in [Classes -> Seq(DeviceEntries)] /\ i \in DOMAIN devEntries["BlinkCamera"]
        /\ devEntries["BlinkCamera"][i] \in DeviceEntries
    BY <1>1, <1>5, EntriesTyped DEF Cameras, DeviceTypes
  <2>3. room \in BOOLEAN
    OBVIOUS
  <2> HIDE DEF room
  <2>4. devEntries' = [devEntries EXCEPT !["BlinkCamera"][i] =
                         [devEntries["BlinkCamera"][i] EXCEPT !.on = TRUE, !.timed = room]]
    BY <1>1, <2>1, <2>2 DEF DeviceEntries
  <2> QED
    BY <1>1, <2>2, <2>3, <2>4, EntryWritten
<1>7. /\ StatesChanged
      /\ NamesSound' /\ SerialsApart' /\ \A serial : Alive(serial)' <=> Alive(serial)
  BY <1>3, <1>6, StatesKeep DEF Written
<1> DEFINE timer == [serial |-> entry.serial, instance |-> entry.instance, runs |-> TRUE]
<1>8. /\ devTimers' \in Seq(MotionTimers)
      /\ \A k \in DOMAIN devTimers : k \in DOMAIN devTimers' /\ devTimers'[k] = devTimers[k]
      /\ \A k \in DOMAIN devTimers' : \/ k \in DOMAIN devTimers /\ devTimers'[k] = devTimers[k]
                                      \/ devTimers'[k] = timer
      /\ room => \E k \in DOMAIN devTimers' : devTimers'[k] = timer
  <2>1. timer \in MotionTimers
    BY <1>1, <1>4, EntriesTyped DEF Cameras, MotionTimers
  <2>2. devTimers \in Seq(MotionTimers)
    BY <1>1 DEF DeviceTypes
  <2>3. devTimers' = IF room THEN Append(devTimers, timer) ELSE devTimers
    BY <1>2 DEF Timed
  <2> HIDE DEF timer, room
  <2>4. CASE room
    <3>1. /\ devTimers' \in Seq(MotionTimers) /\ Len(devTimers') = Len(devTimers) + 1
          /\ Len(devTimers) \in Nat
          /\ \A k \in 1 .. Len(devTimers) : devTimers'[k] = devTimers[k]
          /\ devTimers'[Len(devTimers) + 1] = timer
      BY <2>1, <2>2, <2>3, <2>4, AppendProperties, LenProperties
    <3>2. DOMAIN devTimers' = 1 .. Len(devTimers) + 1 /\ DOMAIN devTimers = 1 .. Len(devTimers)
      BY <2>2, <3>1, LenProperties
    <3> QED
      BY <3>1, <3>2
  <2>5. CASE ~room
    BY <2>2, <2>3, <2>5
  <2> QED
    BY <2>4, <2>5
<1>9. /\ timer.serial = Cameras[e].serial /\ timer.instance = Cameras[e].instance /\ timer.runs
      /\ Cameras[i].instance = Cameras[e].instance
  BY <1>4, <1>5
<1> HIDE DEF timer
<1>10. DeviceTypes'
  BY <1>1, <1>3, <1>7, <1>8 DEF DeviceTypes, StatesChanged
<1>11. TimersOfCameras'
  <2> SUFFICES ASSUME NEW k \in DOMAIN devTimers'
               PROVE  /\ devTimers'[k].serial <= devAdded
                      /\ \A c \in Classes : \A j \in DOMAIN devEntries[c] :
                           devEntries[c][j].serial = devTimers'[k].serial =>
                             c = "BlinkCamera" /\ devEntries[c][j].instance = devTimers'[k].instance
    BY <1>3, <1>7 DEF TimersOfCameras, StatesChanged
  <2>1. CASE k \in DOMAIN devTimers /\ devTimers'[k] = devTimers[k]
    BY <2>1 DEF DeviceInv, TimersOfCameras
  <2>2. CASE devTimers'[k] = timer
    <3>1. timer.serial <= devAdded
      BY <1>1, <1>9 DEF DeviceInv, SerialsApart, Cameras
    <3>2. ASSUME NEW c \in Classes, NEW j \in DOMAIN devEntries[c],
                 devEntries[c][j].serial = timer.serial
          PROVE  c = "BlinkCamera" /\ devEntries[c][j].instance = timer.instance
      <4>1. c = "BlinkCamera" /\ j = e
        BY <1>1, <1>9, <3>2 DEF DeviceInv, SerialsApart, Cameras
      <4> QED
        BY <1>9, <4>1 DEF Cameras
    <3> QED
      BY <2>2, <3>1, <3>2
  <2> QED
    BY <1>8, <2>1, <2>2
<1>12. /\ DOMAIN Cameras' = DOMAIN Cameras
       /\ Cameras'[i].on = TRUE /\ Cameras'[i].timed = room
       /\ \A j \in DOMAIN Cameras : Cameras'[j].instance = Cameras[j].instance
       /\ \A j \in DOMAIN Cameras : j # i => Cameras'[j] = Cameras[j]
  BY <1>1, <1>6 DEF Written, StatesChanged, Cameras
<1>13. FirstIsOn'
  <2>1. \A j \in DOMAIN Cameras : j \in Int
    BY <1>1, EntriesTyped DEF Cameras
  <2> SUFFICES ASSUME NEW j \in DOMAIN Cameras, NEW k \in DOMAIN Cameras, j < k, Cameras'[k].on
               PROVE  Cameras[j].instance # Cameras[k].instance
    BY <1>12 DEF FirstIsOn
  <2>2. CASE k = i
    BY <1>5, <2>1, <2>2
  <2>3. CASE k # i
    BY <1>12, <2>3 DEF DeviceInv, FirstIsOn
  <2> QED
    BY <2>2, <2>3
<1>14. MotionEnds'
  <2> SUFFICES ASSUME NEW j \in DOMAIN Cameras, Cameras'[j].on, Cameras'[j].timed
               PROVE  \E k \in DOMAIN devTimers' :
                        /\ devTimers'[k].runs /\ devTimers'[k].instance = Cameras[j].instance
                        /\ AliveIn(devEntries', devTimers'[k].serial)
    BY <1>12 DEF MotionEnds, Cameras, Alive, AliveIn
  <2>1. CASE j = i
    <3>1. PICK k \in DOMAIN devTimers' : devTimers'[k] = timer
      BY <1>8, <1>12, <2>1
    <3>2. Alive(Cameras[e].serial)
      BY <1>1 DEF Alive, Cameras
    <3>3. \E class \in Classes : \E m \in DOMAIN devEntries'[class] :
            devEntries'[class][m].serial = timer.serial
      BY <1>7, <1>9, <3>2 DEF Alive, StatesChanged
    <3> QED
      BY <1>9, <2>1, <3>1, <3>3 DEF AliveIn
  <2>2. CASE j # i
    <3>1. PICK k \in DOMAIN devTimers :
            /\ devTimers[k].runs /\ devTimers[k].instance = Cameras[j].instance
            /\ Alive(devTimers[k].serial)
      BY <1>12, <2>2 DEF DeviceInv, MotionEnds, Cameras
    <3>2. k \in DOMAIN devTimers' /\ devTimers'[k] = devTimers[k]
      BY <1>8
    <3>3. \E class \in Classes : \E m \in DOMAIN devEntries'[class] :
            devEntries'[class][m].serial = devTimers'[k].serial
      BY <1>7, <3>1, <3>2 DEF Alive, StatesChanged
    <3> QED
      BY <3>1, <3>2, <3>3 DEF AliveIn
  <2> QED
    BY <2>1, <2>2
<1> QED
  BY <1>7, <1>10, <1>11, <1>13, <1>14 DEF DeviceInv

\* on_motion_timeout.
LEMMA TimeoutKeepsDevices ==
  ASSUME DeviceInv, NEW t \in DOMAIN devTimers, MotionTimeout(t) PROVE DeviceInv'
<1>1. /\ "BlinkCamera" \in Classes /\ DeviceTypes
      /\ devTimers[t].runs /\ devTimers' = [devTimers EXCEPT ![t].runs = FALSE]
      /\ UNCHANGED <<devNames, devAdded>>
  BY DEF Classes, DeviceInv, MotionTimeout
<1>2. /\ devTimers' \in Seq(MotionTimers) /\ DOMAIN devTimers' = DOMAIN devTimers
      /\ \A k \in DOMAIN devTimers : /\ devTimers'[k].serial = devTimers[k].serial
                                     /\ devTimers'[k].instance = devTimers[k].instance
                                     /\ k # t => devTimers'[k] = devTimers[k]
  <2> DEFINE timer == [devTimers[t] EXCEPT !.runs = FALSE]
  <2>1. devTimers \in Seq(MotionTimers) /\ t \in 1 .. Len(devTimers) /\ devTimers[t] \in MotionTimers
    BY <1>1, TimersTyped DEF DeviceTypes
  <2>2. /\ timer \in MotionTimers /\ timer.serial = devTimers[t].serial
        /\ timer.instance = devTimers[t].instance
    BY <2>1 DEF MotionTimers
  <2>3. devTimers' = [devTimers EXCEPT ![t] = timer]
    BY <1>1
  <2> HIDE DEF timer
  <2>4. devTimers' \in Seq(MotionTimers)
    BY <2>1, <2>2, <2>3, ExceptSeq
  <2> QED
    BY <2>2, <2>3, <2>4
<1>3. CASE ~Alive(devTimers[t].serial) /\ devEntries' = devEntries
  <2>1. NamesSound' /\ SerialsApart' /\ DeviceTypes' /\ TimersOfCameras' /\ FirstIsOn'
    BY <1>1, <1>2, <1>3 DEF DeviceInv, NamesSound, SerialsApart, DeviceTypes, TimersOfCameras,
                            FirstIsOn, Cameras
  <2>2. MotionEnds'
    <3> SUFFICES ASSUME NEW j \in DOMAIN Cameras, Cameras[j].on, Cameras[j].timed
                 PROVE  \E k \in DOMAIN devTimers :
                          /\ devTimers'[k].runs /\ devTimers'[k].instance = Cameras[j].instance
                          /\ AliveIn(devEntries', devTimers'[k].serial)
      BY <1>2, <1>3 DEF MotionEnds, Cameras, Alive, AliveIn
    <3>1. PICK k \in DOMAIN devTimers :
            /\ devTimers[k].runs /\ devTimers[k].instance = Cameras[j].instance
            /\ Alive(devTimers[k].serial)
      BY DEF DeviceInv, MotionEnds, Cameras
    <3>2. k # t
      BY <1>3, <3>1
    <3> QED
      BY <1>2, <1>3, <3>1, <3>2 DEF Alive, AliveIn
  <2> QED
    BY <2>1, <2>2 DEF DeviceInv
<1>4. CASE SetOn("BlinkCamera", devTimers[t].instance, FALSE)
  <2> PICK instance : instance = devTimers[t].instance
    OBVIOUS
  <2>1. /\ StatesChanged
        /\ \A j \in DOMAIN Cameras :
             \/ Cameras'[j] = Cameras[j] /\ (Cameras[j].on => Cameras[j].instance # instance)
             \/ ~Cameras'[j].on
    <3>1. CASE /\ devEntries' = devEntries
               /\ \A j \in DOMAIN Cameras : Cameras[j].instance # instance
      BY <1>1, <3>1 DEF StatesChanged, DeviceTypes, Cameras
    <3>2. CASE \E i \in DOMAIN Cameras, timed \in BOOLEAN :
                 /\ Written("BlinkCamera", i, FALSE, timed) /\ Cameras[i].instance = instance
                 /\ \A j \in DOMAIN Cameras : Cameras[j].instance = instance => i <= j
      <4>1. PICK i \in DOMAIN Cameras, timed \in BOOLEAN :
              /\ Written("BlinkCamera", i, FALSE, timed) /\ Cameras[i].instance = instance
              /\ \A j \in DOMAIN Cameras : Cameras[j].instance = instance => i <= j
        BY <3>2
      <4>2. /\ StatesChanged /\ Cameras'[i].on = FALSE
            /\ \A j \in DOMAIN Cameras : j # i => Cameras'[j] = Cameras[j]
        BY <1>1, <4>1 DEF Written, Cameras
      <4>3. \A j \in DOMAIN Cameras : j \in Int
        BY <1>1, EntriesTyped DEF Cameras
      <4>4. \A j \in DOMAIN Cameras : j # i /\ Cameras[j].on => Cameras[j].instance # instance
        BY <4>1, <4>3 DEF DeviceInv, FirstIsOn
      <4> QED
        BY <4>2, <4>4
    <3>3. \/ /\ devEntries' = devEntries
             /\ \A j \in DOMAIN Cameras : Cameras[j].instance # instance
          \/ \E i \in DOMAIN Cameras, timed \in BOOLEAN :
               /\ Written("BlinkCamera", i, FALSE, timed) /\ Cameras[i].instance = instance
               /\ \A j \in DOMAIN Cameras : Cameras[j].instance = instance => i <= j
      <4>1. PICK off \in BOOLEAN : ~off
        OBVIOUS
      <4>2. SetOn("BlinkCamera", instance, off)
        BY <1>4, <4>1
      <4>3. \/ /\ devEntries' = devEntries
               /\ \A j \in DOMAIN devEntries["BlinkCamera"] :
                    devEntries["BlinkCamera"][j].instance # instance
            \/ \E i \in DOMAIN devEntries["BlinkCamera"], timed \in BOOLEAN :
                 /\ Written("BlinkCamera", i, off, timed)
                 /\ timed = (devEntries["BlinkCamera"][i].timed \/ ~off)
                 /\ devEntries["BlinkCamera"][i].instance = instance
                 /\ \A j \in DOMAIN devEntries["BlinkCamera"] :
                      devEntries["BlinkCamera"][j].instance = instance => i <= j
        BY <1>1, <4>2, SetOnWrites
      <4> QED
        BY <4>1, <4>3 DEF Cameras, Written
    <3> QED
      BY <3>1, <3>2, <3>3
  <2>2. NamesSound' /\ SerialsApart' /\ \A serial : Alive(serial)' <=> Alive(serial)
    BY <1>1, <2>1, StatesKeep
  <2>3. DeviceTypes'
    BY <1>1, <1>2, <2>1 DEF DeviceTypes, StatesChanged
  <2>4. TimersOfCameras'
    <3> SUFFICES ASSUME NEW k \in DOMAIN devTimers
                 PROVE  /\ devTimers[k].serial <= devAdded
                        /\ \A c \in Classes : \A i \in DOMAIN devEntries[c] :
                             devEntries'[c][i].serial = devTimers[k].serial =>
                               /\ c = "BlinkCamera"
                               /\ devEntries'[c][i].instance = devTimers[k].instance
      BY <1>1, <1>2, <2>1 DEF TimersOfCameras, StatesChanged
    <3> QED
      BY <2>1 DEF DeviceInv, TimersOfCameras, StatesChanged
  <2>5. DOMAIN Cameras' = DOMAIN Cameras
        /\ \A j \in DOMAIN Cameras : Cameras'[j].instance = Cameras[j].instance
    BY <1>1, <2>1 DEF StatesChanged, Cameras
  <2>6. FirstIsOn'
    BY <2>1, <2>5 DEF DeviceInv, FirstIsOn
  <2>7. MotionEnds'
    <3> SUFFICES ASSUME NEW j \in DOMAIN Cameras, Cameras'[j].on, Cameras'[j].timed
                 PROVE  \E k \in DOMAIN devTimers :
                          /\ devTimers'[k].runs /\ devTimers'[k].instance = Cameras[j].instance
                          /\ AliveIn(devEntries', devTimers'[k].serial)
      BY <1>2, <2>5 DEF MotionEnds, Cameras, Alive, AliveIn
    <3>1. Cameras'[j] = Cameras[j] /\ Cameras[j].instance # instance
      BY <2>1
    <3>2. PICK k \in DOMAIN devTimers :
            /\ devTimers[k].runs /\ devTimers[k].instance = Cameras[j].instance
            /\ Alive(devTimers[k].serial)
      BY <3>1 DEF DeviceInv, MotionEnds, Cameras
    <3>3. k # t /\ devTimers'[k] = devTimers[k]
      BY <1>2, <3>1, <3>2
    <3>4. \E class \in Classes : \E m \in DOMAIN devEntries'[class] :
            devEntries'[class][m].serial = devTimers'[k].serial
      BY <2>1, <3>2, <3>3 DEF Alive, StatesChanged
    <3> QED
      BY <3>2, <3>3, <3>4 DEF AliveIn
  <2> QED
    BY <2>2, <2>3, <2>4, <2>6, <2>7 DEF DeviceInv
<1> QED
  BY <1>3, <1>4 DEF MotionTimeout

LEMMA DeviceStep == DeviceInv /\ [DeviceNext]_devVars => DeviceInv'
<1> SUFFICES ASSUME DeviceInv, [DeviceNext]_devVars PROVE DeviceInv'
  OBVIOUS
<1>1. ASSUME NEW class \in Classes, NEW instance \in DeviceInstances, DelDevice(class, instance)
      PROVE  DeviceInv'
  BY <1>1, DelKeepsDevices
<1>2. ASSUME NEW class \in Classes, NEW instance \in DeviceInstances, NEW name \in DeviceNames,
             AddDevice(class, name, instance)
      PROVE  DeviceInv'
  BY <1>2, AddKeepsDevices
<1>3. ASSUME NEW name \in UserNames, NEW n \in DOMAIN devNames, NameDevice(name, devNames[n])
      PROVE  DeviceInv'
  BY <1>3, NameKeepsDevices
<1>4. ASSUME NEW name \in DOMAIN devNames, UnnameDevice(name) PROVE DeviceInv'
  BY <1>4, UnnameKeepsDevices
<1>5. ASSUME NEW on \in BOOLEAN, NEW name \in DOMAIN devNames, SetDevice(name, on) PROVE DeviceInv'
  BY <1>5, SetKeepsDevices
<1>6. ASSUME NEW name \in DeviceNames, MotionDetected(name) PROVE DeviceInv'
  BY <1>6, MotionKeepsDevices
<1>7. ASSUME NEW t \in DOMAIN devTimers, MotionTimeout(t) PROVE DeviceInv'
  BY <1>7, TimeoutKeepsDevices
<1>8. CASE UNCHANGED devVars
  <2>1. UNCHANGED <<devEntries, devTimers, devAdded>> /\ NamesSound'
    BY <1>8 DEF devVars, DeviceInv, NamesSound
  <2> QED
    BY <2>1, NamingKeepsDevices
<1>9. CASE DeviceNext
  <2>1. CASE \E name \in UserNames, id \in {devNames[n] : n \in DOMAIN devNames} : NameDevice(name, id)
    BY <1>3, <2>1
  <2> QED
    BY <1>1, <1>2, <1>4, <1>5, <1>6, <1>7, <1>9, <2>1 DEF DeviceNext
<1> QED
  BY <1>8, <1>9

\* What a name of the resolver stands for has an entry behind it, whatever was added twice,
\* taken over, renamed and deleted, and no id has two names (resolver.c, *_config.c); except
\* for the model name that a sensor leaves behind and names the user gave.
THEOREM NamesAreBacked == DeviceSpec => []NamesResolve
<1>1. DeviceInv => NamesResolve
  BY DEF DeviceInv, NamesSound, NamesResolve, Behind
<1> QED
  BY <1>1, DeviceInitInv, DeviceStep, PTL DEF DeviceSpec

\* A camera that reports motion has a running timer that will write to it and belongs to an
\* entry that still exists, however cameras share names and instances and are deleted,
\* unless the pump was full at the last report (BlinkCamera.c).
THEOREM MotionWillEnd == DeviceSpec => []MotionEnds
<1>1. DeviceInv => MotionEnds
  BY DEF DeviceInv
<1> QED
  BY <1>1, DeviceInitInv, DeviceStep, PTL DEF DeviceSpec
=============================================================================
