---------------------------- MODULE ServiceProofs ----------------------------
(***************************************************************************)
(* Proofs about the weather cache, the session with a camera station, the  *)
(* saved configuration of scenes, its files and what a restart reads from  *)
(* them, the named timers, the linked lists of libZaeUtil and cron, for    *)
(* every account, timeout, clock, scenes and number of saves, every set of *)
(* timers, jobs and times, and lists of any length.                        *)
(***************************************************************************)
EXTENDS WeatherCache, Surveillance, SceneConfig, TimerService, LinkedLists, Crontab,
        FiniteSetTheorems, SequenceTheorems, WellFoundedInduction, TLAPS

-----------------------------------------------------------------------------
\* Before the device starts nothing logs in; afterwards every change of the settings logs
\* out first.
SessionInv == SessionCurrent /\ (~ssStarted => ssSid = {})

LEMMA SessionInit == SSInit => SessionInv
  BY DEF SSInit, SessionInv, SessionCurrent

LEMMA SessionStep == SessionInv /\ [SSNext]_ssVars => SessionInv'
<1> SUFFICES ASSUME SessionInv, [SSNext]_ssVars PROVE SessionInv'
  OBVIOUS
<1> USE DEF SessionInv, SessionCurrent, LoggedIn, Asked
<1>1. CASE Configured
  BY <1>1 DEF Configured, Settings
<1>2. CASE StartDevice
  BY <1>2 DEF StartDevice
<1>3. CASE GetCameraList
  BY <1>3 DEF GetCameraList
<1>4. CASE Poll
  <2>1. /\ UNCHANGED <<ssSettings, ssStarted, ssSid>>
        /\ ssAsked' = Asked("events", ssSid, ssSettings)
    BY <1>4 DEF Poll
  <2> QED
    BY <2>1
<1>5. CASE \E id \in DOMAIN ssCameras : MotionReset(id)
  BY <1>5 DEF MotionReset
<1>6. CASE UNCHANGED ssVars
  BY <1>6 DEF ssVars
<1> QED
  BY <1>1, <1>2, <1>3, <1>4, <1>5, <1>6 DEF SSNext

\* The session that is kept is one of the account and the station that are configured, and
\* every request with a session but the logout of changed settings is made with it,
\* whichever logins failed (SS_api.c, SurveillanceStation_cli.c).
THEOREM SessionIsCurrent == SSSpec => []SessionCurrent
<1>1. SessionInv => SessionCurrent
  BY DEF SessionInv
<1> QED
  BY <1>1, SessionInit, SessionStep, PTL DEF SSSpec

\* Nothing is polled before the device starts, and a keeper that has found its camera keeps
\* it.
CameraNames == {camera.name : camera \in StationCameras}
CameraRecords == [name : CameraNames, timer : {"zero", "none", "stopped", "runs"}]
KeeperRecords == [camera : Ids \cup {NoCamera}, count : Nat, old : Nat, active : BOOLEAN]

MotionInv ==
  /\ SessionInv /\ StationMotionEnds
  /\ ~ssStarted => DOMAIN ssKeepers = {} /\ ~ssCrashed
  /\ DOMAIN ssCameras \subseteq Nat \ {0}
  /\ \A id \in DOMAIN ssCameras : ssCameras[id] \in CameraRecords
  /\ \A key \in DOMAIN ssKeepers : ssKeepers[key] \in KeeperRecords

LEMMA MotionInit == SSInit => MotionInv
  BY SessionInit DEF SSInit, MotionInv, StationMotionEnds

\* An answer to GetCameraList adds cameras and leaves the timers of those that are known.
LEMMA ListAdds ==
  ASSUME MotionInv, NEW sid, NEW cameras \in GetList(sid)
  PROVE  /\ DOMAIN ssCameras \subseteq DOMAIN cameras
         /\ DOMAIN cameras \subseteq Nat \ {0}
         /\ \A id \in DOMAIN cameras : cameras[id] \in CameraRecords
         /\ \A id \in DOMAIN ssCameras : cameras[id].timer = ssCameras[id].timer
<1>1. CASE cameras = ssCameras
  BY <1>1 DEF MotionInv
<1>2. ASSUME NEW list \in Lists, cameras = Listed(list)
      PROVE  /\ DOMAIN ssCameras \subseteq DOMAIN cameras
             /\ DOMAIN cameras \subseteq Nat \ {0}
             /\ \A id \in DOMAIN cameras : cameras[id] \in CameraRecords
             /\ \A id \in DOMAIN ssCameras : cameras[id].timer = ssCameras[id].timer
  <2> DEFINE ids == {camera.id : camera \in list}
             NameOf(id) == (CHOOSE camera \in list : camera.id = id).name
             timer(id) == IF id \in DOMAIN ssCameras THEN ssCameras[id].timer ELSE "zero"
  <2>1. list \subseteq StationCameras
    BY DEF Lists
  <2>2. DOMAIN cameras = DOMAIN ssCameras \cup ids
    BY <1>2 DEF Listed
  <2>3. ids \subseteq Nat \ {0}
    BY <2>1, StationAssumption DEF StationAssumption
  <2>4. ASSUME NEW id \in ids PROVE NameOf(id) \in CameraNames
    BY <2>1, <2>4 DEF CameraNames
  <2>5. ASSUME NEW id \in DOMAIN ssCameras
        PROVE  /\ ssCameras[id] \in CameraRecords
               /\ ssCameras[id].timer \in {"zero", "none", "stopped", "runs"}
    BY <2>5 DEF MotionInv, CameraRecords
  <2>6. ASSUME NEW id \in DOMAIN cameras, id \in ids
        PROVE  cameras[id] = [name |-> NameOf(id), timer |-> timer(id)]
    BY <1>2, <2>6, <2>2 DEF Listed
  <2>7. ASSUME NEW id \in DOMAIN cameras, id \notin ids
        PROVE  id \in DOMAIN ssCameras /\ cameras[id] = ssCameras[id]
    BY <1>2, <2>7, <2>2 DEF Listed
  <2>8. ASSUME NEW id \in DOMAIN cameras PROVE cameras[id] \in CameraRecords
    <3>1. CASE id \in ids
      <4>1. timer(id) \in {"zero", "none", "stopped", "runs"}
        BY <2>5
      <4> HIDE DEF NameOf, timer
      <4> QED
        BY <3>1, <4>1, <2>4, <2>6 DEF CameraRecords
    <3>2. CASE id \notin ids
      BY <3>2, <2>5, <2>7
    <3> QED
      BY <3>1, <3>2
  <2>9. ASSUME NEW id \in DOMAIN ssCameras PROVE cameras[id].timer = ssCameras[id].timer
    <3>1. CASE id \in ids
      <4>1. cameras[id] = [name |-> NameOf(id), timer |-> timer(id)]
        BY <2>2, <2>6, <3>1
      <4> HIDE DEF NameOf
      <4> QED
        BY <4>1
    <3>2. CASE id \notin ids
      BY <2>2, <2>7, <3>2
    <3> QED
      BY <3>1, <3>2
  <2> QED
    BY <2>2, <2>3, <2>8, <2>9 DEF MotionInv
<1> QED
  BY <1>1, <1>2 DEF GetList

\* What an answer that counts events leaves of the keepers.
LEMMA CountedKeeps ==
  ASSUME MotionInv, NEW counts \in Replies, NEW finds \in [DOMAIN counts -> Ids \cup {NoCamera}],
         \A key \in DOMAIN counts : finds[key] \in KeepersAfter(key, Camera(key)),
         NEW key \in DOMAIN Counted(counts, finds)
  PROVE  /\ Counted(counts, finds)[key] \in KeeperRecords
         /\ Counted(counts, finds)[key].active =>
              /\ key \in DOMAIN ssKeepers /\ ssKeepers[key].active
              /\ ~ssCrashed => Counted(counts, finds)[key].camera = ssKeepers[key].camera
<1> DEFINE keeper == IF key \in DOMAIN ssKeepers THEN ssKeepers[key]
                     ELSE [camera |-> NoCamera, count |-> 0, old |-> 0, active |-> FALSE]
           now == Counted(counts, finds)[key]
<1>1. keeper \in KeeperRecords
  BY DEF MotionInv, KeeperRecords
<1>2. now = IF key \in DOMAIN counts
            THEN [keeper EXCEPT !.count = counts[key], !.camera = finds[key]] ELSE keeper
  BY DEF Counted
<1>3. key \in DOMAIN counts => counts[key] \in Nat
  <2>1. CASE counts = << >>
    BY <2>1
  <2>2. ASSUME NEW keys \in SUBSET StationCameras, counts \in [keys -> 1 .. MaxEvents]
        PROVE  key \in DOMAIN counts => counts[key] \in Nat
    BY <2>2, StationAssumption DEF StationAssumption
  <2> QED
    BY <2>1, <2>2 DEF Replies
<1>4. now.active = keeper.active /\ now \in KeeperRecords
  <2> HIDE DEF keeper, now
  <2> QED
    BY <1>1, <1>2, <1>3 DEF KeeperRecords
<1>5. keeper.active => key \in DOMAIN ssKeepers /\ ssKeepers[key].active
  OBVIOUS
<1>6. ASSUME keeper.active, ~ssCrashed PROVE now.camera = ssKeepers[key].camera
  <2>1. keeper = ssKeepers[key] /\ ssKeepers[key].camera \in DOMAIN ssCameras
    BY <1>5, <1>6 DEF MotionInv, StationMotionEnds
  <2>2. ssKeepers[key].camera # NoCamera /\ Camera(key) = ssKeepers[key].camera
    BY <2>1, <1>5, <1>6 DEF MotionInv, NoCamera, Camera
  <2>3. key \in DOMAIN counts => finds[key] = ssKeepers[key].camera
    BY <2>2 DEF KeepersAfter
  <2> HIDE DEF keeper, now
  <2> QED
    BY <1>1, <1>2, <2>1, <2>3 DEF KeeperRecords
<1> QED
  BY <1>4, <1>5, <1>6

LEMMA PollStep == ASSUME MotionInv, Poll PROVE MotionInv'
<1>1. /\ ~ssCrashed /\ UNCHANGED <<ssSettings, ssStarted, ssSid>>
      /\ ssAsked' = Asked("events", ssSid, ssSettings)
  BY DEF Poll
<1>2. SessionInv'
  BY <1>1 DEF Asked, MotionInv, SessionInv, SessionCurrent
<1>3. ASSUME NEW counts \in Replies,
             NEW finds \in {f \in [DOMAIN counts -> Ids \cup {NoCamera}] :
                              \A key \in DOMAIN counts : f[key] \in KeepersAfter(key, Camera(key))},
             NEW keepers, keepers = Counted(counts, finds),
             NEW fresh, fresh = {key \in DOMAIN keepers : keepers[key].count > keepers[key].old},
             ssCrashed' = \E key \in fresh : keepers[key].camera \notin DOMAIN ssCameras,
             ssKeepers' = [key \in DOMAIN keepers |->
                             [keepers[key] EXCEPT !.old = keepers[key].count,
                                                  !.active = @ \/ key \in fresh]],
             IF ssCrashed' THEN UNCHANGED <<ssCameras, ssStranger>>
             ELSE ssCameras' = [id \in DOMAIN ssCameras |->
                                  IF id \in TimersStarted(fresh, keepers)
                                  THEN [ssCameras[id] EXCEPT !.timer = "runs"] ELSE ssCameras[id]]
      PROVE  MotionInv'
  <2>1. ASSUME NEW key \in DOMAIN keepers
        PROVE  /\ keepers[key] \in KeeperRecords
               /\ keepers[key].active =>
                    /\ key \in DOMAIN ssKeepers /\ ssKeepers[key].active
                    /\ keepers[key].camera = ssKeepers[key].camera
    BY <1>1, <1>3, CountedKeeps
  <2>2. ASSUME NEW key \in DOMAIN keepers
        PROVE  /\ ssKeepers'[key] \in KeeperRecords
               /\ ssKeepers'[key].camera = keepers[key].camera
               /\ ssKeepers'[key].active = (keepers[key].active \/ key \in fresh)
    BY <1>3, <2>1 DEF KeeperRecords
  <2>3. ~ssStarted' => DOMAIN ssKeepers' = {} /\ ~ssCrashed'
    <3> SUFFICES ASSUME ~ssStarted PROVE DOMAIN keepers = {}
      BY <1>1, <1>3
    <3>1. DOMAIN ssKeepers = {} /\ counts = << >>
      BY DEF MotionInv, SessionInv, Replies
    <3> QED
      BY <1>3, <3>1 DEF Counted
  <2>4. /\ DOMAIN ssCameras' = DOMAIN ssCameras
        /\ \A id \in DOMAIN ssCameras : ssCameras'[id] \in CameraRecords
    <3>1. ASSUME NEW id \in DOMAIN ssCameras
          PROVE  /\ ssCameras[id] \in CameraRecords
                 /\ [ssCameras[id] EXCEPT !.timer = "runs"] \in CameraRecords
      BY <3>1 DEF MotionInv, CameraRecords
    <3>2. CASE ssCrashed'
      BY <1>3, <3>1, <3>2
    <3>3. CASE ~ssCrashed'
      BY <1>3, <3>1, <3>3
    <3> QED
      BY <3>2, <3>3
  <2>5. ASSUME ~ssCrashed', NEW key \in DOMAIN keepers, ssKeepers'[key].active
        PROVE  /\ ssKeepers'[key].camera \in DOMAIN ssCameras
               /\ ssCameras'[ssKeepers'[key].camera].timer # "stopped"
    <3> DEFINE id == keepers[key].camera
    <3>1. id \in DOMAIN ssCameras
      <4>1. CASE key \in fresh
        BY <1>3, <2>5, <4>1
      <4>2. CASE key \notin fresh
        BY <1>1, <2>1, <2>2, <2>5, <4>2 DEF MotionInv, StationMotionEnds
      <4> QED
        BY <4>1, <4>2
    <3>2. ssCameras'[id].timer # "stopped"
      <4>1. CASE id \in TimersStarted(fresh, keepers)
        <5>1. ssCameras'[id] = [ssCameras[id] EXCEPT !.timer = "runs"]
          BY <1>3, <2>5, <3>1, <4>1
        <5>2. ssCameras[id] \in CameraRecords
          BY <3>1 DEF MotionInv
        <5> QED
          BY <5>1, <5>2 DEF CameraRecords
      <4>2. CASE id \notin TimersStarted(fresh, keepers)
        <5>1. ssCameras'[id] = ssCameras[id]
          BY <1>3, <2>5, <3>1, <4>2
        <5>2. ssCameras[id].timer # "stopped"
          <6>1. CASE key \in fresh
            BY <4>2, <6>1 DEF TimersStarted
          <6>2. CASE key \notin fresh
            BY <1>1, <2>1, <2>2, <2>5, <6>2 DEF MotionInv, StationMotionEnds
          <6> QED
            BY <6>1, <6>2
        <5> QED
          BY <5>1, <5>2
      <4> QED
        BY <4>1, <4>2
    <3> QED
      BY <2>2, <3>1, <3>2
  <2>6. DOMAIN ssKeepers' = DOMAIN keepers
    BY <1>3
  <2>7. StationMotionEnds'
    BY <2>4, <2>5, <2>6 DEF StationMotionEnds
  <2> QED
    BY <1>2, <2>2, <2>3, <2>4, <2>6, <2>7 DEF MotionInv
<1> QED
  BY <1>3 DEF Poll

LEMMA ResetStep ==
  ASSUME MotionInv, NEW id \in DOMAIN ssCameras, MotionReset(id) PROVE MotionInv'
<1>1. ~ssCrashed /\ UNCHANGED <<ssSettings, ssStarted, ssSid, ssCrashed>>
  BY DEF MotionReset
<1>2. SessionInv'
  BY DEF MotionReset, MotionInv, SessionInv, SessionCurrent
<1>3. /\ DOMAIN ssCameras' = DOMAIN ssCameras
      /\ \A other \in DOMAIN ssCameras : ssCameras'[other] \in CameraRecords
      /\ \A other \in DOMAIN ssCameras \ {id} : ssCameras'[other] = ssCameras[other]
  BY DEF MotionReset, MotionInv, CameraRecords
<1>4. DOMAIN ssKeepers' = DOMAIN ssKeepers
  BY DEF MotionReset
<1>5. ASSUME NEW key \in DOMAIN ssKeepers
      PROVE  /\ ssKeepers'[key] \in KeeperRecords
             /\ ssKeepers'[key].active =>
                  ssKeepers'[key] = ssKeepers[key] /\ ssKeepers[key].camera # id
  <2>1. CASE ssKeepers[key].camera = id /\ ssKeepers[key].active
    <3>1. ssKeepers'[key] = [camera |-> id, count |-> 0, old |-> 0, active |-> FALSE]
      BY <2>1 DEF MotionReset
    <3>2. id \in Ids \cup {NoCamera}
      BY <2>1 DEF MotionInv, KeeperRecords
    <3> QED
      BY <3>1, <3>2 DEF KeeperRecords
  <2>2. CASE ~(ssKeepers[key].camera = id /\ ssKeepers[key].active)
    <3>1. ssKeepers'[key] = ssKeepers[key]
      BY <2>2 DEF MotionReset
    <3> QED
      BY <2>2, <3>1 DEF MotionInv
  <2> QED
    BY <2>1, <2>2
<1>6. StationMotionEnds'
  BY <1>1, <1>3, <1>4, <1>5 DEF MotionInv, StationMotionEnds
<1> QED
  BY <1>1, <1>2, <1>3, <1>4, <1>5, <1>6 DEF MotionInv

LEMMA MotionStep == MotionInv /\ [SSNext]_ssVars => MotionInv'
<1> SUFFICES ASSUME MotionInv, [SSNext]_ssVars PROVE MotionInv'
  OBVIOUS
<1>0. SessionInv'
  BY SessionStep DEF MotionInv
<1>1. CASE Configured
  BY <1>0, <1>1 DEF Configured, Settings, MotionInv, StationMotionEnds
<1>2. CASE StartDevice
  <2>1. PICK cameras \in GetList(ssSid'), timer \in {"stopped", "none"} :
          ssCameras' = [id \in DOMAIN cameras |-> [cameras[id] EXCEPT !.timer = timer]]
    BY <1>2 DEF StartDevice
  <2>2. /\ DOMAIN cameras \subseteq Nat \ {0}
        /\ \A id \in DOMAIN cameras : cameras[id] \in CameraRecords
    BY ListAdds
  <2>3. DOMAIN ssKeepers = {} /\ UNCHANGED <<ssKeepers, ssCrashed>> /\ ssStarted'
    BY <1>2 DEF StartDevice, MotionInv
  <2>4. \A id \in DOMAIN ssCameras' : ssCameras'[id] \in CameraRecords
    BY <2>1, <2>2 DEF CameraRecords
  <2> QED
    BY <1>0, <2>1, <2>2, <2>3, <2>4 DEF MotionInv, StationMotionEnds
<1>3. CASE GetCameraList
  <2>1. ssCameras' \in GetList(ssSid') /\ UNCHANGED <<ssStarted, ssKeepers, ssCrashed>>
    BY <1>3 DEF GetCameraList
  <2>2. /\ DOMAIN ssCameras \subseteq DOMAIN ssCameras'
        /\ DOMAIN ssCameras' \subseteq Nat \ {0}
        /\ \A id \in DOMAIN ssCameras' : ssCameras'[id] \in CameraRecords
        /\ \A id \in DOMAIN ssCameras : ssCameras'[id].timer = ssCameras[id].timer
    BY <2>1, ListAdds
  <2>3. StationMotionEnds'
    BY <2>1, <2>2 DEF MotionInv, StationMotionEnds
  <2> QED
    BY <1>0, <2>1, <2>2, <2>3 DEF MotionInv
<1>4. CASE Poll
  BY <1>4, PollStep
<1>5. CASE \E id \in DOMAIN ssCameras : MotionReset(id)
  BY <1>5, ResetStep
<1>6. CASE UNCHANGED ssVars
  BY <1>0, <1>6 DEF ssVars, MotionInv, StationMotionEnds
<1> QED
  BY <1>1, <1>2, <1>3, <1>4, <1>5, <1>6 DEF SSNext

\* A motion that is shown as active has a camera with a timer that will end it, through
\* renamings, new lists and failed requests (SurveillanceStation.c).
THEOREM StationMotionWillEnd == SSSpec => []StationMotionEnds
<1>1. MotionInv => StationMotionEnds
  BY DEF MotionInv
<1> QED
  BY <1>1, MotionInit, MotionStep, PTL DEF SSSpec

-----------------------------------------------------------------------------
\* While no save is cut the file is the last one saved, and the first cut finds it there
\* and makes it the backup.
FilesInv == LastSaveKept /\ cfgCut \in Nat

LEMMA FilesInit == CfgInit => FilesInv
  BY DEF CfgInit, FilesInv, LastSaveKept

LEMMA FilesStep == FilesInv /\ [CfgNext]_cfgVars => FilesInv'
<1> SUFFICES ASSUME FilesInv, [CfgNext]_cfgVars PROVE FilesInv'
  OBVIOUS
<1> USE DEF FilesInv, LastSaveKept
<1>1. ASSUME NEW e \in Editors, NEW line \in EditLines, Types(e, line) PROVE FilesInv'
  <2>1. UNCHANGED <<cfgFile, cfgBackup, cfgSaved, cfgCut>>
    BY <1>1 DEF Types
  <2> QED
    BY <2>1
<1>2. ASSUME NEW e \in Editors, TypesPipe(e) PROVE FilesInv'
  BY <1>2 DEF TypesPipe
<1>3. ASSUME NEW e \in Editors, Save(e) PROVE FilesInv'
  <2> DEFINE lines == Shown(cfgMade.scenes)
  <2>1. CASE cfgFile' = lines /\ cfgSaved' = lines /\ cfgCut' = 0
    BY <2>1
  <2>2. CASE cfgCut' = cfgCut + 1 /\ UNCHANGED cfgSaved
    <3>1. cfgBackup' = cfgFile
      BY <1>3 DEF Save, Kept
    <3> QED
      BY <2>2, <3>1
  <2> QED
    BY <1>3, <2>1, <2>2 DEF Save
<1>4. CASE Ended
  BY <1>4 DEF Ended
<1>5. CASE Restart
  BY <1>5 DEF Restart
<1>6. CASE UNCHANGED cfgVars
  BY <1>6 DEF cfgVars
<1> QED
  BY <1>1, <1>2, <1>3, <1>4, <1>5, <1>6 DEF CfgNext

\* What the last completed "copy running-config startup-config" wrote survives one save
\* that is cut short, in the backup (cmd_save_running_config).
THEOREM LastSaveIsKept == CfgSpec => []LastSaveKept
<1>1. FilesInv => LastSaveKept
  BY DEF FilesInv
<1> QED
  BY <1>1, FilesInit, FilesStep, PTL DEF CfgSpec

-----------------------------------------------------------------------------
\* A value that the last request brought has its time and its settings, or, for
\* precipitation, is absent; a cache that was never asked for misses every value.
Brought(value) ==
  \/ weatherCache[value] = [at |-> weatherAge, by |-> weatherAsked]
  \/ value = "precipitation" /\ weatherCache[value] = Nothing

WeatherInv ==
  /\ weatherNow \in Nat /\ weatherTimeout \in Nat /\ weatherAge \in Nat \cup {Never}
  /\ DOMAIN weatherCache = Values
  /\ weatherMissed \subseteq Values
  /\ weatherAge = Never => weatherMissed = Values
  /\ \A value \in Values \ weatherMissed : Brought(value)

LEMMA WeatherInitInv == WeatherInit => WeatherInv
  BY WeatherAssumption DEF WeatherInit, WeatherInv, WeatherAssumption, Never

\* What a refresh leaves: the invariant, and a cache that is current or of this moment.
LEMMA RefreshStep ==
  ASSUME WeatherInv, Refresh, UNCHANGED <<weatherNow, weatherSettings, weatherTimeout>>
  PROVE  /\ WeatherInv'
         /\ \/ weatherAge' = weatherNow
            \/ weatherAge' \in Nat /\ weatherNow - weatherAge' < weatherTimeout
<1> USE DEF WeatherInv
<1>1. CASE Current
  <2>1. UNCHANGED <<weatherAge, weatherAsked, weatherCache, weatherMissed>>
    BY <1>1 DEF Refresh
  <2>2. WeatherInv'
    BY <2>1 DEF Brought
  <2>3. weatherAge \in Nat /\ weatherNow - weatherAge < weatherTimeout
    BY <1>1 DEF Current
  <2> QED
    BY <2>1, <2>2, <2>3
<1>2. CASE ~Current
  <2>1. weatherAge' = weatherNow /\ weatherAsked' = weatherSettings
    BY <1>2 DEF Refresh
  <2>2. CASE weatherCache' = weatherCache /\ weatherMissed' = Values
    BY <2>1, <2>2
  <2>3. ASSUME NEW answer \in Answers, weatherCache' = ParseResponse(answer),
               weatherMissed' = (Values \ {"precipitation"}) \ answer
        PROVE  WeatherInv'
    <3>1. DOMAIN weatherCache' = Values /\ weatherMissed' \subseteq Values
      BY <2>3 DEF ParseResponse
    <3>2. ASSUME NEW value \in Values \ weatherMissed' PROVE Brought(value)'
      <4>1. value \in answer \/ value = "precipitation"
        BY <2>3, <3>2
      <4>2. \/ weatherCache'[value] = This
            \/ value = "precipitation" /\ weatherCache'[value] = Nothing
        BY <2>3, <4>1 DEF ParseResponse
      <4> QED
        BY <2>1, <4>2 DEF Brought, This
    <3>3. weatherAge' # Never
      BY <2>1 DEF Never
    <3> QED
      BY <2>1, <3>1, <3>2, <3>3
  <2>4. WeatherInv'
    BY <1>2, <2>2, <2>3 DEF Refresh
  <2> QED
    BY <2>1, <2>4
<1> QED
  BY <1>1, <1>2

LEMMA WeatherStep == WeatherInv /\ [WeatherNext]_weatherVars => WeatherInv'
<1> SUFFICES ASSUME WeatherInv, [WeatherNext]_weatherVars PROVE WeatherInv'
  OBVIOUS
<1>1. ASSUME NEW value \in Values, Read(value) PROVE WeatherInv'
  BY <1>1, RefreshStep DEF Read
<1>2. CASE ReadForecast
  BY <1>2, RefreshStep DEF ReadForecast
<1>3. CASE Configure
  BY <1>3, WeatherAssumption DEF Configure, WeatherInv, Brought, WeatherAssumption
<1>4. CASE Second
  BY <1>4 DEF Second, WeatherInv, Brought
<1>5. CASE UNCHANGED weatherVars
  BY <1>5 DEF weatherVars, WeatherInv, Brought
<1> QED
  BY <1>1, <1>2, <1>3, <1>4, <1>5 DEF WeatherNext

\* What a read of any step of the cache finds.
Fresh(read) ==
  \/ read.field \in weatherMissed' \cup {"forecast"}
  \/ read.from = Nothing /\ read.field = "precipitation"
  \/ /\ read.from.by = weatherAsked'
     /\ read.from.at = weatherNow \/ weatherNow - read.from.at < weatherTimeout

LEMMA ReadsFresh ==
  ASSUME WeatherInv, [WeatherNext]_weatherVars, NEW read \in weatherRead' \ weatherRead
  PROVE  Fresh(read)
<1>1. ASSUME NEW value \in Values, Read(value) PROVE Fresh(read)
  <2>1. read.field = value /\ read.from = weatherCache'[value]
    BY <1>1 DEF Read
  <2>2. WeatherInv' /\ \/ weatherAge' = weatherNow
                       \/ weatherAge' \in Nat /\ weatherNow - weatherAge' < weatherTimeout
    BY <1>1, RefreshStep DEF Read
  <2>3. CASE value \in weatherMissed'
    BY <2>1, <2>3 DEF Fresh
  <2>4. CASE value \notin weatherMissed'
    <3>1. Brought(value)'
      BY <2>2, <2>4 DEF WeatherInv
    <3> QED
      BY <2>1, <2>2, <3>1 DEF Brought, Fresh
  <2> QED
    BY <2>3, <2>4
<1>2. CASE ReadForecast
  BY <1>2 DEF ReadForecast, Fresh
<1>3. CASE Configure \/ Second \/ UNCHANGED weatherVars
  BY <1>3 DEF Configure, Second, weatherVars
<1> QED
  BY <1>1, <1>2, <1>3 DEF WeatherNext

\* A value that is read from the cache was asked for with the settings of the last request,
\* less than the timeout ago (weather_cache_refresh and the Get methods).
THEOREM WeatherIsCurrent == WeatherSpec => WeatherCurrent
<1>1. WeatherInv /\ [WeatherNext]_weatherVars =>
        [\A read \in weatherRead' \ weatherRead :
           \/ read.field \in weatherMissed' \cup {"forecast"}
           \/ read.from = Nothing /\ read.field = "precipitation"
           \/ /\ read.from.by = weatherAsked'
              /\ read.from.at = weatherNow \/ weatherNow - read.from.at < weatherTimeout]_weatherVars
  BY ReadsFresh DEF Fresh
<1> QED
  BY <1>1, WeatherInitInv, WeatherStep, PTL DEF WeatherSpec, WeatherCurrent
-----------------------------------------------------------------------------
\* Lists that lose elements (ListWalk).

\* A set of natural numbers has a least element.
LEMMA LeastNat ==
  ASSUME NEW S \in SUBSET Nat, S # {}
  PROVE  Min(S) \in S /\ \A m \in S : Min(S) <= m
<1> DEFINE R == {ss \in Nat \X Nat : ss[1] < ss[2]}
<1>1. IsWellFoundedOn(R, Nat)
  BY NatLessThanWellFounded DEF OpToRel
<1>2. PICK x \in S : \A y \in S : ~(<<y, x>> \in R)
  <2> HIDE DEF R
  <2> QED
    BY <1>1, WFMin
<1>3. ASSUME NEW m \in S PROVE x <= m
  <2>1. <<m, x>> \in Nat \X Nat /\ <<m, x>>[1] = m /\ <<m, x>>[2] = x
    OBVIOUS
  <2>2. ~(m < x)
    BY <1>2, <2>1
  <2> QED
    BY <2>2
<1> QED
  BY <1>3 DEF Min

\* t is what is left of s, in its order, when the elements at the positions in kept stay.
IsLeft(t, s, kept) ==
  \E f \in [DOMAIN t -> DOMAIN s] :
    /\ \A k, l \in DOMAIN t : k < l => f[k] < f[l]
    /\ \A k \in DOMAIN t : t[k] = s[f[k]] /\ f[k] \in kept
    /\ \A i \in kept : \E k \in DOMAIN t : f[k] = i

\* The elements of a set of positions have ranks 1, 2, ...
LEMMA Ranks ==
  ASSUME NEW n \in Nat, NEW K \in SUBSET (1 .. n)
  PROVE  /\ Cardinality(K) \in Nat
         /\ \E rank \in [K -> 1 .. Cardinality(K)] :
              /\ \A i \in K : rank[i] = Cardinality({j \in K : j <= i})
              /\ \A i, j \in K : i < j => rank[i] < rank[j]
              /\ \A k \in 1 .. Cardinality(K) : \E i \in K : rank[i] = k
<1> DEFINE upto(i) == {j \in K : j <= i}
           rank == [i \in K |-> Cardinality(upto(i))]
<1>1. IsFiniteSet(K) /\ Cardinality(K) \in Nat
  <2>1. 1 \in Int /\ n \in Int
    OBVIOUS
  <2>2. IsFiniteSet(1 .. n)
    BY <2>1, FS_Interval
  <2>3. IsFiniteSet(K)
    BY <2>2, FS_Subset
  <2> QED
    BY <2>3, FS_CardinalityType
<1>2. ASSUME NEW i \in K
      PROVE  /\ IsFiniteSet(upto(i)) /\ Cardinality(upto(i)) \in 1 .. Cardinality(K)
  <2>1. upto(i) \in SUBSET K /\ i \in upto(i)
    OBVIOUS
  <2>2. IsFiniteSet(upto(i)) /\ Cardinality(upto(i)) <= Cardinality(K)
    BY <1>1, <2>1, FS_Subset
  <2>3. Cardinality(upto(i)) \in Nat /\ Cardinality(upto(i)) # 0
    BY <2>1, <2>2, FS_CardinalityType, FS_EmptySet
  <2> QED
    BY <1>1, <2>2, <2>3
<1>3. rank \in [K -> 1 .. Cardinality(K)] /\ \A i \in K : rank[i] = Cardinality(upto(i))
  BY <1>2
<1>4. ASSUME NEW i \in K, NEW j \in K, i < j PROVE rank[i] < rank[j]
  <2>1. upto(i) \in SUBSET upto(j) /\ j \in upto(j) /\ j \notin upto(i)
    <3>1. K \subseteq Int /\ i \in Int /\ j \in Int
      OBVIOUS
    <3>2. \A k \in K : k <= i => k <= j
      BY <1>4, <3>1
    <3>3. upto(i) \in SUBSET upto(j)
      BY <3>2
    <3>4. j \in upto(j)
      BY <3>1
    <3>5. j \notin upto(i)
      BY <1>4, <3>1
    <3> QED
      BY <3>3, <3>4, <3>5
  <2>2. /\ Cardinality(upto(i)) # Cardinality(upto(j))
        /\ Cardinality(upto(i)) <= Cardinality(upto(j))
    BY <1>2, <2>1, FS_Subset
  <2> QED
    BY <1>1, <1>2, <1>3, <2>2
<1>5. \A i, j \in K : rank[i] = rank[j] => i = j
  <2> SUFFICES ASSUME NEW i \in K, NEW j \in K, rank[i] = rank[j] PROVE i = j
    OBVIOUS
  <2>1. i \in Int /\ j \in Int /\ rank[i] \in Int /\ rank[j] \in Int
    BY <1>1, <1>3
  <2>2. ~(i < j) /\ ~(j < i)
    BY <1>4, <2>1
  <2> QED
    BY <2>1, <2>2
<1>6. \A k \in 1 .. Cardinality(K) : \E i \in K : rank[i] = k
  <2>1. rank \in Injection(K, 1 .. Cardinality(K))
    BY <1>3, <1>5 DEF Injection, IsInjective
  <2>2. IsFiniteSet(1 .. Cardinality(K)) /\ Cardinality(1 .. Cardinality(K)) = Cardinality(K)
    BY <1>1, FS_Interval
  <2>3. rank \in Surjection(K, 1 .. Cardinality(K))
    BY <2>1, <2>2, FS_Injection
  <2> QED
    BY <2>3 DEF Surjection
<1> HIDE DEF rank
<1> QED
  BY <1>1, <1>3, <1>4, <1>6

LEMMA PickedLeft ==
  ASSUME NEW S, NEW s \in Seq(S), NEW kept \in SUBSET DOMAIN s
  PROVE  Picked(s, kept) \in Seq(S) /\ IsLeft(Picked(s, kept), s, kept)
<1> DEFINE n == Cardinality(kept)
           nth(k) == CHOOSE i \in kept : Cardinality({j \in kept : j <= i}) = k
           at == [k \in 1 .. n |-> nth(k)]
           t == Picked(s, kept)
<1>1. Len(s) \in Nat /\ DOMAIN s = 1 .. Len(s) /\ \A i \in DOMAIN s : s[i] \in S
  BY LenProperties
<1>2. kept \in SUBSET (1 .. Len(s))
  BY <1>1
<1>3. n \in Nat
  BY <1>1, <1>2, Ranks
<1>4. PICK rank \in [kept -> 1 .. n] :
        /\ \A i \in kept : rank[i] = Cardinality({j \in kept : j <= i})
        /\ \A i, j \in kept : i < j => rank[i] < rank[j]
        /\ \A k \in 1 .. n : \E i \in kept : rank[i] = k
  BY <1>1, <1>2, Ranks
<1>5. \A i \in kept : rank[i] = Cardinality({j \in kept : j <= i})
  BY <1>4
<1>6. t = [k \in 1 .. n |-> s[at[k]]]
  BY DEF Picked
<1>7. \A k \in 1 .. n : at[k] \in kept /\ rank[at[k]] = k
  <2> SUFFICES ASSUME NEW k \in 1 .. n PROVE at[k] \in kept /\ rank[at[k]] = k
    OBVIOUS
  <2>1. \E i \in kept : Cardinality({j \in kept : j <= i}) = k
    BY <1>4, <1>5
  <2>2. at[k] \in kept /\ Cardinality({j \in kept : j <= at[k]}) = k
    BY <2>1
  <2> HIDE DEF at
  <2> QED
    BY <1>5, <2>2
<1>8. at \in [1 .. n -> kept]
  <2>1. \A k \in 1 .. n : nth(k) \in kept
    BY <1>7
  <2> HIDE DEF nth
  <2> QED
    BY <2>1
<1> HIDE DEF at, n
<1>9. t \in [1 .. n -> S]
  BY <1>1, <1>6, <1>7
<1>10. t \in Seq(S) /\ DOMAIN t = 1 .. n
  BY <1>3, <1>9, SeqDef
<1>11. at \in [DOMAIN t -> DOMAIN s]
  BY <1>7, <1>8, <1>10
<1>12. \A i \in kept : \E k \in DOMAIN t : at[k] = i
  <2> SUFFICES ASSUME NEW i \in kept PROVE at[rank[i]] = i /\ rank[i] \in DOMAIN t
    OBVIOUS
  <2> QED
    <3>1. rank[i] \in 1 .. n
      BY <1>4
    <3>2. at[rank[i]] \in kept /\ rank[at[rank[i]]] = rank[i]
      BY <1>7, <3>1
    <3>3. ~(at[rank[i]] < i) /\ ~(i < at[rank[i]])
      BY <1>3, <1>4, <3>1, <3>2
    <3> QED
      BY <1>2, <1>10, <3>1, <3>2, <3>3
<1>13. \A k \in DOMAIN t : t[k] = s[at[k]] /\ at[k] \in kept
  BY <1>6, <1>7, <1>10
<1>14. ASSUME NEW k \in DOMAIN t, NEW l \in DOMAIN t, k < l PROVE at[k] < at[l]
  <2>1. /\ at[k] \in kept /\ at[l] \in kept /\ at[k] \in Int /\ at[l] \in Int
        /\ rank[at[k]] = k /\ rank[at[l]] = l
    BY <1>2, <1>7, <1>10
  <2>2. ~(at[l] < at[k]) /\ at[l] # at[k]
    BY <1>3, <1>4, <1>10, <1>14, <2>1
  <2> QED
    BY <2>1, <2>2
<1> HIDE DEF t
<1>15. IsLeft(t, s, kept)
  BY <1>11, <1>12, <1>13, <1>14 DEF IsLeft
<1> QED
  BY <1>10, <1>15 DEF t

\* A loop that removes from the list it walks removes no other elements.
LEMMA PurgedLeft ==
  ASSUME NEW S, NEW s \in Seq(S), NEW gone
  PROVE  /\ Purged(s, gone) \in Seq(S)
         /\ \E kept \in SUBSET DOMAIN s : /\ DOMAIN s \ gone \subseteq kept
                                          /\ IsLeft(Purged(s, gone), s, kept)
<1> DEFINE kept == {i \in DOMAIN s : i > Reached(s, gone) \/ i \notin gone}
<1>1. kept \in SUBSET DOMAIN s /\ DOMAIN s \ gone \subseteq kept
  OBVIOUS
<1>2. Purged(s, gone) = Picked(s, kept)
  BY DEF Purged
<1> HIDE DEF kept
<1>3. Picked(s, kept) \in Seq(S) /\ IsLeft(Picked(s, kept), s, kept)
  BY <1>1, PickedLeft
<1> QED
  BY <1>1, <1>2, <1>3

LEMMA RemoveAtLeft ==
  ASSUME NEW S, NEW s \in Seq(S), NEW i \in DOMAIN s
  PROVE  /\ RemoveAt(s, i) \in Seq(S) /\ IsLeft(RemoveAt(s, i), s, DOMAIN s \ {i})
         /\ Len(RemoveAt(s, i)) = Len(s) - 1
         /\ \A k \in 1 .. Len(s) - 1 : RemoveAt(s, i)[k] = IF k < i THEN s[k] ELSE s[k + 1]
<1> DEFINE n == Len(s)
           a == SubSeq(s, 1, i - 1)
           b == SubSeq(s, i + 1, n)
           t == a \o b
           f == [k \in 1 .. (n - 1) |-> IF k < i THEN k ELSE k + 1]
<1>1. n \in Nat /\ DOMAIN s = 1 .. n /\ i \in 1 .. n /\ \A k \in 1 .. n : s[k] \in S
  BY LenProperties
<1>2. a \in Seq(S) /\ Len(a) = i - 1 /\ \A k \in 1 .. i - 1 : a[k] = s[k]
  <2>1. /\ a \in Seq(S) /\ Len(a) = (IF 1 <= i - 1 THEN i - 1 - 1 + 1 ELSE 0)
        /\ \A k \in 1 .. i - 1 - 1 + 1 : a[k] = s[1 + k - 1]
    <3>1. 1 \in Int /\ i - 1 \in Int /\ \A k \in 1 .. i - 1 : s[k] \in S
      BY <1>1
    <3> QED
      BY <3>1, SubSeqProperties
  <2> HIDE DEF a
  <2> QED
    BY <1>1, <2>1
<1>3. b \in Seq(S) /\ Len(b) = n - i /\ \A k \in 1 .. n - i : b[k] = s[i + k]
  <2>1. /\ b \in Seq(S) /\ Len(b) = (IF i + 1 <= n THEN n - (i + 1) + 1 ELSE 0)
        /\ \A k \in 1 .. n - (i + 1) + 1 : b[k] = s[(i + 1) + k - 1]
    <3>1. i + 1 \in Int /\ n \in Int /\ \A k \in (i + 1) .. n : s[k] \in S
      BY <1>1
    <3> QED
      BY <3>1, SubSeqProperties
  <2> HIDE DEF b, n
  <2>2. Len(b) = n - i
    BY <1>1, <2>1
  <2>3. ASSUME NEW k \in 1 .. n - i PROVE b[k] = s[i + k]
    <3>1. k \in 1 .. n - (i + 1) + 1 /\ (i + 1) + k - 1 = i + k
      BY <1>1
    <3> QED
      BY <2>1, <3>1
  <2> QED
    BY <2>1, <2>2, <2>3
<1> HIDE DEF a, b, n
<1>4. t \in Seq(S) /\ Len(t) = n - 1
      /\ \A k \in 1 .. n - 1 : t[k] = IF k <= i - 1 THEN a[k] ELSE b[k - (i - 1)]
  <2>1. /\ t \in Seq(S) /\ Len(t) = Len(a) + Len(b)
        /\ \A k \in 1 .. Len(a) + Len(b) : t[k] = IF k <= Len(a) THEN a[k] ELSE b[k - Len(a)]
    BY <1>2, <1>3, ConcatProperties
  <2>2. Len(a) + Len(b) = n - 1
    BY <1>1, <1>2, <1>3
  <2> QED
    BY <1>2, <2>1, <2>2
<1>5. DOMAIN t = 1 .. n - 1
  BY <1>4, LenProperties
<1> HIDE DEF t
<1>6. \A k \in 1 .. n - 1 : t[k] = s[f[k]] /\ f[k] \in DOMAIN s \ {i}
  <2> SUFFICES ASSUME NEW k \in 1 .. n - 1 PROVE t[k] = s[f[k]] /\ f[k] \in DOMAIN s \ {i}
    OBVIOUS
  <2>1. CASE k < i
    <3>1. k \in 1 .. i - 1
      BY <1>1, <2>1
    <3> QED
      BY <1>1, <1>2, <1>4, <2>1, <3>1
  <2>2. CASE ~(k < i)
    <3>1. k - (i - 1) \in 1 .. n - i /\ i + (k - (i - 1)) = k + 1
      BY <1>1, <2>2
    <3> QED
      BY <1>1, <1>3, <1>4, <2>2, <3>1
  <2> QED
    BY <2>1, <2>2
<1>7. \A k, l \in 1 .. n - 1 : k < l => f[k] < f[l]
  BY <1>1
<1>8. \A j \in DOMAIN s \ {i} : \E k \in 1 .. n - 1 : f[k] = j
  <2> SUFFICES ASSUME NEW j \in DOMAIN s \ {i} PROVE \E k \in 1 .. n - 1 : f[k] = j
    OBVIOUS
  <2>1. CASE j < i
    <3>1. j \in 1 .. n - 1 /\ f[j] = j
      BY <1>1, <2>1
    <3> QED
      BY <3>1
  <2>2. CASE ~(j < i)
    <3>1. j - 1 \in 1 .. n - 1 /\ f[j - 1] = j
      BY <1>1, <2>2
    <3> QED
      BY <3>1
  <2> QED
    BY <2>1, <2>2
<1>9. IsLeft(t, s, DOMAIN s \ {i})
  <2>1. f \in [DOMAIN t -> DOMAIN s]
    BY <1>5, <1>6
  <2> HIDE DEF f
  <2>2. \A k, l \in DOMAIN t : k < l => f[k] < f[l]
    BY <1>5, <1>7
  <2>3. \A k \in DOMAIN t : t[k] = s[f[k]] /\ f[k] \in DOMAIN s \ {i}
    BY <1>5, <1>6
  <2>4. \A j \in DOMAIN s \ {i} : \E k \in DOMAIN t : f[k] = j
    BY <1>5, <1>8
  <2> QED
    BY <2>1, <2>2, <2>3, <2>4 DEF IsLeft
<1>10. \A k \in 1 .. n - 1 : t[k] = IF k < i THEN s[k] ELSE s[k + 1]
  BY <1>6
<1> QED
  BY <1>4, <1>9, <1>10 DEF t, RemoveAt, a, b, n

\* The first of the elements at hits goes, and no other.
LEMMA WithoutFirstLeft ==
  ASSUME NEW S, NEW s \in Seq(S), NEW hits \in SUBSET DOMAIN s
  PROVE  /\ WithoutFirst(s, hits) \in Seq(S)
         /\ hits = {} => WithoutFirst(s, hits) = s
         /\ hits # {} => /\ Min(hits) \in hits
                         /\ IsLeft(WithoutFirst(s, hits), s, DOMAIN s \ {Min(hits)})
<1>1. hits \in SUBSET Nat
  BY LenProperties
<1>2. hits # {} => Min(hits) \in hits
  BY <1>1, LeastNat
<1>3. hits # {} => RemoveAt(s, Min(hits)) \in Seq(S)
                   /\ IsLeft(RemoveAt(s, Min(hits)), s, DOMAIN s \ {Min(hits)})
  BY <1>2, RemoveAtLeft
<1> QED
  BY <1>2, <1>3 DEF WithoutFirst
-----------------------------------------------------------------------------
\* The named timers.
TimerInfos == [target : TimerTargets, id : Nat \cup {NoTimer}]

\* A timer that runs is in the list once and in the pump once, under one number.
TimerInv ==
  /\ timerId \in Nat
  /\ timerList \in Seq(TimerInfos)
  /\ \A i \in DOMAIN timerList : timerList[i].id <= timerId
  /\ \A i, j \in DOMAIN timerList :
       timerList[i].id = timerList[j].id /\ timerList[i].id # NoTimer => i = j
  /\ \A entry \in timerPump : /\ entry.id = entry.timer.id /\ entry.id # NoTimer
                              /\ \E i \in DOMAIN timerList : timerList[i] = entry.timer
  /\ \A entry, other \in timerPump : entry.id = other.id => entry = other
  /\ \A i \in DOMAIN timerList :
       timerList[i].id # NoTimer => \E entry \in timerPump : entry.timer = timerList[i]

LEMMA TimerInitInv == TimerInit => TimerInv
<1> SUFFICES ASSUME TimerInit PROVE TimerInv
  OBVIOUS
<1>1. timerList = << >> /\ timerPump = {} /\ timerId = 0
  BY DEF TimerInit
<1>2. timerList \in Seq(TimerInfos) /\ DOMAIN timerList = {}
  BY <1>1
<1> QED
  BY <1>1, <1>2 DEF TimerInv

\* The numbers of distinct timers of the list differ.
LEMMA NumbersOfTimers ==
  ASSUME TimerInv
  PROVE  /\ \A i \in DOMAIN timerList : /\ timerList[i] \in TimerInfos
                                        /\ timerList[i].id \in Nat \cup {NoTimer}
         /\ DOMAIN timerList = 1 .. Len(timerList) /\ Len(timerList) \in Nat
<1>1. timerList \in Seq(TimerInfos)
  BY DEF TimerInv
<1>2. /\ Len(timerList) \in Nat /\ DOMAIN timerList = 1 .. Len(timerList)
      /\ \A i \in DOMAIN timerList : timerList[i] \in TimerInfos
  BY <1>1, LenProperties
<1> QED
  BY <1>2 DEF TimerInfos

\* Timers that leave the list and the pump together leave the others as they were.
LEMMA TimersLeft ==
  ASSUME TimerInv, NEW kept \in SUBSET DOMAIN timerList,
         timerList' \in Seq(TimerInfos), IsLeft(timerList', timerList, kept),
         timerPump' = {entry \in timerPump : \E i \in kept : timerList[i].id = entry.id},
         UNCHANGED timerId
  PROVE  TimerInv'
<1>1. PICK f \in [DOMAIN timerList' -> DOMAIN timerList] :
        /\ \A k, l \in DOMAIN timerList' : k < l => f[k] < f[l]
        /\ \A k \in DOMAIN timerList' : timerList'[k] = timerList[f[k]] /\ f[k] \in kept
        /\ \A i \in kept : \E k \in DOMAIN timerList' : f[k] = i
  BY DEF IsLeft
<1>2. \A i \in DOMAIN timerList' : timerList'[i].id <= timerId'
  BY <1>1 DEF TimerInv
<1>3. ASSUME NEW i \in DOMAIN timerList', NEW j \in DOMAIN timerList',
             timerList'[i].id = timerList'[j].id, timerList'[i].id # NoTimer
      PROVE  i = j
  <2>1. f[i] = f[j]
    BY <1>1, <1>3 DEF TimerInv
  <2>2. i \in Int /\ j \in Int /\ f[i] \in Int /\ f[j] \in Int
    BY NumbersOfTimers, LenProperties
  <2> QED
    BY <1>1, <2>1, <2>2
<1>4. ASSUME NEW entry \in timerPump'
      PROVE  /\ entry.id = entry.timer.id /\ entry.id # NoTimer
             /\ \E k \in DOMAIN timerList' : timerList'[k] = entry.timer
  <2>1. entry \in timerPump /\ \E i \in kept : timerList[i].id = entry.id
    OBVIOUS
  <2>2. PICK i \in kept : timerList[i].id = entry.id
    BY <2>1
  <2>3. PICK j \in DOMAIN timerList : timerList[j] = entry.timer
    BY <2>1 DEF TimerInv
  <2>4. entry.id = entry.timer.id /\ entry.id # NoTimer
    BY <2>1 DEF TimerInv
  <2>5. i = j
    BY <2>2, <2>3, <2>4 DEF TimerInv
  <2> QED
    BY <1>1, <2>3, <2>4, <2>5
<1>5. \A entry, other \in timerPump' : entry.id = other.id => entry = other
  BY DEF TimerInv
<1>6. ASSUME NEW k \in DOMAIN timerList', timerList'[k].id # NoTimer
      PROVE  \E entry \in timerPump' : entry.timer = timerList'[k]
  <2>1. f[k] \in kept /\ timerList'[k] = timerList[f[k]]
    BY <1>1
  <2>2. PICK entry \in timerPump : entry.timer = timerList[f[k]]
    BY <1>6, <2>1 DEF TimerInv
  <2>3. entry.id = timerList[f[k]].id
    BY <2>2 DEF TimerInv
  <2> QED
    BY <2>1, <2>2, <2>3
<1>7. timerId' \in Nat
  BY DEF TimerInv
<1> QED
  BY <1>2, <1>3, <1>4, <1>5, <1>6, <1>7 DEF TimerInv

\* timer_stop.
LEMMA StopKeepsTimers ==
  ASSUME TimerInv, NEW name, Stop(name), UNCHANGED timerId PROVE TimerInv'
<1> DEFINE left == Purged(timerList, Named(name))
           gone == {timerList[i].id : i \in Named(name)} \ {left[i].id : i \in DOMAIN left}
<1>1. timerList' = left /\ timerPump' = {entry \in timerPump : entry.id \notin gone}
  BY DEF Stop
<1>2. timerList \in Seq(TimerInfos)
  BY DEF TimerInv
<1>3. left \in Seq(TimerInfos)
  BY <1>2, PurgedLeft
<1>4. PICK kept \in SUBSET DOMAIN timerList :
        DOMAIN timerList \ Named(name) \subseteq kept /\ IsLeft(left, timerList, kept)
  BY <1>2, PurgedLeft
<1>5. PICK f \in [DOMAIN left -> DOMAIN timerList] :
        /\ \A k \in DOMAIN left : left[k] = timerList[f[k]] /\ f[k] \in kept
        /\ \A i \in kept : \E k \in DOMAIN left : f[k] = i
  BY <1>4 DEF IsLeft
<1> HIDE DEF left
<1>6. ASSUME NEW entry \in timerPump
      PROVE  entry.id \notin gone <=> \E i \in kept : timerList[i].id = entry.id
  <2>1. PICK i \in DOMAIN timerList : timerList[i] = entry.timer
    BY DEF TimerInv
  <2>2. timerList[i].id = entry.id /\ entry.id # NoTimer
    BY <2>1 DEF TimerInv
  <2>3. \A j \in DOMAIN timerList : timerList[j].id = entry.id => j = i
    BY <2>2 DEF TimerInv
  <2>4. ASSUME i \in kept PROVE entry.id \notin gone
    <3>1. PICK k \in DOMAIN left : f[k] = i
      BY <1>5, <2>4
    <3>2. left[k].id = entry.id
      BY <1>5, <2>2, <3>1
    <3> QED
      BY <3>2
  <2>5. ASSUME i \notin kept PROVE entry.id \in gone
    <3>1. i \in Named(name)
      BY <1>4, <2>5
    <3>2. \A k \in DOMAIN left : left[k].id # entry.id
      BY <1>5, <2>3, <2>5
    <3> QED
      BY <2>2, <3>1, <3>2
  <2> QED
    BY <2>2, <2>3, <2>4, <2>5
<1>7. timerPump' = {entry \in timerPump : \E i \in kept : timerList[i].id = entry.id}
  <2> HIDE DEF gone
  <2> QED
    BY <1>1, <1>6
<1> QED
  BY <1>1, <1>3, <1>4, <1>7, TimersLeft

\* add_timer_event: the new timer has a number of its own, or none.
LEMMA StartKeepsTimers ==
  ASSUME TimerInv, NEW target \in TimerTargets, NEW single, Start(target, single)
  PROVE  TimerInv'
<1>1. CASE ~timerEnabled
  <2>1. UNCHANGED <<timerList, timerPump, timerId>>
    BY <1>1 DEF Start
  <2> QED
    BY <2>1 DEF TimerInv
<1>2. CASE timerEnabled
  <2>1. PICK id \in {timerId', NoTimer} :
          /\ timerPump' = timerPump \cup
               {[id |-> i, single |-> single, timer |-> [target |-> target, id |-> id]]
                  : i \in {id} \ {NoTimer}}
          /\ timerList' = <<[target |-> target, id |-> id]>> \o timerList
    BY <1>2 DEF Start, Started
  <2>2. timerId \in Nat /\ timerId' = timerId + 1
    BY <1>2 DEF Start, Started, TimerInv
  <2> DEFINE timer == [target |-> target, id |-> id]
             old == timerList
             n == Len(timerList)
  <2>3. /\ \A i \in DOMAIN old : old[i] \in TimerInfos /\ old[i].id \in Nat \cup {NoTimer}
        /\ DOMAIN old = 1 .. n /\ n \in Nat /\ old \in Seq(TimerInfos)
        /\ \A i \in DOMAIN old : old[i].id <= timerId
    BY NumbersOfTimers DEF TimerInv
  <2>4. timer.id = id /\ id \in Nat \cup {NoTimer} /\ timer \in TimerInfos
    BY <2>1, <2>2 DEF NoTimer, TimerInfos
  <2>5. \A i \in DOMAIN old : old[i].id = id => id = NoTimer
    BY <2>1, <2>2, <2>3 DEF NoTimer
  <2> HIDE DEF timer, n
  <2>6. /\ timerList' \in Seq(TimerInfos) /\ DOMAIN timerList' = 1 .. n + 1
        /\ timerList'[1] = timer /\ \A i \in 1 .. n : timerList'[i + 1] = old[i]
    <3>1. <<timer>> \in Seq(TimerInfos) /\ Len(<<timer>>) = 1 /\ <<timer>>[1] = timer
      BY <2>4
    <3>2. timerList' = <<timer>> \o old
      BY <2>1 DEF timer
    <3>3. /\ timerList' \in Seq(TimerInfos) /\ Len(timerList') = 1 + n
          /\ \A i \in 1 .. 1 + n : timerList'[i] = IF i <= 1 THEN <<timer>>[i] ELSE old[i - 1]
      BY <2>3, <3>1, <3>2, ConcatProperties DEF n
    <3>4. DOMAIN timerList' = 1 .. n + 1
      BY <2>3, <3>3, LenProperties
    <3> QED
      BY <2>3, <3>1, <3>3, <3>4
  <2>7. \A k \in DOMAIN timerList' :
          \/ k = 1 /\ timerList'[k] = timer
          \/ k - 1 \in DOMAIN old /\ timerList'[k] = old[k - 1]
    <3> SUFFICES ASSUME NEW k \in 1 .. n + 1, k # 1
                 PROVE  k - 1 \in 1 .. n /\ timerList'[k] = old[k - 1]
      BY <2>3, <2>6
    <3>1. k - 1 \in 1 .. n /\ (k - 1) + 1 = k
      BY <2>3
    <3> QED
      BY <2>6, <3>1
  <2>8. \A i \in DOMAIN timerList' : timerList'[i].id <= timerId'
    <3>1. \A i \in DOMAIN old : old[i].id <= timerId'
      BY <2>2, <2>3 DEF NoTimer
    <3>2. timer.id <= timerId'
      BY <2>1, <2>2, <2>4 DEF NoTimer
    <3> QED
      BY <2>7, <3>1, <3>2
  <2>9. \A i, j \in DOMAIN timerList' :
          timerList'[i].id = timerList'[j].id /\ timerList'[i].id # NoTimer => i = j
    <3> SUFFICES ASSUME NEW i \in DOMAIN timerList', NEW j \in DOMAIN timerList',
                        timerList'[i].id = timerList'[j].id, timerList'[i].id # NoTimer
                 PROVE  i = j
      OBVIOUS
    <3>1. CASE i = 1 /\ j = 1
      BY <3>1
    <3>2. CASE i # 1 /\ j # 1
      <4>1. /\ i - 1 \in DOMAIN old /\ timerList'[i] = old[i - 1]
            /\ j - 1 \in DOMAIN old /\ timerList'[j] = old[j - 1]
        BY <2>7, <3>2
      <4>2. i - 1 = j - 1
        BY <4>1 DEF TimerInv
      <4> QED
        BY <2>6, <2>3, <4>2
    <3>3. CASE i = 1 /\ j # 1
      <4>1. timerList'[i] = timer /\ j - 1 \in DOMAIN old /\ timerList'[j] = old[j - 1]
        BY <2>6, <2>7, <3>3
      <4> QED
        BY <2>4, <2>5, <4>1
    <3>4. CASE i # 1 /\ j = 1
      <4>1. timerList'[j] = timer /\ i - 1 \in DOMAIN old /\ timerList'[i] = old[i - 1]
        BY <2>6, <2>7, <3>4
      <4> QED
        BY <2>4, <2>5, <4>1
    <3> QED
      BY <3>1, <3>2, <3>3, <3>4
  <2>10. \A entry \in timerPump' :
           \/ entry \in timerPump
           \/ /\ entry.id = id /\ id # NoTimer /\ entry.timer = timer
              /\ entry = [id |-> id, single |-> single, timer |-> timer]
    BY <2>1 DEF timer
  <2>11. ASSUME NEW entry \in timerPump'
         PROVE  /\ entry.id = entry.timer.id /\ entry.id # NoTimer
                /\ \E i \in DOMAIN timerList' : timerList'[i] = entry.timer
    <3>1. CASE entry \in timerPump
      <4>1. PICK i \in DOMAIN old : old[i] = entry.timer
        BY <3>1 DEF TimerInv
      <4>2. i + 1 \in DOMAIN timerList' /\ timerList'[i + 1] = entry.timer
        BY <2>3, <2>6, <4>1
      <4> QED
        BY <3>1, <4>2 DEF TimerInv
    <3>2. CASE entry \notin timerPump
      <4>1. 1 \in DOMAIN timerList'
        BY <2>3, <2>6
      <4> QED
        BY <2>4, <2>6, <2>10, <3>2, <4>1
    <3> QED
      BY <3>1, <3>2
  <2>12. ASSUME NEW entry \in timerPump PROVE entry.id # id
    <3>1. PICK i \in DOMAIN old : old[i] = entry.timer
      BY DEF TimerInv
    <3>2. old[i].id = entry.id /\ entry.id # NoTimer
      BY <3>1 DEF TimerInv
    <3> QED
      BY <2>5, <3>2
  <2>13. \A entry, other \in timerPump' : entry.id = other.id => entry = other
    BY <2>10, <2>12 DEF TimerInv
  <2>14. ASSUME NEW k \in DOMAIN timerList', timerList'[k].id # NoTimer
         PROVE  \E entry \in timerPump' : entry.timer = timerList'[k]
    <3>1. CASE timerList'[k] = timer
      <4>1. [id |-> id, single |-> single, timer |-> timer] \in timerPump'
        BY <2>1, <2>4, <2>14, <3>1 DEF timer
      <4> QED
        BY <3>1, <4>1
    <3>2. CASE timerList'[k] # timer
      <4>1. k - 1 \in DOMAIN old /\ timerList'[k] = old[k - 1]
        BY <2>7, <3>2
      <4>2. PICK entry \in timerPump : entry.timer = old[k - 1]
        BY <2>14, <4>1 DEF TimerInv
      <4> QED
        BY <2>1, <4>1, <4>2
    <3> QED
      BY <3>1, <3>2
  <2>15. timerId' \in Nat
    BY <2>2
  <2> QED
    BY <2>6, <2>8, <2>9, <2>11, <2>13, <2>14, <2>15 DEF TimerInv
<1> QED
  BY <1>1, <1>2

\* on_timer_expired.
LEMMA ExpireKeepsTimers ==
  ASSUME TimerInv, NEW entry \in timerPump, Expire(entry) PROVE TimerInv'
<1>1. CASE ~entry.single
  <2>1. UNCHANGED <<timerList, timerPump, timerId>>
    BY <1>1 DEF Expire, Expired
  <2> QED
    BY <2>1 DEF TimerInv
<1>2. CASE entry.single
  <2> DEFINE hits == {i \in DOMAIN timerList : timerList[i].id = entry.id}
  <2>1. /\ timerPump' = timerPump \ {entry} /\ timerId' = timerId
        /\ timerList' = WithoutFirst(timerList, hits)
    BY <1>2 DEF Expire, Expired
  <2>2. PICK i \in DOMAIN timerList : timerList[i] = entry.timer
    BY DEF TimerInv
  <2>3. timerList[i].id = entry.id /\ entry.id # NoTimer
    BY <2>2 DEF TimerInv
  <2>4. \A j \in DOMAIN timerList : timerList[j].id = entry.id => j = i
    BY <2>3 DEF TimerInv
  <2>5. hits # {} /\ hits \in SUBSET DOMAIN timerList /\ \A j \in hits : j = i
    BY <2>3, <2>4
  <2> HIDE DEF hits
  <2>6. timerList \in Seq(TimerInfos)
    BY DEF TimerInv
  <2>7. /\ timerList' \in Seq(TimerInfos) /\ Min(hits) \in hits
        /\ IsLeft(timerList', timerList, DOMAIN timerList \ {Min(hits)})
    BY <2>1, <2>5, <2>6, WithoutFirstLeft
  <2> DEFINE kept == DOMAIN timerList \ {i}
  <2>8. IsLeft(timerList', timerList, kept)
    BY <2>5, <2>7
  <2>9. ASSUME NEW other \in timerPump
        PROVE  other # entry <=> \E j \in kept : timerList[j].id = other.id
    <3>1. PICK j \in DOMAIN timerList : timerList[j] = other.timer
      BY DEF TimerInv
    <3>2. timerList[j].id = other.id
      BY <3>1 DEF TimerInv
    <3>3. other = entry => \A k \in kept : timerList[k].id # other.id
      BY <2>4
    <3>4. other # entry => other.id # entry.id
      BY DEF TimerInv
    <3>5. other # entry => j \in kept
      BY <2>3, <3>2, <3>4
    <3> QED
      BY <3>2, <3>3, <3>5
  <2>10. timerPump' = {other \in timerPump : \E j \in kept : timerList[j].id = other.id}
    <3> HIDE DEF kept
    <3> QED
      BY <2>1, <2>9
  <2>11. kept \in SUBSET DOMAIN timerList
    OBVIOUS
  <2> HIDE DEF kept
  <2> QED
    BY <2>1, <2>7, <2>8, <2>10, <2>11, TimersLeft
<1> QED
  BY <1>1, <1>2

LEMMA TimerStep == TimerInv /\ [TimerNext]_timerVars => TimerInv'
<1> SUFFICES ASSUME TimerInv, [TimerNext]_timerVars PROVE TimerInv'
  OBVIOUS
<1>1. ASSUME NEW target \in TimerTargets, NEW single \in BOOLEAN, CallStart(target, single)
      PROVE  TimerInv'
  BY <1>1, StartKeepsTimers DEF CallStart
<1>2. ASSUME NEW target \in TimerTargets, NEW single \in BOOLEAN, NEW timeout \in Timeouts,
             SetTimer(target, single, timeout)
      PROVE  TimerInv'
  BY <1>2, StartKeepsTimers DEF SetTimer
<1>3. ASSUME NEW target \in TimerTargets, NEW single \in BOOLEAN, NEW timeout \in Timeouts,
             DelTimer(target, single, timeout)
      PROVE  TimerInv'
  <2>1. timerId' = timerId /\ (Stop(target.name) \/ UNCHANGED <<timerList, timerPump>>)
    BY <1>3 DEF DelTimer
  <2>2. CASE UNCHANGED <<timerList, timerPump>>
    BY <2>1, <2>2 DEF TimerInv
  <2> QED
    BY <2>1, <2>2, StopKeepsTimers
<1>4. ASSUME NEW target \in TimerTargets, CallStop(target.name) PROVE TimerInv'
  <2>1. Stop(target.name) /\ timerId' = timerId
    BY <1>4 DEF CallStop
  <2> QED
    BY <2>1, StopKeepsTimers
<1>5. ASSUME NEW on \in BOOLEAN, EnableTimers(on) PROVE TimerInv'
  BY <1>5 DEF EnableTimers, TimerInv
<1>6. ASSUME NEW entry \in timerPump, Expire(entry) PROVE TimerInv'
  BY <1>6, ExpireKeepsTimers
<1>7. CASE UNCHANGED timerVars
  BY <1>7 DEF timerVars, TimerInv
<1> QED
  BY <1>1, <1>2, <1>3, <1>4, <1>5, <1>6, <1>7 DEF TimerNext

\* Nothing that was stopped or has fired keeps its entry in the pump, no entry calls back
\* with a timer the list has freed, and a timer of the list is in the pump unless the pump
\* was full, whatever methods, commands and expirations came before (Timer.c, timer_cli.c).
THEOREM TimersAreListed == TimerSpec => []TimersListed
<1>1. TimerInv => TimersListed
  <2> SUFFICES ASSUME TimerInv PROVE TimersListed
    OBVIOUS
  <2>1. ASSUME NEW entry \in timerPump
        PROVE  Cardinality({i \in DOMAIN timerList : timerList[i] = entry.timer}) = 1
    <3>1. PICK i \in DOMAIN timerList : timerList[i] = entry.timer
      BY DEF TimerInv
    <3>2. timerList[i].id # NoTimer
      BY <3>1 DEF TimerInv
    <3>3. \A j \in DOMAIN timerList : timerList[j] = entry.timer => j = i
      BY <3>1, <3>2 DEF TimerInv
    <3>4. {j \in DOMAIN timerList : timerList[j] = entry.timer} = {i}
      BY <3>1, <3>3
    <3> QED
      BY <3>4, FS_Singleton
  <2> QED
    BY <2>1 DEF TimersListed, TimerInv
<1> QED
  BY <1>1, TimerInitInv, TimerStep, PTL DEF TimerSpec

-----------------------------------------------------------------------------
\* The lists of stack.c and vector.c, by their pointers.
Cells == [next : Nat, prev : Nat]

\* The cells in held are linked in that order.
Chained(cells, held, made) ==
  /\ made \in Nat /\ held \in Seq(1 .. made)
  /\ DOMAIN cells \subseteq 1 .. made /\ cells \in [DOMAIN cells -> Cells]
  /\ \A i \in 1 .. Len(held) : held[i] \in DOMAIN cells
  /\ \A i, j \in 1 .. Len(held) : held[i] = held[j] => i = j
  /\ \A i \in 1 .. Len(held) :
       cells[held[i]].next = IF i < Len(held) THEN held[i + 1] ELSE NULL
  /\ \A i \in 1 .. Len(held) : i > 1 => cells[held[i]].prev = held[i - 1]

\* A list by its pointers.  What prev of the first cell of a vector points to is never a
\* cell that is allocated: a removal in the middle cannot take the first cell for one and
\* go unnoticed.
IsList(is, cells, held, made, count, first, last) ==
  /\ Chained(cells, held, made)
  /\ count = Len(held) /\ last \in Nat
  /\ count > 0 => /\ first = held[1] /\ last = held[count]
                  /\ is # "stack" => cells[first].prev \in (0 .. made) \ DOMAIN cells

\* The first cell of a vector has a cell to point back to, which is freed, just when that
\* was taken out before it.
OrphanInv ==
  listIs = "vector" /\ listCount > 0 => (listOrphan <=> listCells[listFirst].prev # NULL)

ListInv ==
  /\ listIs \in {"stack", "vector"} /\ listLost \in BOOLEAN /\ listLost = listMisused
  /\ ~listLost => /\ IsList(listIs, listCells, listHeld, listMade, listCount, listFirst, listLast)
                  /\ OrphanInv

LEMMA LinkNext ==
  ASSUME NEW D, NEW cells \in [D -> Cells], NEW c, NEW to \in Nat
  PROVE  /\ Link(cells, c, "next", to) \in [D -> Cells]
         /\ \A d \in D : /\ Link(cells, c, "next", to)[d].next = IF d = c THEN to ELSE cells[d].next
                         /\ Link(cells, c, "next", to)[d].prev = cells[d].prev
  BY DEF Link, Cells

LEMMA LinkPrev ==
  ASSUME NEW D, NEW cells \in [D -> Cells], NEW c, NEW to \in Nat
  PROVE  /\ Link(cells, c, "prev", to) \in [D -> Cells]
         /\ \A d \in D : /\ Link(cells, c, "prev", to)[d].prev = IF d = c THEN to ELSE cells[d].prev
                         /\ Link(cells, c, "prev", to)[d].next = cells[d].next
  BY DEF Link, Cells

\* A cell leaves the chain.
Unlinks(after, left, cells, held, p) ==
  /\ Len(left) = Len(held) - 1
  /\ \A k \in 1 .. Len(held) - 1 : left[k] = IF k < p THEN held[k] ELSE held[k + 1]
  /\ DOMAIN after \subseteq DOMAIN cells /\ DOMAIN cells \ {held[p]} \subseteq DOMAIN after
  /\ after \in [DOMAIN after -> Cells]
  /\ \A k \in 1 .. Len(held) : k # p =>
       /\ after[held[k]].next = IF k = p - 1 THEN cells[held[p]].next ELSE cells[held[k]].next
       /\ k > 1 /\ k # p + 1 => after[held[k]].prev = cells[held[k]].prev
       /\ k > 2 /\ k = p + 1 => after[held[k]].prev = held[p - 1]

LEMMA Unlinked ==
  ASSUME NEW cells, NEW held, NEW made, Chained(cells, held, made),
         NEW p \in 1 .. Len(held), NEW left, NEW after,
         left \in Seq(1 .. made), Unlinks(after, left, cells, held, p)
  PROVE  Chained(after, left, made)
<1> DEFINE n == Len(held)
           at(k) == IF k < p THEN k ELSE k + 1
<1>unlinks.
      /\ Len(left) = Len(held) - 1
      /\ \A k \in 1 .. Len(held) - 1 : left[k] = IF k < p THEN held[k] ELSE held[k + 1]
      /\ DOMAIN after \subseteq DOMAIN cells /\ DOMAIN cells \ {held[p]} \subseteq DOMAIN after
      /\ after \in [DOMAIN after -> Cells]
  BY DEF Unlinks
<1>after. \A k \in 1 .. Len(held) : k # p =>
       /\ after[held[k]].next = IF k = p - 1 THEN cells[held[p]].next ELSE cells[held[k]].next
       /\ k > 1 /\ k # p + 1 => after[held[k]].prev = cells[held[k]].prev
       /\ k > 2 /\ k = p + 1 => after[held[k]].prev = held[p - 1]
  BY DEF Unlinks
<1>1. n \in Nat /\ p \in 1 .. n /\ Len(left) = n - 1
  BY <1>unlinks, LenProperties DEF Chained
<1> HIDE DEF n
<1>2. \A k \in 1 .. n - 1 : at(k) \in 1 .. n /\ at(k) # p /\ left[k] = held[at(k)]
  BY <1>1, <1>unlinks DEF n
<1>3. /\ \A i \in 1 .. n : held[i] \in DOMAIN cells
      /\ \A i, j \in 1 .. n : held[i] = held[j] => i = j
      /\ \A i \in 1 .. n : cells[held[i]].next = IF i < n THEN held[i + 1] ELSE NULL
      /\ \A i \in 1 .. n : i > 1 => cells[held[i]].prev = held[i - 1]
  BY DEF Chained, n
<1>4. \A k \in 1 .. n - 1 : left[k] \in DOMAIN after
  BY <1>1, <1>2, <1>3, <1>unlinks
<1>5. \A i, j \in 1 .. n - 1 : left[i] = left[j] => i = j
  <2>1. \A i, j \in 1 .. n - 1 : at(i) = at(j) => i = j
    BY <1>1
  <2> HIDE DEF at
  <2> QED
    BY <1>2, <1>3, <2>1
<1>6. ASSUME NEW k \in 1 .. n - 1
      PROVE  after[left[k]].next = IF k < n - 1 THEN left[k + 1] ELSE NULL
  <2>1. CASE k = p - 1
    <3>1. left[k] = held[k] /\ k \in 1 .. n /\ k # p
      BY <1>1, <1>2, <2>1
    <3>2. after[left[k]].next = cells[held[p]].next
      BY <1>1, <1>after, <2>1, <3>1 DEF n
    <3>3. cells[held[p]].next = IF p < n THEN held[p + 1] ELSE NULL
      BY <1>1, <1>3
    <3>4. p < n => k + 1 \in 1 .. n - 1 /\ left[k + 1] = held[p + 1] /\ k < n - 1
      BY <1>1, <1>2, <2>1
    <3>5. p = n => ~(k < n - 1)
      BY <1>1, <2>1
    <3> QED
      BY <1>1, <3>2, <3>3, <3>4, <3>5
  <2>2. CASE k # p - 1
    <3>1. at(k) \in 1 .. n /\ at(k) # p /\ at(k) # p - 1 /\ left[k] = held[at(k)]
      BY <1>1, <1>2, <2>2
    <3>2. at(k) < n <=> k < n - 1
      BY <1>1, <2>2
    <3>3. k < n - 1 => k + 1 \in 1 .. n - 1 /\ at(k + 1) = at(k) + 1
      BY <1>1, <2>2
    <3>4. k < n - 1 => left[k + 1] = held[at(k) + 1]
      BY <1>2, <3>3
    <3> HIDE DEF at
    <3>5. after[left[k]].next = IF at(k) < n THEN held[at(k) + 1] ELSE NULL
      BY <1>3, <1>after, <3>1 DEF n
    <3> QED
      BY <3>2, <3>4, <3>5
  <2> QED
    BY <2>1, <2>2
<1>7. ASSUME NEW k \in 1 .. n - 1, k > 1
      PROVE  after[left[k]].prev = left[k - 1]
  <2>1. CASE k = p
    <3>1. left[k] = held[p + 1] /\ left[k - 1] = held[p - 1] /\ p + 1 \in 1 .. n /\ p + 1 > 2
      BY <1>1, <1>2, <1>7, <2>1
    <3> DEFINE i == p + 1
    <3>2. i \in 1 .. Len(held) /\ i # p /\ i > 2
      BY <1>1, <3>1 DEF n
    <3>3. i > 2 /\ i = p + 1 => after[held[i]].prev = held[p - 1]
      BY ONLY <1>after, <3>2
    <3> QED
      BY <3>1, <3>2, <3>3
  <2>2. CASE k # p
    <3>1. /\ at(k) \in 1 .. n /\ at(k) # p /\ at(k) > 1 /\ at(k) # p + 1 /\ left[k] = held[at(k)]
          /\ k - 1 \in 1 .. n - 1 /\ at(k - 1) = at(k) - 1
      BY <1>1, <1>2, <1>7, <2>2
    <3>2. left[k - 1] = held[at(k) - 1]
      BY <1>2, <3>1
    <3> HIDE DEF at
    <3> QED
      BY <1>3, <1>after, <3>1, <3>2 DEF n
  <2> QED
    BY <2>1, <2>2
<1>8. /\ made \in Nat /\ DOMAIN after \subseteq 1 .. made
  BY <1>unlinks DEF Chained
<1> QED
  BY <1>1, <1>4, <1>5, <1>6, <1>7, <1>8, <1>unlinks DEF Chained

\* A new cell is linked behind the last one.
LinksBack(after, cells, held, new) ==
  /\ after \in [DOMAIN cells \cup {new} -> Cells]
  /\ after[new].next = NULL
  /\ held # << >> => after[new].prev = held[Len(held)]
  /\ \A k \in 1 .. Len(held) :
       /\ after[held[k]].next = IF k = Len(held) THEN new ELSE cells[held[k]].next
       /\ after[held[k]].prev = cells[held[k]].prev

LEMMA LinkedBack ==
  ASSUME NEW cells, NEW held, NEW made, Chained(cells, held, made), NEW after,
         LinksBack(after, cells, held, made + 1)
  PROVE  Chained(after, Append(held, made + 1), made + 1)
<1> DEFINE n == Len(held)
           new == Append(held, made + 1)
<1>after.
         /\ after \in [DOMAIN cells \cup {made + 1} -> Cells]
         /\ after[made + 1].next = NULL /\ (held # << >> => after[made + 1].prev = held[Len(held)])
         /\ \A k \in 1 .. Len(held) :
              /\ after[held[k]].next = IF k = Len(held) THEN made + 1 ELSE cells[held[k]].next
              /\ after[held[k]].prev = cells[held[k]].prev
  BY DEF LinksBack
<1>1. /\ n \in Nat /\ made \in Nat /\ held \in Seq(1 .. made + 1) /\ (n > 0 => held # << >>)
  <2>1. n \in Nat /\ made \in Nat /\ held \in Seq(1 .. made) /\ \A k \in 1 .. n : held[k] \in 1 .. made
    BY LenProperties DEF Chained
  <2>2. held \in Seq(1 .. made + 1)
    BY <2>1, SeqDef, LenProperties
  <2> QED
    BY <2>1, <2>2, EmptySeq
<1>2. /\ new \in Seq(1 .. made + 1) /\ Len(new) = n + 1 /\ new[n + 1] = made + 1
      /\ \A k \in 1 .. n : new[k] = held[k]
  <2>1. made + 1 \in 1 .. made + 1
    BY <1>1
  <2> QED
    BY <1>1, <2>1, AppendProperties
<1> HIDE DEF n, new
<1>3. /\ \A i \in 1 .. n : held[i] \in DOMAIN cells /\ held[i] \in 1 .. made
      /\ DOMAIN cells \subseteq 1 .. made
      /\ \A i, j \in 1 .. n : held[i] = held[j] => i = j
      /\ \A i \in 1 .. n : cells[held[i]].next = IF i < n THEN held[i + 1] ELSE NULL
      /\ \A i \in 1 .. n : i > 1 => cells[held[i]].prev = held[i - 1]
  BY DEF Chained, n
<1>4. DOMAIN after = DOMAIN cells \cup {made + 1} /\ DOMAIN after \subseteq 1 .. made + 1
  BY <1>after, <1>1, <1>3
<1>5. \A k \in 1 .. n + 1 : k = n + 1 \/ k \in 1 .. n
  BY <1>1
<1>6. \A k \in 1 .. n + 1 : new[k] \in DOMAIN after
  BY <1>2, <1>3, <1>4, <1>5
<1>7. ASSUME NEW i \in 1 .. n + 1, NEW j \in 1 .. n + 1, new[i] = new[j] PROVE i = j
  <2>1. \A k \in 1 .. n : new[k] # made + 1
    BY <1>1, <1>2, <1>3
  <2> QED
    BY <1>2, <1>3, <1>5, <1>7, <2>1
<1>8. ASSUME NEW k \in 1 .. n + 1
      PROVE  /\ after[new[k]].next = IF k < n + 1 THEN new[k + 1] ELSE NULL
             /\ k > 1 => after[new[k]].prev = new[k - 1]
  <2>1. CASE k = n + 1
    <3>1. k > 1 => new[k - 1] = held[n] /\ n > 0
      BY <1>1, <1>2, <2>1
    <3> QED
      BY <1>after, <1>1, <1>2, <2>1, <3>1 DEF n
  <2>2. CASE k \in 1 .. n
    <3>0. k < n + 1 /\ (k < n => k + 1 \in 1 .. n) /\ (k > 1 => k - 1 \in 1 .. n)
      BY <1>1, <2>2
    <3>1. k < n + 1 /\ new[k] = held[k] /\ (k < n => k + 1 \in 1 .. n) /\ (k > 1 => k - 1 \in 1 .. n)
      BY <1>2, <2>2, <3>0
    <3>2. /\ k < n => new[k + 1] = held[k + 1]
          /\ k = n => new[k + 1] = made + 1
          /\ k > 1 => new[k - 1] = held[k - 1]
      BY <1>2, <3>1
    <3>3. after[new[k]].next = IF k = n THEN made + 1 ELSE held[k + 1]
      <4>1. after[held[k]].next = IF k = n THEN made + 1 ELSE cells[held[k]].next
        BY <1>after, <2>2 DEF n
      <4>2. cells[held[k]].next = IF k < n THEN held[k + 1] ELSE NULL
        BY <1>3, <2>2
      <4>3. k # n => k < n
        BY <1>1, <2>2
      <4> QED
        BY <3>1, <4>1, <4>2, <4>3
    <3>4. k > 1 => after[new[k]].prev = held[k - 1]
      <4>1. after[held[k]].prev = cells[held[k]].prev
        BY <1>after, <2>2 DEF n
      <4>2. k > 1 => cells[held[k]].prev = held[k - 1]
        BY <1>3, <2>2
      <4> QED
        BY <3>1, <4>1, <4>2
    <3> QED
      BY <1>1, <2>2, <3>1, <3>2, <3>3, <3>4
  <2> QED
    BY <1>5, <2>1, <2>2
<1>9. made + 1 \in Nat /\ after \in [DOMAIN after -> Cells]
  BY <1>after, <1>1, <1>4
<1> QED
  BY <1>2, <1>4, <1>6, <1>7, <1>8, <1>9 DEF Chained, new

\* A new cell is linked before the first one.
LinksFront(after, cells, held, new) ==
  /\ after \in [DOMAIN cells \cup {new} -> Cells]
  /\ after[new].next = IF held = << >> THEN NULL ELSE held[1]
  /\ \A k \in 1 .. Len(held) :
       /\ after[held[k]].next = cells[held[k]].next
       /\ after[held[k]].prev = IF k = 1 THEN new ELSE cells[held[k]].prev

LEMMA LinkedFront ==
  ASSUME NEW cells, NEW held, NEW made, Chained(cells, held, made), NEW after,
         LinksFront(after, cells, held, made + 1)
  PROVE  /\ Chained(after, <<made + 1>> \o held, made + 1)
         /\ Len(<<made + 1>> \o held) = Len(held) + 1 /\ (<<made + 1>> \o held)[1] = made + 1
         /\ held # << >> =>
              (<<made + 1>> \o held)[Len(held) + 1] = held[Len(held)]
<1> DEFINE n == Len(held)
           new == <<made + 1>> \o held
<1>after.
         /\ after \in [DOMAIN cells \cup {made + 1} -> Cells]
         /\ after[made + 1].next = IF held = << >> THEN NULL ELSE held[1]
         /\ \A k \in 1 .. Len(held) :
              /\ after[held[k]].next = cells[held[k]].next
              /\ after[held[k]].prev = IF k = 1 THEN made + 1 ELSE cells[held[k]].prev
  BY DEF LinksFront
<1>1. /\ n \in Nat /\ made \in Nat /\ held \in Seq(1 .. made + 1) /\ (n > 0 <=> held # << >>)
  <2>1. n \in Nat /\ made \in Nat /\ held \in Seq(1 .. made) /\ \A k \in 1 .. n : held[k] \in 1 .. made
    BY LenProperties DEF Chained
  <2>2. held \in Seq(1 .. made + 1)
    BY <2>1, SeqDef, LenProperties
  <2> QED
    BY <2>1, <2>2, EmptySeq
<1>2. /\ new \in Seq(1 .. made + 1) /\ Len(new) = n + 1 /\ new[1] = made + 1
      /\ \A k \in 2 .. n + 1 : new[k] = held[k - 1]
  <2>1. <<made + 1>> \in Seq(1 .. made + 1) /\ Len(<<made + 1>>) = 1 /\ <<made + 1>>[1] = made + 1
    BY <1>1
  <2> DEFINE one == <<made + 1>>
  <2> HIDE DEF one
  <2>2. /\ one \o held \in Seq(1 .. made + 1) /\ Len(one \o held) = 1 + n
        /\ \A k \in 1 .. 1 + n : (one \o held)[k] = IF k <= 1 THEN one[k] ELSE held[k - 1]
    BY <1>1, <2>1, ConcatProperties DEF one
  <2>3. new = one \o held
    BY DEF one
  <2> HIDE DEF new
  <2>4. one[1] = made + 1
    BY <2>1 DEF one
  <2> QED
    BY <1>1, <2>2, <2>3, <2>4
<1> HIDE DEF n, new
<1>3. /\ \A i \in 1 .. n : held[i] \in DOMAIN cells /\ held[i] \in 1 .. made
      /\ DOMAIN cells \subseteq 1 .. made
      /\ \A i, j \in 1 .. n : held[i] = held[j] => i = j
      /\ \A i \in 1 .. n : cells[held[i]].next = IF i < n THEN held[i + 1] ELSE NULL
      /\ \A i \in 1 .. n : i > 1 => cells[held[i]].prev = held[i - 1]
  BY DEF Chained, n
<1>4. DOMAIN after = DOMAIN cells \cup {made + 1} /\ DOMAIN after \subseteq 1 .. made + 1
  BY <1>after, <1>1, <1>3
<1>5. \A k \in 1 .. n + 1 : k = 1 \/ (k - 1 \in 1 .. n /\ k \in 2 .. n + 1)
  BY <1>1
<1>6. \A k \in 1 .. n + 1 : new[k] \in DOMAIN after
  BY <1>2, <1>3, <1>4, <1>5
<1>7. ASSUME NEW i \in 1 .. n + 1, NEW j \in 1 .. n + 1, new[i] = new[j] PROVE i = j
  <2>1. \A k \in 2 .. n + 1 : new[k] # made + 1
    BY <1>1, <1>2, <1>3, <1>5
  <2>2. CASE i = 1 \/ j = 1
    BY <1>2, <1>5, <1>7, <2>1, <2>2
  <2>3. CASE i # 1 /\ j # 1
    <3>1. i - 1 = j - 1
      BY <1>2, <1>3, <1>5, <1>7, <2>3
    <3> QED
      BY <3>1
  <2> QED
    BY <2>2, <2>3
<1>8. ASSUME NEW k \in 1 .. n + 1
      PROVE  /\ after[new[k]].next = IF k < n + 1 THEN new[k + 1] ELSE NULL
             /\ k > 1 => after[new[k]].prev = new[k - 1]
  <2>1. CASE k = 1
    <3>1. n > 0 => new[2] = held[1]
      BY <1>1, <1>2
    <3> QED
      BY <1>after, <1>1, <1>2, <2>1, <3>1
  <2>2. CASE k # 1
    <3> DEFINE i == k - 1
    <3>1. /\ i \in 1 .. n /\ i + 1 = k /\ k \in 2 .. n + 1
          /\ (i < n => k + 1 \in 2 .. n + 1 /\ (k + 1) - 1 = k) /\ (i > 1 => i \in 2 .. n + 1)
      BY <1>1, <1>5, <2>2
    <3> HIDE DEF i
    <3>2. /\ new[k] = held[i]
          /\ i < n => new[k + 1] = held[k]
          /\ i = 1 => new[i] = made + 1
          /\ i > 1 => new[i] = held[i - 1]
      BY <1>2, <3>1 DEF i
    <3>3. after[new[k]].next = IF i < n THEN held[k] ELSE NULL
      BY <1>after, <1>3, <3>1, <3>2 DEF n
    <3>4. after[new[k]].prev = IF i = 1 THEN made + 1 ELSE held[i - 1]
      BY <1>after, <1>1, <1>3, <3>1, <3>2 DEF n
    <3>5. k - 1 = i /\ (k < n + 1 <=> i < n)
      BY <1>1, <3>1
    <3>6. i = 1 \/ i > 1
      BY <3>1
    <3> QED
      BY <3>2, <3>3, <3>4, <3>5, <3>6
  <2> QED
    BY <2>1, <2>2
<1>9. made + 1 \in Nat /\ after \in [DOMAIN after -> Cells]
  BY <1>after, <1>1, <1>4
<1>10. Chained(after, new, made + 1)
  BY <1>2, <1>4, <1>6, <1>7, <1>8, <1>9 DEF Chained
<1>11. n > 0 => new[n + 1] = held[n]
  BY <1>1, <1>2
<1> QED
  BY <1>1, <1>2, <1>10, <1>11 DEF n, new
-----------------------------------------------------------------------------
\* What a list is, spelled out: the facts that the proofs below start from.
LEMMA ListFacts ==
  ASSUME NEW is, NEW cells, NEW held, NEW made, NEW count, NEW first, NEW last,
         IsList(is, cells, held, made, count, first, last)
  PROVE  /\ made \in Nat /\ count \in Nat /\ count = Len(held) /\ held \in Seq(1 .. made)
         /\ DOMAIN cells \subseteq 1 .. made /\ cells \in [DOMAIN cells -> Cells]
         /\ \A i \in 1 .. count : held[i] \in DOMAIN cells /\ held[i] \in 1 .. made
         /\ \A i, j \in 1 .. count : held[i] = held[j] => i = j
         /\ \A i \in 1 .. count : cells[held[i]].next = IF i < count THEN held[i + 1] ELSE NULL
         /\ \A i \in 1 .. count : i > 1 => cells[held[i]].prev = held[i - 1]
         /\ \A c \in DOMAIN cells : cells[c].next \in Nat /\ cells[c].prev \in Nat
<1>1. \A c \in DOMAIN cells : cells[c] \in Cells
  BY DEF IsList, Chained
<1>2. \A c \in DOMAIN cells : cells[c].next \in Nat /\ cells[c].prev \in Nat
  BY <1>1 DEF Cells
<1> QED
  BY <1>2, LenProperties DEF IsList, Chained

\* The first cell is freed.
LEMMA FrontPopped ==
  ASSUME NEW is, NEW cells, NEW held, NEW made, NEW count, NEW first, NEW last,
         IsList(is, cells, held, made, count, first, last), count > 0,
         NEW left \in Seq(1 .. made), Len(left) = count - 1,
         \A k \in 1 .. count - 1 : left[k] = held[k + 1],
         NEW next, next = cells[first].next,
         NEW after, after = IF is = "stack" THEN Link(Freed(cells, first), next, "prev", NULL)
                            ELSE Freed(cells, first)
  PROVE  IsList(is, after, left, made, count - 1, next, IF count = 1 THEN next ELSE last)
<1> DEFINE D == DOMAIN cells \ {first}
           freed == Freed(cells, first)
<1>num. made \in Nat /\ count \in Nat /\ count = Len(held)
  BY ListFacts
<1>cells. DOMAIN cells \subseteq 1 .. made /\ cells \in [DOMAIN cells -> Cells]
  BY ListFacts
<1>held. /\ \A i \in 1 .. count : held[i] \in DOMAIN cells /\ held[i] \in 1 .. made
         /\ \A i, j \in 1 .. count : held[i] = held[j] => i = j
  BY ListFacts
<1>next. \A i \in 1 .. count : cells[held[i]].next = IF i < count THEN held[i + 1] ELSE NULL
  BY ListFacts
<1>prev. \A i \in 1 .. count : i > 1 => cells[held[i]].prev = held[i - 1]
  BY ListFacts
<1>2. first = held[1] /\ last = held[count] /\ 1 \in 1 .. count /\ 1 \in 1 .. Len(held) /\ last \in Nat
  BY <1>num DEF IsList
<1>3. next = IF 1 < count THEN held[2] ELSE NULL
  <2>1. 1 \in 1 .. count /\ 1 + 1 = 2
    BY <1>2
  <2>2. cells[held[1]].next = IF 1 < count THEN held[1 + 1] ELSE NULL
    BY <1>next, <2>1
  <2> QED
    BY <1>2, <2>1, <2>2
<1>4. freed \in [D -> Cells] /\ \A d \in D : freed[d] = cells[d]
  <2> DEFINE E == DOMAIN cells
  <2>1. cells \in [E -> Cells]
    BY <1>cells
  <2> HIDE DEF E
  <2>2. /\ Freed(cells, first) \in [E \ {first} -> Cells]
        /\ \A d \in E \ {first} : Freed(cells, first)[d] = cells[d]
    BY <2>1 DEF Freed
  <2> QED
    BY <2>2 DEF E
<1> HIDE DEF D, freed
<1>5. /\ after \in [D -> Cells]
      /\ \A d \in D : /\ after[d].next = cells[d].next
                      /\ d # next \/ is # "stack" => after[d].prev = cells[d].prev
  <2>1. /\ Link(freed, next, "prev", NULL) \in [D -> Cells]
        /\ \A d \in D : /\ Link(freed, next, "prev", NULL)[d].prev = IF d = next THEN NULL ELSE freed[d].prev
                        /\ Link(freed, next, "prev", NULL)[d].next = freed[d].next
    BY <1>4, LinkPrev DEF NULL
  <2>2. after = IF is = "stack" THEN Link(freed, next, "prev", NULL) ELSE freed
    BY DEF freed
  <2> QED
    BY <1>4, <2>1, <2>2
<1>6. \A k \in 1 .. count : k # 1 => held[k] \in D
  BY <1>held, <1>2 DEF D
<1>7. \A k \in 1 .. count : k # 1 => /\ after[held[k]].next = cells[held[k]].next
                                     /\ k > 2 => after[held[k]].prev = cells[held[k]].prev
  <2>1. \A k \in 1 .. count : k > 2 => held[k] # next
    <3> SUFFICES ASSUME NEW k \in 1 .. count, k > 2 PROVE held[k] # next
      OBVIOUS
    <3>1. 2 \in 1 .. count /\ 1 < count /\ k # 2
      BY <1>num
    <3> QED
      BY <1>held, <1>3, <3>1
  <2> QED
    BY <1>5, <1>6, <2>1
<1>8. Chained(after, left, made)
  <2>1. /\ \A k \in 1 .. Len(held) - 1 : left[k] = IF k < 1 THEN held[k] ELSE held[k + 1]
        /\ Len(left) = Len(held) - 1
    BY <1>num
  <2>2. /\ DOMAIN after \subseteq DOMAIN cells /\ DOMAIN cells \ {held[1]} \subseteq DOMAIN after
        /\ after \in [DOMAIN after -> Cells]
    BY <1>2, <1>5 DEF D
  <2>3. \A k \in 1 .. Len(held) : k # 1 =>
          /\ after[held[k]].next = IF k = 1 - 1 THEN cells[held[1]].next ELSE cells[held[k]].next
          /\ k > 1 /\ k # 1 + 1 => after[held[k]].prev = cells[held[k]].prev
          /\ k > 2 /\ k = 1 + 1 => after[held[k]].prev = held[1 - 1]
    BY <1>num, <1>7
  <2>4. Chained(cells, held, made)
    BY DEF IsList
  <2>9. Unlinks(after, left, cells, held, 1)
    BY <2>1, <2>2, <2>3 DEF Unlinks
  <2> QED
    BY <1>2, <2>4, <2>9, Unlinked
<1>9. count # 1 => /\ next = left[1] /\ last = left[count - 1]
                   /\ is # "stack" => after[next].prev \in (0 .. made) \ DOMAIN after
  <2> SUFFICES ASSUME count # 1
               PROVE  /\ next = left[1] /\ last = left[count - 1]
                      /\ is # "stack" => after[next].prev \in (0 .. made) \ DOMAIN after
    OBVIOUS
  <2>1. 2 \in 1 .. count /\ count - 1 \in 1 .. count - 1 /\ 1 \in 1 .. count - 1 /\ 1 < count
    BY <1>num
  <2>2. next = held[2] /\ left[1] = held[2] /\ left[count - 1] = held[count]
    <3>1. left[1] = held[1 + 1] /\ left[count - 1] = held[(count - 1) + 1]
      BY <2>1
    <3> QED
      BY <1>num, <1>3, <2>1, <3>1
  <2>3. next \in D /\ cells[next].prev = held[1]
    <3>1. 2 > 1 /\ 2 # 1 /\ 2 - 1 = 1
      OBVIOUS
    <3>2. held[2] \in D /\ cells[held[2]].prev = held[2 - 1]
      BY <1>prev, <1>6, <2>1, <3>1
    <3> QED
      BY <2>2, <3>1, <3>2
  <2>4. is # "stack" => after[next].prev = first
    BY <1>2, <1>5, <2>3
  <2>5. first \in 0 .. made /\ first \notin DOMAIN after
    BY <1>held, <1>2, <1>5 DEF D
  <2> QED
    BY <1>2, <2>2, <2>4, <2>5
<1>10. count = 1 => next = NULL
  BY <1>3
<1> QED
  BY <1>num, <1>2, <1>8, <1>9, <1>10 DEF IsList, NULL

\* The last cell is freed.
LEMMA BackPopped ==
  ASSUME NEW is, NEW cells, NEW held, NEW made, NEW count, NEW first, NEW last,
         IsList(is, cells, held, made, count, first, last), count > 0,
         NEW left \in Seq(1 .. made), Len(left) = count - 1,
         \A k \in 1 .. count - 1 : left[k] = held[k],
         NEW prev, prev = IF count = 1 /\ is = "stack" THEN NULL ELSE cells[last].prev,
         NEW after, after = IF count = 1 THEN Freed(cells, last)
                            ELSE Link(Freed(cells, last), prev, "next", NULL)
  PROVE  IsList(is, after, left, made, count - 1, IF count = 1 THEN prev ELSE first, prev)
<1> DEFINE D == DOMAIN cells \ {last}
           freed == Freed(cells, last)
<1>num. made \in Nat /\ count \in Nat /\ count = Len(held)
  BY ListFacts
<1>cells. DOMAIN cells \subseteq 1 .. made /\ cells \in [DOMAIN cells -> Cells]
  BY ListFacts
<1>held. /\ \A i \in 1 .. count : held[i] \in DOMAIN cells /\ held[i] \in 1 .. made
         /\ \A i, j \in 1 .. count : held[i] = held[j] => i = j
  BY ListFacts
<1>next. \A i \in 1 .. count : cells[held[i]].next = IF i < count THEN held[i + 1] ELSE NULL
  BY ListFacts
<1>prev. \A i \in 1 .. count : i > 1 => cells[held[i]].prev = held[i - 1]
  BY ListFacts
<1>nat. \A c \in DOMAIN cells : cells[c].prev \in Nat
  BY ListFacts
<1>2. /\ first = held[1] /\ last = held[count] /\ last \in Nat /\ count \in 1 .. count /\ count \in 1 .. Len(held)
      /\ is # "stack" => cells[first].prev \in (0 .. made) \ DOMAIN cells
  BY <1>num DEF IsList
<1>3. prev \in Nat /\ (count # 1 => prev = held[count - 1])
  BY <1>num, <1>prev, <1>nat, <1>held, <1>2 DEF NULL
<1>4. freed \in [D -> Cells] /\ \A d \in D : freed[d] = cells[d]
  <2> DEFINE E == DOMAIN cells
  <2>1. cells \in [E -> Cells]
    BY <1>cells
  <2> HIDE DEF E
  <2>2. /\ Freed(cells, last) \in [E \ {last} -> Cells]
        /\ \A d \in E \ {last} : Freed(cells, last)[d] = cells[d]
    BY <2>1 DEF Freed
  <2> QED
    BY <2>2 DEF E
<1> HIDE DEF D, freed
<1>5. /\ after \in [D -> Cells]
      /\ \A d \in D : /\ after[d].prev = cells[d].prev
                      /\ count # 1 => after[d].next = IF d = prev THEN NULL ELSE cells[d].next
  <2>1. /\ Link(freed, prev, "next", NULL) \in [D -> Cells]
        /\ \A d \in D : /\ Link(freed, prev, "next", NULL)[d].next = IF d = prev THEN NULL ELSE freed[d].next
                        /\ Link(freed, prev, "next", NULL)[d].prev = freed[d].prev
    BY <1>4, LinkNext DEF NULL
  <2>2. after = IF count = 1 THEN freed ELSE Link(freed, prev, "next", NULL)
    BY DEF freed
  <2> QED
    BY <1>4, <2>1, <2>2
<1>6. \A k \in 1 .. count : k # count => held[k] \in D
  BY <1>held, <1>2 DEF D
<1>7. \A k \in 1 .. count : k # count =>
        /\ after[held[k]].next = IF k = count - 1 THEN NULL ELSE cells[held[k]].next
        /\ after[held[k]].prev = cells[held[k]].prev
  <2> SUFFICES ASSUME NEW k \in 1 .. count, k # count
               PROVE  /\ after[held[k]].next = IF k = count - 1 THEN NULL ELSE cells[held[k]].next
                      /\ after[held[k]].prev = cells[held[k]].prev
    OBVIOUS
  <2>1. count # 1 /\ count - 1 \in 1 .. count
    BY <1>num
  <2>2. held[k] = prev <=> k = count - 1
    BY <1>held, <1>3, <2>1
  <2> QED
    BY <1>5, <1>6, <2>1, <2>2
<1>8. Chained(after, left, made)
  <2>1. /\ \A k \in 1 .. Len(held) - 1 : left[k] = IF k < count THEN held[k] ELSE held[k + 1]
        /\ Len(left) = Len(held) - 1
    <3>1. \A k \in 1 .. count - 1 : k < count
      BY <1>num
    <3>2. Len(held) - 1 = count - 1
      BY <1>num
    <3> QED
      BY <3>1, <3>2
  <2>2. /\ DOMAIN after \subseteq DOMAIN cells /\ DOMAIN cells \ {held[count]} \subseteq DOMAIN after
        /\ after \in [DOMAIN after -> Cells]
    BY <1>2, <1>5 DEF D
  <2>3. cells[held[count]].next = NULL
    BY <1>num, <1>next, <1>2
  <2>4. \A k \in 1 .. Len(held) : k # count =>
          /\ after[held[k]].next = IF k = count - 1 THEN cells[held[count]].next ELSE cells[held[k]].next
          /\ k > 1 /\ k # count + 1 => after[held[k]].prev = cells[held[k]].prev
          /\ k > 2 /\ k = count + 1 => after[held[k]].prev = held[count - 1]
    BY <1>num, <1>7, <2>3
  <2>5. Chained(cells, held, made)
    BY DEF IsList
  <2>9. Unlinks(after, left, cells, held, count)
    BY <2>1, <2>2, <2>4 DEF Unlinks
  <2> QED
    BY <1>2, <2>5, <2>9, Unlinked
<1>9. count # 1 => /\ first = left[1] /\ prev = left[count - 1]
                   /\ is # "stack" => after[first].prev \in (0 .. made) \ DOMAIN after
  <2> SUFFICES ASSUME count # 1
               PROVE  /\ first = left[1] /\ prev = left[count - 1]
                      /\ is # "stack" => after[first].prev \in (0 .. made) \ DOMAIN after
    OBVIOUS
  <2>1. count - 1 \in 1 .. count - 1 /\ 1 \in 1 .. count - 1 /\ 1 \in 1 .. count
    BY <1>num
  <2>2. first \in D /\ after[first].prev = cells[first].prev
    BY <1>2, <1>5, <1>6, <2>1
  <2>3. DOMAIN after \subseteq DOMAIN cells
    BY <1>5 DEF D
  <2> QED
    BY <1>2, <1>3, <2>1, <2>2, <2>3
<1>10. count - 1 = Len(left) /\ (count - 1 > 0 => count # 1)
  BY <1>num
<1> QED
  BY <1>3, <1>8, <1>9, <1>10 DEF IsList

\* stack_remove of the head, which stays allocated.
LEMMA HeadUnlinked ==
  ASSUME NEW cells, NEW held, NEW made, NEW count, NEW first, NEW last,
         IsList("stack", cells, held, made, count, first, last), count > 0,
         NEW left \in Seq(1 .. made), Len(left) = count - 1,
         \A k \in 1 .. count - 1 : left[k] = held[k + 1],
         NEW next, next = cells[first].next,
         NEW after, after = Link(cells, next, "prev", NULL)
  PROVE  IsList("stack", after, left, made, count - 1, next, last)
<1>num. made \in Nat /\ count \in Nat /\ count = Len(held)
  BY ListFacts
<1>cells. DOMAIN cells \subseteq 1 .. made /\ cells \in [DOMAIN cells -> Cells]
  BY ListFacts
<1>held. /\ \A i \in 1 .. count : held[i] \in DOMAIN cells /\ held[i] \in 1 .. made
         /\ \A i, j \in 1 .. count : held[i] = held[j] => i = j
  BY ListFacts
<1>next. \A i \in 1 .. count : cells[held[i]].next = IF i < count THEN held[i + 1] ELSE NULL
  BY ListFacts
<1>1. first = held[1] /\ last = held[count] /\ 1 \in 1 .. count /\ 1 \in 1 .. Len(held) /\ last \in Nat
  BY <1>num DEF IsList
<1>2. next = IF 1 < count THEN held[2] ELSE NULL
  <2>1. 1 \in 1 .. count /\ 1 + 1 = 2
    BY <1>1
  <2>2. cells[held[1]].next = IF 1 < count THEN held[1 + 1] ELSE NULL
    BY <1>next, <2>1
  <2> QED
    BY <1>1, <2>1, <2>2
<1>3. /\ after \in [DOMAIN cells -> Cells]
      /\ \A d \in DOMAIN cells : /\ after[d].next = cells[d].next
                                 /\ d # next => after[d].prev = cells[d].prev
  <2> DEFINE E == DOMAIN cells
  <2>1. cells \in [E -> Cells]
    BY <1>cells
  <2> HIDE DEF E
  <2>2. /\ after \in [E -> Cells]
        /\ \A d \in E : /\ after[d].prev = IF d = next THEN NULL ELSE cells[d].prev
                        /\ after[d].next = cells[d].next
    BY <2>1, LinkPrev DEF NULL
  <2> QED
    BY <2>2 DEF E
<1>4. \A k \in 1 .. count : k > 2 => held[k] # next
  <2> SUFFICES ASSUME NEW k \in 1 .. count, k > 2 PROVE held[k] # next
    OBVIOUS
  <2>1. 2 \in 1 .. count /\ 1 < count /\ k # 2
    BY <1>num
  <2> QED
    BY <1>held, <1>2, <2>1
<1>5. Chained(after, left, made)
  <2>1. /\ \A k \in 1 .. Len(held) - 1 : left[k] = IF k < 1 THEN held[k] ELSE held[k + 1]
        /\ Len(left) = Len(held) - 1
    BY <1>num
  <2>2. /\ DOMAIN after \subseteq DOMAIN cells /\ DOMAIN cells \ {held[1]} \subseteq DOMAIN after
        /\ after \in [DOMAIN after -> Cells]
    BY <1>3
  <2>3. \A k \in 1 .. Len(held) : k # 1 =>
          /\ after[held[k]].next = IF k = 1 - 1 THEN cells[held[1]].next ELSE cells[held[k]].next
          /\ k > 1 /\ k # 1 + 1 => after[held[k]].prev = cells[held[k]].prev
          /\ k > 2 /\ k = 1 + 1 => after[held[k]].prev = held[1 - 1]
    BY <1>num, <1>held, <1>3, <1>4
  <2>4. Chained(cells, held, made)
    BY DEF IsList
  <2>9. Unlinks(after, left, cells, held, 1)
    BY <2>1, <2>2, <2>3 DEF Unlinks
  <2> QED
    BY <1>1, <2>4, <2>9, Unlinked
<1>6. count # 1 => next = left[1] /\ last = left[count - 1]
  <2> SUFFICES ASSUME count # 1 PROVE next = left[1] /\ last = left[count - 1]
    OBVIOUS
  <2>1. 1 < count /\ count - 1 \in 1 .. count - 1 /\ 1 \in 1 .. count - 1
    BY <1>num
  <2>2. left[1] = held[1 + 1] /\ left[count - 1] = held[(count - 1) + 1]
    BY <2>1
  <2> QED
    BY <1>num, <1>1, <1>2, <2>1, <2>2
<1>7. count - 1 = Len(left) /\ (count - 1 > 0 => count # 1)
  BY <1>num
<1> QED
  BY <1>1, <1>5, <1>6, <1>7 DEF IsList

\* A cell behind the first one is freed.
LEMMA MiddleUnlinked ==
  ASSUME NEW is, NEW cells, NEW held, NEW made, NEW count, NEW first, NEW last,
         IsList(is, cells, held, made, count, first, last),
         NEW p \in 1 .. count, p > 1,
         NEW left \in Seq(1 .. made), Len(left) = count - 1,
         \A k \in 1 .. count - 1 : left[k] = IF k < p THEN held[k] ELSE held[k + 1],
         NEW next, next = cells[held[p]].next, NEW before, before = held[p - 1],
         NEW after,
         after = Link(Link(Freed(cells, held[p]), before, "next", next), next, "prev", before)
  PROVE  IsList(is, after, left, made, count - 1, first, IF next = NULL THEN before ELSE last)
<1>num. made \in Nat /\ count \in Nat /\ count = Len(held) /\ count # 1 /\ p \in 1 .. Len(held)
  BY ListFacts
<1>cells. DOMAIN cells \subseteq 1 .. made /\ cells \in [DOMAIN cells -> Cells]
  BY ListFacts
<1>held. /\ \A i \in 1 .. count : held[i] \in DOMAIN cells /\ held[i] \in 1 .. made
         /\ \A i, j \in 1 .. count : held[i] = held[j] => i = j
  BY ONLY ListFacts, IsList(is, cells, held, made, count, first, last)
<1>next. \A i \in 1 .. count : cells[held[i]].next = IF i < count THEN held[i + 1] ELSE NULL
  BY ONLY ListFacts, IsList(is, cells, held, made, count, first, last)
<1>nat. \A c \in DOMAIN cells : cells[c].next \in Nat
  BY ListFacts
<1> DEFINE D == DOMAIN cells \ {held[p]}
           freed == Freed(cells, held[p])
           linked == Link(freed, before, "next", next)
<1>1. /\ first = held[1] /\ last = held[count] /\ last \in Nat
      /\ is # "stack" => cells[first].prev \in (0 .. made) \ DOMAIN cells
  BY <1>num DEF IsList
<1>2. /\ 1 \in 1 .. count /\ p - 1 \in 1 .. count /\ p # p - 1
      /\ p < count => p + 1 \in 1 .. count
  BY <1>num
<1>3. next = (IF p < count THEN held[p + 1] ELSE NULL) /\ next \in Nat
  BY <1>next, <1>nat, <1>held
<1>4. before \in 1 .. made /\ before \in Nat
  BY <1>held, <1>2
<1>5. freed \in [D -> Cells] /\ \A d \in D : freed[d] = cells[d]
  <2> DEFINE E == DOMAIN cells
  <2>1. cells \in [E -> Cells]
    BY <1>cells
  <2> HIDE DEF E
  <2>2. /\ Freed(cells, held[p]) \in [E \ {held[p]} -> Cells]
        /\ \A d \in E \ {held[p]} : Freed(cells, held[p])[d] = cells[d]
    BY <2>1 DEF Freed
  <2> QED
    BY <2>2 DEF E
<1> HIDE DEF D, freed
<1>6. /\ linked \in [D -> Cells]
      /\ \A d \in D : /\ linked[d].next = IF d = before THEN next ELSE freed[d].next
                      /\ linked[d].prev = freed[d].prev
  BY <1>3, <1>5, LinkNext
<1>7. after = Link(linked, next, "prev", before)
  BY DEF freed
<1> HIDE DEF linked
<1>8. /\ after \in [D -> Cells]
      /\ \A d \in D : /\ after[d].prev = IF d = next THEN before ELSE linked[d].prev
                      /\ after[d].next = linked[d].next
  BY <1>4, <1>6, <1>7, LinkPrev
<1>9. \A d \in D : /\ after[d].next = IF d = before THEN next ELSE cells[d].next
                   /\ after[d].prev = IF d = next THEN before ELSE cells[d].prev
  BY <1>5, <1>6, <1>8
<1>10. \A k \in 1 .. count : k # p => held[k] \in D
  BY <1>held DEF D
<1>11. ASSUME NEW k \in 1 .. count, k # p
       PROVE  /\ held[k] = before <=> k = p - 1
              /\ held[k] = next <=> k = p + 1
  <2>1. held[k] = before <=> k = p - 1
    BY <1>held, <1>2
  <2>2. CASE p < count
    BY <1>held, <1>2, <1>3, <2>1, <2>2
  <2>3. CASE ~(p < count)
    <3>1. k # p + 1 /\ next = 0
      BY <1>num, <1>3, <2>3 DEF NULL
    <3> QED
      BY <1>held, <2>1, <3>1
  <2> QED
    BY <2>2, <2>3
<1>12. \A k \in 1 .. count : k # p =>
         /\ after[held[k]].next = IF k = p - 1 THEN next ELSE cells[held[k]].next
         /\ after[held[k]].prev = IF k = p + 1 THEN before ELSE cells[held[k]].prev
  BY <1>9, <1>10, <1>11
<1>13. Chained(after, left, made)
  <2>1. /\ \A k \in 1 .. Len(held) - 1 : left[k] = IF k < p THEN held[k] ELSE held[k + 1]
        /\ Len(left) = Len(held) - 1
    BY <1>num
  <2>2. /\ DOMAIN after \subseteq DOMAIN cells /\ DOMAIN cells \ {held[p]} \subseteq DOMAIN after
        /\ after \in [DOMAIN after -> Cells]
    BY <1>8 DEF D
  <2>3. \A k \in 1 .. Len(held) : k # p =>
          /\ after[held[k]].next = IF k = p - 1 THEN cells[held[p]].next ELSE cells[held[k]].next
          /\ k > 1 /\ k # p + 1 => after[held[k]].prev = cells[held[k]].prev
          /\ k > 2 /\ k = p + 1 => after[held[k]].prev = held[p - 1]
    BY <1>num, <1>12
  <2>4. Chained(cells, held, made)
    BY DEF IsList
  <2>9. Unlinks(after, left, cells, held, p)
    BY <2>1, <2>2, <2>3 DEF Unlinks
  <2> QED
    BY <1>num, <2>4, <2>9, Unlinked
<1>14. first = left[1] /\ (is # "stack" => after[first].prev \in (0 .. made) \ DOMAIN after)
  <2>1. 1 # p /\ 1 # p + 1 /\ 1 \in 1 .. count - 1 /\ 1 < p
    BY <1>num
  <2>2. first = left[1] /\ after[first].prev = cells[first].prev
    BY <1>1, <1>2, <1>12, <2>1
  <2>3. DOMAIN after \subseteq DOMAIN cells
    BY <1>8 DEF D
  <2> QED
    BY <1>1, <2>2, <2>3
<1>15. (IF next = NULL THEN before ELSE last) = left[count - 1]
  <2>1. count - 1 \in 1 .. count - 1
    BY <1>num
  <2>2. CASE p = count
    <3>1. next = NULL /\ count - 1 < p
      BY <1>num, <1>3, <2>2
    <3> QED
      BY <2>1, <2>2, <3>1
  <2>3. CASE p # count
    <3>1. p < count /\ ~(count - 1 < p) /\ (count - 1) + 1 = count
      BY <1>num, <2>3
    <3>2. next # NULL
      BY <1>held, <1>2, <1>3, <3>1 DEF NULL
    <3>3. left[count - 1] = held[(count - 1) + 1]
      BY <2>1, <3>1
    <3> QED
      BY <1>1, <3>1, <3>2, <3>3
  <2> QED
    BY <2>2, <2>3
<1>16. /\ count - 1 = Len(left) /\ (IF next = NULL THEN before ELSE last) \in Nat
  BY <1>num, <1>1, <1>4
<1> QED
  BY <1>13, <1>14, <1>15, <1>16 DEF IsList

\* A value is put behind the last cell.
LEMMA BackPushed ==
  ASSUME NEW is, NEW cells, NEW held, NEW made, NEW count, NEW first, NEW last,
         IsList(is, cells, held, made, count, first, last),
         NEW new, new = made + 1, NEW after,
         after = IF count = 0 THEN Put(cells, new, Cell(NULL, IF is = "stack" THEN last ELSE NULL))
                 ELSE Put(Link(cells, last, "next", new), new, Cell(NULL, last))
  PROVE  IsList(is, after, Append(held, new), new, count + 1, IF count = 0 THEN new ELSE first, new)
<1>num. made \in Nat /\ count \in Nat /\ count = Len(held) /\ new \in Nat /\ new \notin 1 .. made
        /\ last \in Nat
  <2>1. made \in Nat /\ count \in Nat /\ count = Len(held)
    BY ListFacts
  <2>2. last \in Nat
    BY DEF IsList
  <2> QED
    BY <2>1, <2>2
<1>cells. DOMAIN cells \subseteq 1 .. made /\ cells \in [DOMAIN cells -> Cells]
  BY ONLY ListFacts, IsList(is, cells, held, made, count, first, last)
<1>held. /\ \A i \in 1 .. count : held[i] \in DOMAIN cells /\ held[i] \in 1 .. made
         /\ \A i, j \in 1 .. count : held[i] = held[j] => i = j
  BY ONLY ListFacts, IsList(is, cells, held, made, count, first, last)
<1>seq. held \in Seq(1 .. made)
  BY ListFacts
<1>1. count > 0 => /\ first = held[1] /\ last = held[count] /\ count \in 1 .. count /\ 1 \in 1 .. count
                   /\ is # "stack" => cells[first].prev \in (0 .. made) \ DOMAIN cells
  BY <1>num DEF IsList
<1> DEFINE D == DOMAIN cells
<1>2. cells \in [D -> Cells]
  BY <1>cells
<1> HIDE DEF D
<1>3. /\ after \in [D \cup {new} -> Cells]
      /\ after[new].next = NULL
      /\ count > 0 => after[new].prev = last
      /\ count = 0 => after[new].prev = IF is = "stack" THEN last ELSE NULL
      /\ \A d \in D : d # new =>
           /\ after[d].next = IF count > 0 /\ d = last THEN new ELSE cells[d].next
           /\ after[d].prev = cells[d].prev
  <2>1. CASE count = 0
    <3> DEFINE prev == IF is = "stack" THEN last ELSE NULL
    <3>1. prev \in Nat /\ NULL \in Nat
      BY <1>num DEF NULL
    <3> HIDE DEF prev
    <3>2. /\ Put(cells, new, Cell(NULL, prev)) \in [D \cup {new} -> Cells]
          /\ Put(cells, new, Cell(NULL, prev))[new].next = NULL
          /\ Put(cells, new, Cell(NULL, prev))[new].prev = prev
          /\ \A d \in D : d # new => Put(cells, new, Cell(NULL, prev))[d] = cells[d]
      BY <1>2, <3>1 DEF Put, Cell, Cells
    <3>3. after = Put(cells, new, Cell(NULL, prev))
      BY <2>1 DEF prev
    <3> QED
      BY <2>1, <3>2, <3>3 DEF prev
  <2>2. CASE count > 0
    <3> DEFINE linked == Link(cells, last, "next", new)
    <3>1. /\ linked \in [D -> Cells]
          /\ \A d \in D : /\ linked[d].next = IF d = last THEN new ELSE cells[d].next
                          /\ linked[d].prev = cells[d].prev
      BY <1>num, <1>2, LinkNext
    <3>2. after = Put(linked, new, Cell(NULL, last))
      BY <1>num, <2>2
    <3> HIDE DEF linked
    <3>3. /\ Put(linked, new, Cell(NULL, last)) \in [D \cup {new} -> Cells]
          /\ Put(linked, new, Cell(NULL, last))[new].next = NULL
          /\ Put(linked, new, Cell(NULL, last))[new].prev = last
          /\ \A d \in D : d # new => Put(linked, new, Cell(NULL, last))[d] = linked[d]
      BY <1>num, <3>1 DEF NULL, Put, Cell, Cells
    <3> QED
      BY <2>2, <3>1, <3>2, <3>3
  <2> QED
    BY <1>num, <2>1, <2>2
<1>4. \A k \in 1 .. count : held[k] \in D /\ held[k] # new /\ count > 0
  BY <1>num, <1>held DEF D
<1>5. \A k \in 1 .. count :
        /\ after[held[k]].next = IF k = count THEN new ELSE cells[held[k]].next
        /\ after[held[k]].prev = cells[held[k]].prev
  BY <1>held, <1>1, <1>3, <1>4
<1>6. held # << >> => count > 0
  BY <1>num, <1>seq, EmptySeq
<1>7. Chained(after, Append(held, new), new)
  <2>1. after \in [DOMAIN cells \cup {made + 1} -> Cells]
    BY <1>3 DEF D
  <2>2. after[made + 1].next = NULL /\ (held # << >> => after[made + 1].prev = held[Len(held)])
    BY <1>num, <1>1, <1>3, <1>6
  <2>3. \A k \in 1 .. Len(held) :
          /\ after[held[k]].next = IF k = Len(held) THEN made + 1 ELSE cells[held[k]].next
          /\ after[held[k]].prev = cells[held[k]].prev
    BY <1>num, <1>5
  <2>4. Chained(cells, held, made)
    BY DEF IsList
  <2> QED
    <3>1. LinksBack(after, cells, held, made + 1)
      BY <2>1, <2>2, <2>3 DEF LinksBack
    <3> QED
      BY <1>num, <2>4, <3>1, LinkedBack
<1>8. /\ Len(Append(held, new)) = count + 1 /\ Append(held, new)[count + 1] = new
      /\ count > 0 => Append(held, new)[1] = held[1]
  BY <1>num, <1>seq, <1>1, AppendProperties
<1>9. is # "stack" =>
        after[IF count = 0 THEN new ELSE first].prev \in (0 .. new) \ DOMAIN after
  <2> SUFFICES ASSUME is # "stack"
               PROVE  after[IF count = 0 THEN new ELSE first].prev \in (0 .. new) \ DOMAIN after
    OBVIOUS
  <2>1. DOMAIN after = DOMAIN cells \cup {new} /\ DOMAIN after \subseteq 1 .. new
    BY <1>num, <1>cells, <1>3 DEF D
  <2>2. CASE count = 0
    <3>1. after[new].prev = 0
      BY <1>3, <2>2 DEF NULL
    <3> QED
      BY <1>num, <2>1, <2>2, <3>1
  <2>3. CASE count > 0
    <3>1. after[first].prev = cells[first].prev
      BY <1>1, <1>5, <2>3
    <3>2. \A x \in 0 .. made : x \in 0 .. new /\ x # new
      BY <1>num
    <3> QED
      BY <1>num, <1>1, <2>1, <2>3, <3>1, <3>2
  <2> QED
    BY <1>num, <2>2, <2>3
<1>10. count + 1 > 0 => (IF count = 0 THEN new ELSE first) = Append(held, new)[1]
  BY <1>num, <1>1, <1>8
<1> QED
  BY <1>num, <1>7, <1>8, <1>9, <1>10 DEF IsList

\* A value is put before the first cell.
LEMMA FrontPushed ==
  ASSUME NEW is, NEW cells, NEW held, NEW made, NEW count, NEW first, NEW last,
         IsList(is, cells, held, made, count, first, last),
         NEW new, new = made + 1, NEW after,
         after = Put(Link(cells, first, "prev", new), new,
                     Cell(IF count = 0 THEN NULL ELSE first, NULL))
  PROVE  IsList(is, after, <<new>> \o held, new, count + 1, new, IF count = 0 THEN new ELSE last)
<1>num. made \in Nat /\ count \in Nat /\ count = Len(held) /\ new \in Nat /\ new \notin 1 .. made
        /\ last \in Nat
  <2>1. made \in Nat /\ count \in Nat /\ count = Len(held)
    BY ListFacts
  <2>2. last \in Nat
    BY DEF IsList
  <2> QED
    BY <2>1, <2>2
<1>cells. DOMAIN cells \subseteq 1 .. made /\ cells \in [DOMAIN cells -> Cells]
  BY ONLY ListFacts, IsList(is, cells, held, made, count, first, last)
<1>held. /\ \A i \in 1 .. count : held[i] \in DOMAIN cells /\ held[i] \in 1 .. made
         /\ \A i, j \in 1 .. count : held[i] = held[j] => i = j
  BY ONLY ListFacts, IsList(is, cells, held, made, count, first, last)
<1>seq. held \in Seq(1 .. made)
  BY ListFacts
<1>1. count > 0 => /\ first = held[1] /\ last = held[count] /\ count \in 1 .. count /\ 1 \in 1 .. count
  BY <1>num DEF IsList
<1> DEFINE D == DOMAIN cells
           linked == Link(cells, first, "prev", new)
           next == IF count = 0 THEN NULL ELSE first
<1>2. cells \in [D -> Cells]
  BY <1>cells
<1> HIDE DEF D
<1>3. /\ linked \in [D -> Cells]
      /\ \A d \in D : /\ linked[d].prev = IF d = first THEN new ELSE cells[d].prev
                      /\ linked[d].next = cells[d].next
  BY <1>num, <1>2, LinkPrev
<1>4. after = Put(linked, new, Cell(next, NULL))
  OBVIOUS
<1>5. next \in Nat /\ NULL \in Nat
  BY <1>num, <1>held, <1>1 DEF NULL
<1> HIDE DEF linked, next
<1>6. /\ after \in [D \cup {new} -> Cells]
      /\ after[new].next = next /\ after[new].prev = NULL
      /\ \A d \in D : d # new => after[d] = linked[d]
  <2>1. linked \in [D -> Cells]
    BY <1>3
  <2>2. /\ Put(linked, new, Cell(next, NULL)) \in [D \cup {new} -> Cells]
        /\ Put(linked, new, Cell(next, NULL))[new].next = next
        /\ Put(linked, new, Cell(next, NULL))[new].prev = NULL
        /\ \A d \in D : d # new => Put(linked, new, Cell(next, NULL))[d] = linked[d]
    BY ONLY <1>5, <2>1 DEF Put, Cell, Cells
  <2> QED
    BY <1>4, <2>2
<1>7. \A k \in 1 .. count : held[k] \in D /\ held[k] # new /\ count > 0
  BY <1>num, <1>held DEF D
<1>8. \A k \in 1 .. count :
        /\ after[held[k]].next = cells[held[k]].next
        /\ after[held[k]].prev = IF k = 1 THEN new ELSE cells[held[k]].prev
  BY <1>held, <1>1, <1>3, <1>6, <1>7
<1>9. held # << >> <=> count > 0
  BY <1>num, <1>seq, EmptySeq
<1>10. /\ Chained(after, <<new>> \o held, new)
       /\ Len(<<new>> \o held) = count + 1 /\ (<<new>> \o held)[1] = new
       /\ held # << >> => (<<new>> \o held)[count + 1] = held[count]
  <2>1. after \in [DOMAIN cells \cup {made + 1} -> Cells]
    BY <1>6 DEF D
  <2>2. after[made + 1].next = IF held = << >> THEN NULL ELSE held[1]
    BY <1>num, <1>1, <1>6, <1>9 DEF next
  <2>3. \A k \in 1 .. Len(held) :
          /\ after[held[k]].next = cells[held[k]].next
          /\ after[held[k]].prev = IF k = 1 THEN made + 1 ELSE cells[held[k]].prev
    BY <1>num, <1>8
  <2>4. Chained(cells, held, made)
    BY DEF IsList
  <2>5. /\ Chained(after, <<made + 1>> \o held, made + 1)
        /\ Len(<<made + 1>> \o held) = Len(held) + 1 /\ (<<made + 1>> \o held)[1] = made + 1
        /\ held # << >> => (<<made + 1>> \o held)[Len(held) + 1] = held[Len(held)]
    <3>1. LinksFront(after, cells, held, made + 1)
      BY <2>1, <2>2, <2>3 DEF LinksFront
    <3> QED
      BY ONLY <2>4, <3>1, LinkedFront
  <2> QED
    BY <1>num, <2>5
<1>11. after[new].prev \in (0 .. new) \ DOMAIN after
  BY <1>num, <1>cells, <1>6 DEF D, NULL
<1>12. (IF count = 0 THEN new ELSE last) = (<<new>> \o held)[count + 1]
       /\ (IF count = 0 THEN new ELSE last) \in Nat
  <2>1. CASE count = 0
    BY <1>num, <1>10, <2>1
  <2>2. CASE count > 0
    BY <1>num, <1>1, <1>9, <1>10, <2>2
  <2> QED
    BY <1>num, <2>1, <2>2
<1> QED
  BY <1>10, <1>11, <1>12 DEF IsList

\* Removing a value that is in the list once.
LEMMA RemoveFirstIs ==
  ASSUME NEW S, NEW s \in Seq(S), NEW p \in 1 .. Len(s), NEW c, s[p] = c,
         \A k \in 1 .. Len(s) : s[k] = c => k = p
  PROVE  /\ RemoveFirst(s, c) \in Seq(S) /\ Len(RemoveFirst(s, c)) = Len(s) - 1
         /\ \A k \in 1 .. Len(s) - 1 : RemoveFirst(s, c)[k] = IF k < p THEN s[k] ELSE s[k + 1]
<1>1. p \in DOMAIN s /\ p \in Nat
  BY LenProperties
<1>2. RemoveFirst(s, c) = RemoveAt(s, p)
  <2>1. {i \in 1 .. Len(s) : s[i] = c} = {p}
    OBVIOUS
  <2>2. Min({p}) = p
    <3>1. {p} \in SUBSET Nat /\ {p} # {}
      BY <1>1
    <3> QED
      BY <3>1, LeastNat
  <2> QED
    BY <2>1, <2>2 DEF RemoveFirst, SelectInSeq
<1> QED
  BY <1>1, <1>2, RemoveAtLeft

\* The list that is left without its last value.
LEMMA FrontIs ==
  ASSUME NEW S, NEW s \in Seq(S), Len(s) > 0
  PROVE  /\ Front(s) \in Seq(S) /\ Len(Front(s)) = Len(s) - 1
         /\ \A k \in 1 .. Len(s) - 1 : Front(s)[k] = s[k]
<1> DEFINE n == Len(s)
<1>1. n \in Nat /\ n > 0 /\ \A k \in 1 .. n - 1 : s[k] \in S
  BY LenProperties
<1>2. /\ SubSeq(s, 1, n - 1) \in Seq(S)
      /\ Len(SubSeq(s, 1, n - 1)) = (IF 1 <= n - 1 THEN n - 1 - 1 + 1 ELSE 0)
      /\ \A k \in 1 .. n - 1 - 1 + 1 : SubSeq(s, 1, n - 1)[k] = s[1 + k - 1]
  <2>1. 1 \in Int /\ n - 1 \in Int
    BY <1>1
  <2> HIDE DEF n
  <2> QED
    BY <1>1, <2>1, SubSeqProperties
<1> DEFINE f == SubSeq(s, 1, n - 1)
<1> HIDE DEF f
<1>3. f \in Seq(S) /\ Len(f) = n - 1
  <2> HIDE DEF n
  <2>1. (IF 1 <= n - 1 THEN n - 1 - 1 + 1 ELSE 0) = n - 1
    BY ONLY <1>1
  <2>2. f \in Seq(S) /\ Len(f) = (IF 1 <= n - 1 THEN n - 1 - 1 + 1 ELSE 0)
    BY <1>2 DEF f
  <2> QED
    BY <2>1, <2>2
<1>4. ASSUME NEW k \in 1 .. n - 1 PROVE f[k] = s[k]
  <2>1. k \in 1 .. n - 1 - 1 + 1 /\ 1 + k - 1 = k
    BY <1>1
  <2> QED
    BY <1>2, <2>1 DEF f
<1> QED
  BY <1>3, <1>4 DEF f, Front

LEMMA ListInitInv == ListInit => ListInv
<1> SUFFICES ASSUME ListInit PROVE ListInv
  OBVIOUS
<1>1. Chained(listCells, listHeld, listMade)
  <2>1. << >> \in Seq(1 .. 0) /\ Len(<< >>) = 0
    BY EmptySeq
  <2>2. << >> \in [{} -> Cells] /\ DOMAIN << >> = {}
    BY <2>1, LenProperties
  <2> QED
    BY <2>1, <2>2 DEF ListInit, Chained
<1>2. Len(<< >>) = 0
  BY EmptySeq
<1>3. IsList(listIs, listCells, listHeld, listMade, listCount, listFirst, listLast)
  BY <1>1, <1>2 DEF ListInit, IsList, NULL
<1>4. OrphanInv
  BY DEF ListInit, OrphanInv
<1>5. /\ listIs \in {"stack", "vector"} /\ listLost \in BOOLEAN /\ listLost = listMisused
  BY Zenon DEF ListInit
<1> QED
  BY <1>3, <1>4, <1>5 DEF ListInv

LEMMA PushBackKeepsList ==
  ASSUME ListInv, PushBack PROVE ListInv'
<1> DEFINE new == listMade + 1
<1>1. IsList(listIs, listCells, listHeld, listMade, listCount, listFirst, listLast)
  BY DEF ListInv, PushBack
<1>2. /\ listCells' = IF listCount = 0
                      THEN Put(listCells, new, Cell(NULL, IF listIs = "stack" THEN listLast ELSE NULL))
                      ELSE Put(Link(listCells, listLast, "next", new), new, Cell(NULL, listLast))
      /\ listMade' = new /\ listHeld' = Append(listHeld, new) /\ listCount' = listCount + 1
      /\ listFirst' = (IF listCount = 0 THEN new ELSE listFirst) /\ listLast' = new
      /\ listIs' = listIs
  BY DEF PushBack
<1> HIDE DEF new
<1>3. new = listMade + 1
  BY DEF new
<1>4. IsList(listIs, listCells', Append(listHeld, new), new, listCount + 1,
             IF listCount = 0 THEN new ELSE listFirst, new)
  BY ONLY <1>1, <1>2, <1>3, BackPushed
<1>5. ASSUME listIs = "vector"
      PROVE  (listCount > 0 /\ listOrphan) <=> listCells'[listFirst'].prev # NULL
  <2>0. listCount \in Nat /\ new \notin DOMAIN listCells
    BY <1>1, <1>3, ListFacts
  <2>1. CASE listCount = 0
    BY <1>2, <1>5, <2>1 DEF Put, Cell, NULL
  <2>2. CASE listCount # 0
    <3>1. listFirst \in DOMAIN listCells /\ listCells \in [DOMAIN listCells -> Cells]
      <4>1. /\ \A i \in 1 .. listCount : listHeld[i] \in DOMAIN listCells
            /\ listCells \in [DOMAIN listCells -> Cells]
        BY ONLY <1>1, ListFacts
      <4>2. listFirst = listHeld[1] /\ 1 \in 1 .. listCount
        BY <1>1, <2>0, <2>2 DEF IsList
      <4> QED
        BY <4>1, <4>2
    <3>num. new \in Nat
      <4>1. listMade \in Nat
        BY ONLY <1>1, ListFacts
      <4> QED
        BY <1>3, <4>1
    <3> DEFINE D == DOMAIN listCells
    <3>dom. listCells \in [D -> Cells] /\ listFirst \in D /\ D = DOMAIN listCells
      BY <3>1
    <3> HIDE DEF D
    <3>2. /\ Link(listCells, listLast, "next", new)[listFirst].prev = listCells[listFirst].prev
          /\ Link(listCells, listLast, "next", new) \in [D -> Cells]
      BY ONLY <3>num, <3>dom, LinkNext
    <3>3. /\ Link(listCells, listLast, "next", new) \in [DOMAIN listCells -> Cells]
          /\ listFirst # new
      BY <2>0, <3>1, <3>2, <3>dom
    <3>4. listCells'[listFirst] = Link(listCells, listLast, "next", new)[listFirst]
      BY <1>2, <2>2, <3>1, <3>3 DEF Put
    <3> QED
      BY <1>2, <1>5, <2>0, <2>2, <3>2, <3>4 DEF ListInv, OrphanInv, PushBack
  <2> QED
    BY <2>1, <2>2
<1>6. listOrphan' = (listCount > 0 /\ listOrphan) /\ UNCHANGED <<listLost, listMisused>>
  BY DEF PushBack
<1> QED
  BY <1>2, <1>4, <1>5, <1>6 DEF ListInv, OrphanInv

LEMMA PushFrontKeepsList ==
  ASSUME ListInv, PushFront PROVE ListInv'
<1> DEFINE new == listMade + 1
<1>1. IsList(listIs, listCells, listHeld, listMade, listCount, listFirst, listLast)
  BY DEF ListInv, PushFront
<1>2. /\ listCells' = Put(Link(listCells, listFirst, "prev", new), new,
                          Cell(IF listCount = 0 THEN NULL ELSE listFirst, NULL))
      /\ listMade' = new /\ listHeld' = <<new>> \o listHeld /\ listCount' = listCount + 1
      /\ listFirst' = new /\ listLast' = (IF listCount = 0 THEN new ELSE listLast)
      /\ listIs' = listIs
  BY DEF PushFront
<1> HIDE DEF new
<1>3. new = listMade + 1
  BY DEF new
<1>4. IsList(listIs, listCells', <<new>> \o listHeld, new, listCount + 1, new,
             IF listCount = 0 THEN new ELSE listLast)
  BY ONLY <1>1, <1>2, <1>3, FrontPushed
<1>5. listCells'[listFirst'].prev = NULL
  BY <1>2 DEF Put, Cell
<1>6. ~listOrphan' /\ UNCHANGED <<listLost, listMisused>>
  BY DEF PushFront
<1> QED
  BY <1>2, <1>4, <1>5, <1>6 DEF ListInv, OrphanInv

\* The cell that comes first when the one before it is freed keeps pointing to that.
LEMMA PoppedFrontOrphans ==
  ASSUME IsList(listIs, listCells, listHeld, listMade, listCount, listFirst, listLast),
         listCount > 1, PoppedFront, listIs = "vector"
  PROVE  listCells'[listFirst'].prev # NULL
<1>1. /\ listCount = Len(listHeld) /\ listCount \in Nat /\ listFirst = listHeld[1]
      /\ \A i \in 1 .. listCount : listHeld[i] \in DOMAIN listCells /\ listHeld[i] \in 1 .. listMade
      /\ \A i, j \in 1 .. listCount : listHeld[i] = listHeld[j] => i = j
  <2>1. /\ listCount = Len(listHeld) /\ listCount \in Nat
        /\ \A i \in 1 .. listCount : listHeld[i] \in DOMAIN listCells /\ listHeld[i] \in 1 .. listMade
        /\ \A i, j \in 1 .. listCount : listHeld[i] = listHeld[j] => i = j
    BY ListFacts
  <2> QED
    BY <2>1 DEF IsList
<1>2. /\ \A i \in 1 .. listCount :
           listCells[listHeld[i]].next = IF i < listCount THEN listHeld[i + 1] ELSE NULL
      /\ \A i \in 1 .. listCount : i > 1 => listCells[listHeld[i]].prev = listHeld[i - 1]
  BY ListFacts
<1>3. 1 \in 1 .. listCount /\ 2 \in 1 .. listCount
  BY <1>1
<1>4. listFirst' = listHeld[2] /\ listHeld[2] # listFirst
  BY <1>1, <1>2, <1>3 DEF PoppedFront
<1>5. listCells' = Freed(listCells, listFirst)
  BY DEF PoppedFront
<1>6. listCells'[listFirst'] = listCells[listHeld[2]]
  BY <1>1, <1>3, <1>4, <1>5 DEF Freed
<1>7. listCells[listHeld[2]].prev = listHeld[1] /\ listHeld[1] \in 1 .. listMade
  BY <1>1, <1>2, <1>3
<1> QED
  BY <1>6, <1>7, ListFacts DEF NULL

\* The first of several cells keeps its links back when the last one is freed.
LEMMA PoppedBackSpares ==
  ASSUME IsList(listIs, listCells, listHeld, listMade, listCount, listFirst, listLast),
         listCount > 1, PoppedBack
  PROVE  listFirst' = listFirst /\ listCells'[listFirst].prev = listCells[listFirst].prev
<1>1. /\ listCount = Len(listHeld) /\ listCount \in Nat
      /\ listFirst = listHeld[1] /\ listLast = listHeld[listCount]
      /\ \A i \in 1 .. listCount : listHeld[i] \in DOMAIN listCells
      /\ \A i, j \in 1 .. listCount : listHeld[i] = listHeld[j] => i = j
      /\ listCells \in [DOMAIN listCells -> Cells]
  <2>1. /\ listCount = Len(listHeld) /\ listCount \in Nat
        /\ \A i \in 1 .. listCount : listHeld[i] \in DOMAIN listCells
        /\ \A i, j \in 1 .. listCount : listHeld[i] = listHeld[j] => i = j
        /\ listCells \in [DOMAIN listCells -> Cells]
    BY ListFacts
  <2> QED
    BY <2>1 DEF IsList
<1>2. listFirst \in DOMAIN listCells \ {listLast}
  <2>1. 1 \in 1 .. listCount /\ listCount \in 1 .. listCount /\ listCount # 1
    BY <1>1
  <2> QED
    BY <1>1, <2>1
<1> DEFINE D == DOMAIN listCells \ {listLast}
           freed == Freed(listCells, listLast)
           prev == listCells[listLast].prev
<1>3. /\ freed \in [D -> Cells] /\ freed[listFirst] = listCells[listFirst]
  BY <1>1, <1>2 DEF Freed
<1>4. listCells' = Link(freed, prev, "next", NULL) /\ listFirst' = listFirst
  BY <1>1 DEF PoppedBack
<1>5. NULL \in Nat
  BY DEF NULL
<1> HIDE DEF D, freed, prev
<1>6. \A d \in D : Link(freed, prev, "next", NULL)[d].prev = freed[d].prev
  BY <1>3, <1>5, LinkNext
<1>7. listFirst \in D
  BY <1>2 DEF D
<1> QED
  BY <1>3, <1>4, <1>6, <1>7

\* The cell that is freed at the front or at the back, by whichever operation.
LEMMA PoppedFrontKeepsList ==
  ASSUME IsList(listIs, listCells, listHeld, listMade, listCount, listFirst, listLast),
         listCount > 0, PoppedFront, NEW left \in Seq(1 .. listMade), Len(left) = listCount - 1,
         \A k \in 1 .. listCount - 1 : left[k] = listHeld[k + 1]
  PROVE  IsList(listIs, listCells', left, listMade, listCount - 1, listFirst', listLast')
<1> DEFINE next == listCells[listFirst].next
<1>1. /\ listCells' = IF listIs = "stack" THEN Link(Freed(listCells, listFirst), next, "prev", NULL)
                      ELSE Freed(listCells, listFirst)
      /\ listFirst' = next /\ listLast' = IF listCount = 1 THEN next ELSE listLast
  BY DEF PoppedFront
<1>2. next = listCells[listFirst].next
  OBVIOUS
<1> HIDE DEF next
<1>3. IsList(listIs, listCells', left, listMade, listCount - 1, next,
             IF listCount = 1 THEN next ELSE listLast)
  BY <1>1, <1>2, FrontPopped
<1> QED
  BY <1>1, <1>3

LEMMA PoppedBackKeepsList ==
  ASSUME IsList(listIs, listCells, listHeld, listMade, listCount, listFirst, listLast),
         listCount > 0, PoppedBack, NEW left \in Seq(1 .. listMade), Len(left) = listCount - 1,
         \A k \in 1 .. listCount - 1 : left[k] = listHeld[k]
  PROVE  IsList(listIs, listCells', left, listMade, listCount - 1, listFirst', listLast')
<1> DEFINE prev == IF listCount = 1 /\ listIs = "stack" THEN NULL ELSE listCells[listLast].prev
<1>1. /\ listCells' = IF listCount = 1 THEN Freed(listCells, listLast)
                      ELSE Link(Freed(listCells, listLast), prev, "next", NULL)
      /\ listLast' = prev /\ listFirst' = IF listCount = 1 THEN prev ELSE listFirst
  BY DEF PoppedBack
<1>2. prev = IF listCount = 1 /\ listIs = "stack" THEN NULL ELSE listCells[listLast].prev
  OBVIOUS
<1> HIDE DEF prev
<1>3. IsList(listIs, listCells', left, listMade, listCount - 1,
             IF listCount = 1 THEN prev ELSE listFirst, prev)
  BY <1>1, <1>2, BackPopped
<1> QED
  BY <1>1, <1>3

LEMMA PopFrontKeepsList ==
  ASSUME ListInv, PopFront PROVE ListInv'
<1>1. /\ IsList(listIs, listCells, listHeld, listMade, listCount, listFirst, listLast)
      /\ listCount > 0 /\ PoppedFront /\ listCount' = listCount - 1 /\ listHeld' = Tail(listHeld)
      /\ listIs' = listIs /\ listMade' = listMade
  BY DEF ListInv, PopFront
<1>2. listHeld \in Seq(1 .. listMade) /\ listCount = Len(listHeld) /\ listCount \in Nat
  BY ONLY <1>1, ListFacts
<1>3. listHeld # << >>
  BY <1>1, <1>2, EmptySeq
<1>4. /\ Tail(listHeld) \in Seq(1 .. listMade) /\ Len(Tail(listHeld)) = listCount - 1
      /\ \A k \in 1 .. listCount - 1 : Tail(listHeld)[k] = listHeld[k + 1]
  BY <1>2, <1>3, HeadTailProperties
<1>5. IsList(listIs, listCells', Tail(listHeld), listMade, listCount - 1, listFirst', listLast')
  BY <1>1, <1>4, PoppedFrontKeepsList
<1>6. listIs = "vector" /\ listCount - 1 > 0 => listCells'[listFirst'].prev # NULL
  BY <1>1, <1>2, PoppedFrontOrphans
<1>7. listOrphan' /\ UNCHANGED <<listLost, listMisused>>
  BY DEF PopFront
<1> QED
  BY <1>1, <1>5, <1>6, <1>7 DEF ListInv, OrphanInv

LEMMA PopBackKeepsList ==
  ASSUME ListInv, PopBack PROVE ListInv'
<1>1. /\ IsList(listIs, listCells, listHeld, listMade, listCount, listFirst, listLast)
      /\ listCount > 0 /\ PoppedBack /\ listCount' = listCount - 1 /\ listHeld' = Front(listHeld)
      /\ listIs' = listIs /\ listMade' = listMade
  BY DEF ListInv, PopBack
<1>2. listHeld \in Seq(1 .. listMade) /\ listCount = Len(listHeld) /\ listCount \in Nat
  BY ONLY <1>1, ListFacts
<1>3. /\ Front(listHeld) \in Seq(1 .. listMade) /\ Len(Front(listHeld)) = listCount - 1
      /\ \A k \in 1 .. listCount - 1 : Front(listHeld)[k] = listHeld[k]
  BY <1>1, <1>2, FrontIs
<1>4. IsList(listIs, listCells', Front(listHeld), listMade, listCount - 1, listFirst', listLast')
  BY <1>1, <1>3, PoppedBackKeepsList
<1>5. listCount - 1 > 0 =>
        listFirst' = listFirst /\ listCells'[listFirst].prev = listCells[listFirst].prev
  BY <1>1, <1>2, PoppedBackSpares
<1>6. UNCHANGED <<listLost, listOrphan, listMisused>>
  BY DEF PopBack
<1> QED
  BY <1>1, <1>2, <1>4, <1>5, <1>6 DEF ListInv, OrphanInv, PopBack

LEMMA RemoveValueKeepsList ==
  ASSUME ListInv, NEW c \in ToSet(listHeld), RemoveValue(c), ~listLost'
  PROVE  /\ IsList(listIs', listCells', listHeld', listMade', listCount', listFirst', listLast')
         /\ OrphanInv'
<1> DEFINE left == RemoveFirst(listHeld, c)
<1>1. /\ IsList(listIs, listCells, listHeld, listMade, listCount, listFirst, listLast)
      /\ IF listIs = "stack" THEN StackRemoved(c) ELSE VectorRemoved(c)
      /\ listCount' = listCount - 1 /\ listHeld' = left /\ listIs' = listIs /\ listMade' = listMade
  BY DEF ListInv, RemoveValue
<1>2. ~(listIs = "vector" /\ listCells[c].next # NULL /\ listCells[c].prev # NULL
          /\ listCells[c].prev \notin DOMAIN listCells)
  BY DEF RemoveValue
<1>is. listIs \in {"stack", "vector"}
  BY DEF ListInv
<1>3. listHeld \in Seq(1 .. listMade) /\ listCount = Len(listHeld) /\ listCount \in Nat /\ listMade \in Nat
  BY ONLY <1>1, ListFacts
<1>4. /\ \A i \in 1 .. listCount : listHeld[i] \in DOMAIN listCells /\ listHeld[i] \in 1 .. listMade
      /\ \A i, j \in 1 .. listCount : listHeld[i] = listHeld[j] => i = j
  BY ONLY <1>1, ListFacts
<1>5. \A i \in 1 .. listCount :
        listCells[listHeld[i]].next = IF i < listCount THEN listHeld[i + 1] ELSE NULL
  BY ONLY <1>1, ListFacts
<1>6. \A i \in 1 .. listCount : i > 1 => listCells[listHeld[i]].prev = listHeld[i - 1]
  BY ONLY <1>1, ListFacts
<1>7. PICK p \in 1 .. listCount : listHeld[p] = c
  BY <1>3, LenProperties DEF ToSet
<1>8. /\ left \in Seq(1 .. listMade) /\ Len(left) = listCount - 1
      /\ \A k \in 1 .. listCount - 1 : left[k] = IF k < p THEN listHeld[k] ELSE listHeld[k + 1]
  <2>1. \A k \in 1 .. Len(listHeld) : listHeld[k] = c => k = p
    BY <1>3, <1>4, <1>7
  <2>2. p \in 1 .. Len(listHeld)
    BY <1>3
  <2> QED
    <3> DEFINE S == 1 .. listMade
    <3>1. listHeld \in Seq(S)
      BY <1>3
    <3> HIDE DEF S
    <3>2. /\ left \in Seq(S) /\ Len(left) = Len(listHeld) - 1
          /\ \A k \in 1 .. Len(listHeld) - 1 : left[k] = IF k < p THEN listHeld[k] ELSE listHeld[k + 1]
      BY ONLY <1>7, <2>1, <2>2, <3>1, RemoveFirstIs DEF left
    <3> QED
      BY <1>3, <3>2 DEF S
<1> HIDE DEF left
<1>9. /\ listCount > 0 /\ 1 \in 1 .. listCount
      /\ listFirst = listHeld[1] /\ listLast = listHeld[listCount]
      /\ listIs # "stack" => listCells[listFirst].prev \in (0 .. listMade) \ DOMAIN listCells
  BY <1>1, <1>3 DEF IsList
<1>10. c = listFirst <=> p = 1
  BY <1>4, <1>7, <1>9
<1>11. p = 1 => \A k \in 1 .. listCount - 1 : left[k] = listHeld[k + 1]
  BY <1>3, <1>8
<1>12. p = listCount => \A k \in 1 .. listCount - 1 : left[k] = listHeld[k]
  BY <1>3, <1>8
<1>13. IsList(listIs, listCells', left, listMade, listCount - 1, listFirst', listLast')
  <2> DEFINE next == listCells[c].next
             before == listHeld[p - 1]
  <2>1. CASE listIs = "stack" /\ c = listFirst
    <3>1. /\ listFirst' = next /\ listLast' = listLast
          /\ listCells' = Link(listCells, next, "prev", NULL)
      BY <1>1, <2>1 DEF StackRemoved
    <3>2. next = listCells[listFirst].next
      BY <2>1
    <3> HIDE DEF next
    <3>3. IsList("stack", listCells', left, listMade, listCount - 1, next, listLast)
      <4>1. IsList("stack", listCells, listHeld, listMade, listCount, listFirst, listLast)
        BY <1>1, <2>1
      <4> QED
        BY <1>8, <1>9, <1>10, <1>11, <2>1, <3>1, <3>2, <4>1, HeadUnlinked
    <3> QED
      BY <2>1, <3>1, <3>3
  <2>2. ASSUME p > 1,
               listCells' = Link(Link(Freed(listCells, c), before, "next", next), next, "prev", before),
               listFirst' = listFirst, listLast' = IF next = NULL THEN before ELSE listLast
        PROVE  IsList(listIs, listCells', left, listMade, listCount - 1, listFirst', listLast')
    <3>1. next = listCells[listHeld[p]].next
      BY <1>7
    <3>2. listCells' = Link(Link(Freed(listCells, listHeld[p]), before, "next", next), next, "prev", before)
      BY <1>7, <2>2
    <3>3. before = listHeld[p - 1]
      OBVIOUS
    <3> HIDE DEF next, before
    <3>4. IsList(listIs, listCells', left, listMade, listCount - 1, listFirst,
                 IF next = NULL THEN before ELSE listLast)
      BY ONLY <1>1, <1>8, <2>2, <3>1, <3>2, <3>3, MiddleUnlinked
    <3> QED
      BY <2>2, <3>4
  <2>3. CASE listIs = "stack" /\ c # listFirst
    <3>1. p > 1 /\ p - 1 \in 1 .. listCount
      BY <1>3, <1>10, <2>3
    <3>2. before \in ToSet(listHeld) /\ listCells[before].next = c
      <4>1. (p - 1) + 1 = p /\ p - 1 < listCount
        BY <1>3, <3>1
      <4>2. DOMAIN listHeld = 1 .. listCount
        BY <1>3, LenProperties
      <4>3. before \in ToSet(listHeld)
        BY <3>1, <4>2 DEF ToSet
      <4>4. listCells[listHeld[p - 1]].next = listHeld[(p - 1) + 1]
        BY <1>5, <3>1, <4>1
      <4> QED
        BY <1>7, <4>1, <4>3, <4>4
    <3>3. \A d \in ToSet(listHeld) : listCells[d].next = c => d = before
      <4> SUFFICES ASSUME NEW d \in ToSet(listHeld), listCells[d].next = c PROVE d = before
        OBVIOUS
      <4>1. PICK i \in 1 .. listCount : listHeld[i] = d
        BY <1>3, LenProperties DEF ToSet
      <4>2. i < listCount /\ listHeld[i + 1] = c
        <5>1. c # NULL
          BY <1>4, <1>7 DEF NULL
        <5> QED
          BY <1>5, <4>1, <5>1
      <4>3. i + 1 \in 1 .. listCount
        BY <1>3, <4>2
      <4>4. i + 1 = p
        BY <1>4, <1>7, <4>2, <4>3
      <4> QED
        BY <4>1, <4>4
    <3>4. before = CHOOSE d \in ToSet(listHeld) : listCells[d].next = c
      BY <3>2, <3>3
    <3> HIDE DEF before
    <3>5. /\ listFirst' = listFirst
          /\ listCells' = Link(Link(Freed(listCells, c), before, "next", next), next, "prev", before)
          /\ listLast' = IF next = NULL THEN before ELSE listLast
      BY <1>1, <2>3, <3>4 DEF StackRemoved
    <3> QED
      BY <2>2, <3>1, <3>5
  <2>4. CASE listIs # "stack" /\ next # NULL /\ listCells[c].prev # NULL
    <3>1. listCells[c].prev \in DOMAIN listCells
      BY <1>2, <1>is, <2>4
    <3>2. p > 1
      BY <1>7, <1>9, <1>10, <2>4, <3>1
    <3>3. before = listCells[c].prev
      BY <1>6, <1>7, <3>2
    <3>4. /\ listFirst' = listFirst /\ listLast' = listLast
          /\ listCells' = Link(Link(Freed(listCells, c), before, "next", next), next, "prev", before)
      BY <1>1, <2>4, <3>3 DEF VectorRemoved
    <3> QED
      BY <2>2, <2>4, <3>2, <3>4
  <2>5. CASE listIs # "stack" /\ next = NULL
    <3>1. p = listCount
      <4>1. ASSUME p # listCount PROVE FALSE
        <5>1. p < listCount /\ p + 1 \in 1 .. listCount
          BY <1>3, <4>1
        <5>2. next = listHeld[p + 1]
          BY <1>5, <1>7, <5>1
        <5> QED
          BY <1>4, <2>5, <5>1, <5>2 DEF NULL
      <4> QED
        BY <4>1
    <3>2. PoppedBack
      BY <1>1, <2>5 DEF VectorRemoved
    <3> QED
      BY <1>1, <1>8, <1>9, <1>12, <3>1, <3>2, PoppedBackKeepsList
  <2>6. CASE listIs # "stack" /\ next # NULL /\ listCells[c].prev = NULL
    <3>1. p = 1
      <4>1. ASSUME p # 1 PROVE FALSE
        <5>1. p > 1 /\ p - 1 \in 1 .. listCount
          BY <1>3, <4>1
        <5>2. listCells[c].prev = listHeld[p - 1]
          BY <1>6, <1>7, <5>1
        <5> QED
          BY <1>4, <2>6, <5>1, <5>2 DEF NULL
      <4> QED
        BY <4>1
    <3>2. PoppedFront
      BY <1>1, <2>6 DEF VectorRemoved
    <3> QED
      BY <1>1, <1>8, <1>9, <1>11, <3>1, <3>2, PoppedFrontKeepsList
  <2> QED
    BY <2>1, <2>3, <2>4, <2>5, <2>6
<1>14. ASSUME listIs = "vector", listCount - 1 > 0
       PROVE  listOrphan' <=> listCells'[listFirst'].prev # NULL
  <2>0. listCount > 1
    BY <1>3, <1>14
  <2>1. /\ listOrphan' = (listOrphan \/ p = 1)
        /\ listOrphan <=> listCells[listFirst].prev # NULL
    BY <1>3, <1>9, <1>10, <1>14 DEF RemoveValue, ListInv, OrphanInv
  <2>2. CASE p = 1
    <3>1. listCells[c].next # NULL
      <4>1. listCells[listHeld[1]].next = listHeld[1 + 1] /\ 1 + 1 \in 1 .. listCount
        BY <1>3, <1>5, <1>9, <1>14
      <4> QED
        BY <1>4, <1>7, <2>2, <4>1 DEF NULL
    <3>2. listCells[c].prev = NULL
      BY <1>2, <1>9, <1>10, <1>14, <2>2, <3>1
    <3>3. PoppedFront
      BY <1>1, <1>14, <3>1, <3>2 DEF VectorRemoved
    <3> QED
      <4>1. listCells'[listFirst'].prev # NULL
        BY <1>1, <1>14, <2>0, <3>3, PoppedFrontOrphans
      <4> QED
        BY <2>1, <2>2, <4>1
  <2>3. CASE p # 1 /\ listCells[c].next = NULL
    <3>1. PoppedBack
      BY <1>1, <1>14, <2>3 DEF VectorRemoved
    <3> QED
      <4>1. listFirst' = listFirst /\ listCells'[listFirst].prev = listCells[listFirst].prev
        BY <1>1, <2>0, <3>1, PoppedBackSpares
      <4> QED
        BY <2>1, <2>3, <4>1
  <2>4. CASE p # 1 /\ listCells[c].next # NULL
    <3> DEFINE D == DOMAIN listCells \ {c}
               freed == Freed(listCells, c)
               prev == listCells[c].prev
               next == listCells[c].next
    <3>1. p > 1 /\ p - 1 \in 1 .. listCount
      BY <1>3, <2>4
    <3>2. prev = listHeld[p - 1] /\ prev # NULL
      BY <1>4, <1>6, <1>7, <3>1 DEF NULL
    <3>3. /\ listCells' = Link(Link(freed, prev, "next", next), next, "prev", prev)
          /\ listFirst' = listFirst
      BY <1>1, <1>14, <2>4, <3>2 DEF VectorRemoved
    <3>4. next = listHeld[p + 1] /\ p + 1 \in 1 .. listCount /\ p + 1 # 1
      BY <1>3, <1>5, <1>7, <2>4
    <3>5. listFirst \in D /\ listFirst # next
      BY <1>4, <1>9, <1>10, <2>4, <3>4
    <3>6. listCells \in [DOMAIN listCells -> Cells]
      BY <1>1, ListFacts
    <3>7. prev \in Nat /\ next \in Nat
      BY <1>3, <1>4, <3>1, <3>2, <3>4
    <3>8. freed \in [D -> Cells] /\ freed[listFirst] = listCells[listFirst]
      BY <3>5, <3>6 DEF Freed
    <3> HIDE DEF D, freed, prev, next
    <3>9. /\ Link(freed, prev, "next", next) \in [D -> Cells]
          /\ Link(freed, prev, "next", next)[listFirst].prev = freed[listFirst].prev
      BY <3>5, <3>7, <3>8, LinkNext
    <3>10. listCells'[listFirst].prev = Link(freed, prev, "next", next)[listFirst].prev
      BY <3>3, <3>5, <3>7, <3>9, LinkPrev
    <3> QED
      BY <2>1, <2>4, <3>3, <3>8, <3>9, <3>10
  <2> QED
    BY <2>2, <2>3, <2>4
<1> QED
  BY <1>1, <1>13, <1>14 DEF OrphanInv

\* A removal loses the list just when it is of the kind that does.
LEMMA RemoveValueLoses ==
  ASSUME ListInv, NEW c \in ToSet(listHeld), RemoveValue(c)
  PROVE  listLost' \in BOOLEAN /\ listLost' = listMisused'
<1>1. /\ IsList(listIs, listCells, listHeld, listMade, listCount, listFirst, listLast)
      /\ OrphanInv
  BY DEF ListInv, RemoveValue
<1>2. /\ listHeld \in Seq(1 .. listMade) /\ listCount = Len(listHeld) /\ listCount \in Nat
      /\ \A i \in 1 .. listCount : listHeld[i] \in DOMAIN listCells /\ listHeld[i] \in 1 .. listMade
      /\ \A i, j \in 1 .. listCount : listHeld[i] = listHeld[j] => i = j
  BY <1>1, ListFacts
<1>3. /\ \A i \in 1 .. listCount :
           listCells[listHeld[i]].next = IF i < listCount THEN listHeld[i + 1] ELSE NULL
      /\ \A i \in 1 .. listCount : i > 1 => listCells[listHeld[i]].prev = listHeld[i - 1]
  BY <1>1, ListFacts
<1>4. PICK p \in 1 .. listCount : listHeld[p] = c
  BY <1>2, LenProperties DEF ToSet
<1>5. /\ listCount > 0 /\ 1 \in 1 .. listCount /\ listFirst = listHeld[1]
      /\ listIs # "stack" => listCells[listFirst].prev \in (0 .. listMade) \ DOMAIN listCells
  BY <1>1, <1>2 DEF IsList
<1>6. c = listHeld[1] <=> p = 1
  BY <1>2, <1>4, <1>5
<1>7. listHeld # <<c>> <=> p # 1 \/ listCount # 1
  <2>1. <<c>> \in Seq({c}) /\ Len(<<c>>) = 1 /\ <<c>>[1] = c
    OBVIOUS
  <2>2. CASE listCount = 1
    <3>1. listHeld = <<c>>
      <4>1. listHeld[1] = c /\ Len(listHeld) = 1 /\ DOMAIN listHeld = 1 .. 1
        <5>1. listHeld \in Seq(1 .. listMade) /\ Len(listHeld) = 1
          BY <1>2, <2>2
        <5>2. p = 1
          BY <2>2, <1>4
        <5>3. DOMAIN listHeld = 1 .. Len(listHeld)
          BY <5>1, LenProperties
        <5> QED
          BY <1>4, <5>1, <5>2, <5>3
      <4>2. listHeld \in [1 .. 1 -> 1 .. listMade]
        BY <1>2, <4>1, LenProperties
      <4>3. listHeld = [i \in 1 .. 1 |-> c]
        BY <4>1, <4>2
      <4>4. <<c>> = [i \in 1 .. 1 |-> c]
        OBVIOUS
      <4> QED
        BY <4>3, <4>4
    <3> QED
      BY <1>4, <2>2, <3>1
  <2>3. CASE listCount # 1
    BY <1>2, <2>1, <2>3
  <2> QED
    BY <2>2, <2>3
<1>8. /\ listLost' = (listIs = "vector" /\ listCells[c].next # NULL /\ listCells[c].prev # NULL
                         /\ listCells[c].prev \notin DOMAIN listCells)
      /\ listMisused' = (listIs = "vector" /\ listOrphan /\ c = listHeld[1] /\ listHeld # <<c>>)
  BY DEF RemoveValue
<1>9. CASE p = 1
  <2>1. listCells[c].next # NULL <=> listCount # 1
    <3>1. 1 < listCount => 1 + 1 \in 1 .. listCount
      BY <1>2
    <3> QED
      BY <1>2, <1>3, <1>4, <1>5, <1>9, <3>1 DEF NULL
  <2>2. listIs = "vector" => (listOrphan <=> listCells[c].prev # NULL)
    BY <1>1, <1>4, <1>5, <1>9 DEF OrphanInv
  <2>3. listIs = "vector" => listCells[c].prev \notin DOMAIN listCells
    BY <1>4, <1>5, <1>9
  <2> QED
    BY <1>6, <1>7, <1>8, <1>9, <2>1, <2>2, <2>3
<1>10. CASE p # 1
  <2>1. p > 1 /\ p - 1 \in 1 .. listCount
    BY <1>2, <1>10
  <2>2. listCells[c].prev \in DOMAIN listCells
    BY <1>2, <1>3, <1>4, <2>1
  <2> QED
    BY <1>6, <1>8, <1>10, <2>2
<1> QED
  BY <1>9, <1>10

LEMMA ListStep == ListInv /\ [ListNext]_listVars => ListInv'
<1> SUFFICES ASSUME ListInv, [ListNext]_listVars PROVE ListInv'
  OBVIOUS
<1>1. CASE PushBack
  BY <1>1, PushBackKeepsList
<1>2. CASE PushFront
  BY <1>2, PushFrontKeepsList
<1>3. CASE PopFront
  BY <1>3, PopFrontKeepsList
<1>4. CASE PopBack
  BY <1>4, PopBackKeepsList
<1>5. CASE RemoveMissing
  BY <1>5 DEF RemoveMissing, ListInv, OrphanInv
<1>6. CASE \E c \in ToSet(listHeld) : RemoveValue(c)
  <2> SUFFICES ASSUME NEW c \in ToSet(listHeld), RemoveValue(c) PROVE ListInv'
    BY <1>6
  <2>1. listLost' \in BOOLEAN /\ listLost' = listMisused'
    BY RemoveValueLoses
  <2>2. ~listLost' =>
          /\ IsList(listIs', listCells', listHeld', listMade', listCount', listFirst', listLast')
          /\ OrphanInv'
    BY RemoveValueKeepsList
  <2>3. listIs' = listIs
    BY DEF RemoveValue
  <2> QED
    BY <2>1, <2>2, <2>3 DEF ListInv
<1>7. CASE UNCHANGED listVars
  BY <1>7 DEF listVars, ListInv, OrphanInv
<1> QED
  BY <1>1, <1>2, <1>3, <1>4, <1>5, <1>6, <1>7 DEF ListNext

\* For lists of any length, in stack.c and vector.c: after pushes, pops and removals the cells
\* from the first along next are the values in their order, the last closes the list, and
\* prev undoes next behind the first; unless a vector was asked to remove a value it does
\* not hold, or the first of several that came first itself when the one before it was
\* popped or removed, and then a freed cell, or none, was used as one of the list.
THEOREM ListsAreRight == ListSpec => []ListsAreSequences
<1>1. ListInv => ListsAreSequences
  <2> SUFFICES ASSUME ListInv, ~listLost, ~listMisused PROVE ListsAreSequences
    BY DEF ListInv, ListsAreSequences
  <2>1. IsList(listIs, listCells, listHeld, listMade, listCount, listFirst, listLast)
    BY DEF ListInv
  <2>2. listHeld \in Seq(1 .. listMade) /\ listCount = Len(listHeld) /\ listCount \in Nat
    BY ONLY <2>1, ListFacts
  <2>3. \A i \in 1 .. listCount : listHeld[i] \in DOMAIN listCells
    BY ONLY <2>1, ListFacts
  <2>4. \A i \in 1 .. listCount :
          listCells[listHeld[i]].next = IF i < listCount THEN listHeld[i + 1] ELSE NULL
    BY ONLY <2>1, ListFacts
  <2>5. \A i \in 1 .. listCount : i > 1 => listCells[listHeld[i]].prev = listHeld[i - 1]
    BY ONLY <2>1, ListFacts
  <2>6. listCount > 0 => /\ listFirst = listHeld[1] /\ listLast = listHeld[listCount]
                         /\ listCount \in 1 .. listCount
    BY <2>1, <2>2 DEF IsList
  <2>7. ToSet(listHeld) \subseteq DOMAIN listCells
    BY <2>2, <2>3, LenProperties DEF ToSet
  <2>8. listCount > 0 => /\ listFirst = listHeld[1] /\ listLast = Last(listHeld)
                         /\ listCells[listLast].next = NULL
    BY <2>2, <2>4, <2>6 DEF Last
  <2>9. \A i \in 1 .. listCount - 1 : /\ listCells[listHeld[i]].next = listHeld[i + 1]
                                      /\ listCells[listHeld[i + 1]].prev = listHeld[i]
    <3> SUFFICES ASSUME NEW i \in 1 .. listCount - 1
                 PROVE  /\ listCells[listHeld[i]].next = listHeld[i + 1]
                        /\ listCells[listHeld[i + 1]].prev = listHeld[i]
      OBVIOUS
    <3>1. i \in 1 .. listCount /\ i < listCount
      BY <2>2
    <3>2. i + 1 \in 1 .. listCount /\ i + 1 > 1 /\ (i + 1) - 1 = i
      BY <2>2
    <3>3. listCells[listHeld[i]].next = listHeld[i + 1]
      BY <2>4, <3>1
    <3>4. listCells[listHeld[i + 1]].prev = listHeld[(i + 1) - 1]
      BY <2>5, <3>2
    <3> QED
      BY <3>2, <3>3, <3>4
  <2> QED
    BY <2>2, <2>7, <2>8, <2>9 DEF ListsAreSequences
<1> QED
  BY ListInitInv, ListStep, <1>1, PTL DEF ListSpec

-----------------------------------------------------------------------------
\* Induction for a predicate that is a set of numbers.
LEMMA Induction ==
  ASSUME NEW L \in Nat, NEW P, 0 \in P, \A n \in 1 .. L : n - 1 \in P => n \in P
  PROVE  \A n \in 0 .. L : n \in P
<1> DEFINE Bad == {n \in 0 .. L : n \notin P}
<1> SUFFICES ASSUME Bad # {} PROVE FALSE
  OBVIOUS
<1>1. PICK m \in Bad : \A l \in Bad : m <= l
  <2>1. Bad \in SUBSET Nat
    OBVIOUS
  <2> HIDE DEF Bad
  <2> QED
    BY <2>1, LeastNat
<1>2. m \in 1 .. L /\ m - 1 \in 0 .. L /\ ~(m <= m - 1)
  BY <1>1
<1>3. m - 1 \in P
  BY <1>1, <1>2
<1> QED
  BY <1>1, <1>2, <1>3

\* A function is iterated on a set that it does not lead out of.
Iterates(g, S, a, F, L) ==
  g \in [0 .. L -> S] /\ g[0] = a /\ \A n \in 1 .. L : g[n] = F[n][g[n - 1]]

LEMMA Iteration ==
  ASSUME NEW S, NEW a \in S, NEW F \in [Nat -> [S -> S]], NEW L \in Nat
  PROVE  \E g : Iterates(g, S, a, F, L)
<1> DEFINE Is(g, m) == g \in [0 .. m -> S] /\ g[0] = a /\ \A n \in 1 .. m : g[n] = F[n][g[n - 1]]
           P == {m \in Nat : \E g : Is(g, m)}
<1>1. 0 \in P
  <2>1. Is([n \in 0 .. 0 |-> a], 0)
    OBVIOUS
  <2> QED
    BY <2>1
<1>2. ASSUME NEW m \in 1 .. L, m - 1 \in P PROVE m \in P
  <2>1. PICK g : Is(g, m - 1)
    BY <1>2
  <2> DEFINE h == [n \in 0 .. m |-> IF n = m THEN F[m][g[m - 1]] ELSE g[n]]
  <2>2. m - 1 \in 0 .. m - 1 /\ m \in Nat /\ 0 # m /\ 0 \in 0 .. m
    OBVIOUS
  <2>3. g[m - 1] \in S /\ F[m] \in [S -> S]
    BY <2>1, <2>2
  <2>4. ASSUME NEW n \in 0 .. m PROVE h[n] \in S
    <3>1. n # m => n \in 0 .. m - 1
      BY <2>2
    <3> QED
      BY <2>1, <2>3, <3>1
  <2>5. ASSUME NEW n \in 1 .. m PROVE h[n] = F[n][h[n - 1]]
    <3>1. n - 1 \in 0 .. m /\ n - 1 # m /\ n \in 0 .. m /\ (n # m => n \in 1 .. m - 1)
      BY <2>2
    <3> QED
      BY <2>1, <3>1
  <2>6. h \in [0 .. m -> S]
    BY <2>4
  <2>7. h[0] = a
    BY <2>1, <2>2
  <2>8. Is(h, m)
    BY <2>5, <2>6, <2>7
  <2> QED
    BY <2>2, <2>8
<1>3. L \in P
  <2> HIDE DEF P
  <2>1. \A m \in 0 .. L : m \in P
    BY <1>1, <1>2, Induction
  <2> QED
    BY <2>1
<1> QED
  BY <1>3 DEF Iterates

\* What two lists have, one after the other.
LEMMA ConcatIs ==
  ASSUME NEW S, NEW s \in Seq(S), NEW t \in Seq(S)
  PROVE  s \o t \in Seq(S) /\ ToSet(s \o t) = ToSet(s) \cup ToSet(t)
<1> DEFINE u == s \o t
<1>1. /\ Len(s) \in Nat /\ Len(t) \in Nat /\ DOMAIN s = 1 .. Len(s) /\ DOMAIN t = 1 .. Len(t)
  BY LenProperties
<1>2. /\ u \in Seq(S) /\ Len(u) = Len(s) + Len(t)
      /\ \A k \in 1 .. Len(s) + Len(t) : u[k] = IF k <= Len(s) THEN s[k] ELSE t[k - Len(s)]
  BY ConcatProperties
<1>3. DOMAIN u = 1 .. Len(s) + Len(t)
  BY <1>2, LenProperties
<1> HIDE DEF u
<1>4. ASSUME NEW k \in DOMAIN u PROVE u[k] \in ToSet(s) \cup ToSet(t)
  <2>1. CASE k <= Len(s)
    <3>1. k \in DOMAIN s /\ u[k] = s[k]
      BY <1>1, <1>2, <1>3, <2>1
    <3> QED
      BY <3>1 DEF ToSet
  <2>2. CASE ~(k <= Len(s))
    <3>1. k - Len(s) \in DOMAIN t /\ u[k] = t[k - Len(s)]
      BY <1>1, <1>2, <1>3, <2>2
    <3> QED
      BY <3>1 DEF ToSet
  <2> QED
    BY <2>1, <2>2
<1>5. ASSUME NEW k \in DOMAIN s PROVE s[k] \in ToSet(u)
  <2>1. k \in DOMAIN u /\ u[k] = s[k]
    BY <1>1, <1>2, <1>3
  <2> QED
    BY <2>1 DEF ToSet
<1>6. ASSUME NEW k \in DOMAIN t PROVE t[k] \in ToSet(u)
  <2>1. k + Len(s) \in DOMAIN u /\ u[k + Len(s)] = t[k]
    BY <1>1, <1>2, <1>3
  <2> QED
    BY <2>1 DEF ToSet
<1>7. ToSet(u) = ToSet(s) \cup ToSet(t)
  <2>1. ToSet(u) \subseteq ToSet(s) \cup ToSet(t)
    <3> SUFFICES ASSUME NEW x \in ToSet(u) PROVE x \in ToSet(s) \cup ToSet(t)
      OBVIOUS
    <3>1. PICK k \in DOMAIN u : x = u[k]
      BY DEF ToSet
    <3> QED
      BY <1>4, <3>1
  <2>2. ToSet(s) \subseteq ToSet(u)
    BY <1>5 DEF ToSet
  <2>3. ToSet(t) \subseteq ToSet(u)
    BY <1>6 DEF ToSet
  <2> QED
    BY <2>1, <2>2, <2>3
<1> QED
  BY <1>2, <1>7 DEF u

\* The elements of a list of lists, one list after the other.
LEMMA FlattenIs ==
  ASSUME NEW S, NEW seqs \in Seq(Seq(S))
  PROVE  ToSet(FlattenSeq(seqs)) = UNION {ToSet(seqs[i]) : i \in DOMAIN seqs}
<1> DEFINE L == Len(seqs)
           T == Seq(S)
           Next1(x, n) == IF n = 1 THEN seqs[n] ELSE x \o seqs[n]
           Is(g) == g = [n \in 1 .. L |-> Next1(g[n - 1], n)]
           A == CHOOSE g : Is(g)
           F == [n \in Nat |-> [x \in T |-> IF n \in 1 .. L THEN Next1(x, n) ELSE x]]
           upto(n) == UNION {ToSet(seqs[i]) : i \in 1 .. n}
           P == {n \in Nat : n = 0 \/ (A[n] \in T /\ ToSet(A[n]) = upto(n))}
<1>1. L \in Nat /\ DOMAIN seqs = 1 .. L /\ \A n \in 1 .. L : seqs[n] \in T
  BY LenProperties
<1>2. CASE L = 0
  <2>1. seqs = << >> /\ DOMAIN seqs = {}
    BY <1>2, EmptySeq
  <2>2. FlattenSeq(seqs) = << >>
    BY <1>2, <2>1 DEF FlattenSeq
  <2> QED
    BY <2>1, <2>2 DEF ToSet
<1>3. CASE L # 0
  <2>1. ASSUME NEW x \in T, NEW n \in 1 .. L PROVE Next1(x, n) \in T
    BY <1>1, ConcatProperties
  <2>2. F \in [Nat -> [T -> T]]
    <3> HIDE DEF Next1, T
    <3> QED
      BY <2>1
  <2>3. << >> \in T
    BY EmptySeq
  <2>4. PICK h : Iterates(h, T, << >>, F, L)
    <3> HIDE DEF F, T
    <3> QED
      BY <1>1, <2>2, <2>3, Iteration
  <2> DEFINE g == [n \in 1 .. L |-> h[n]]
  <2>5. Is(g)
    <3>1. ASSUME NEW n \in 1 .. L PROVE h[n] = Next1(g[n - 1], n)
      <4>1. n \in 0 .. L /\ n - 1 \in 0 .. L /\ n \in Nat /\ (n # 1 => n - 1 \in 1 .. L)
        BY <1>1
      <4>2. h[n - 1] \in T
        BY <2>4, <4>1 DEF Iterates
      <4>3. h[n] = F[n][h[n - 1]]
        BY <2>4 DEF Iterates
      <4>4. h[n] = Next1(h[n - 1], n)
        <5> HIDE DEF Next1, T
        <5> QED
          BY <4>1, <4>2, <4>3
      <4>5. n # 1 => g[n - 1] = h[n - 1]
        BY <4>1
      <4> HIDE DEF g
      <4> QED
        BY <4>4, <4>5
    <3> HIDE DEF Next1
    <3> QED
      BY <3>1
  <2>6. Is(A)
    <3> HIDE DEF Is
    <3> QED
      BY <2>5
  <2>7. ASSUME NEW n \in 1 .. L PROVE A[n] = Next1(A[n - 1], n)
    <3> HIDE DEF A, Next1
    <3> QED
      BY <2>6, <2>7
  <2> HIDE DEF A
  <2>8. \A n \in 0 .. L : n \in P
    <3>1. 0 \in P
      OBVIOUS
    <3>2. ASSUME NEW n \in 1 .. L, n - 1 \in P PROVE n \in P
      <4>1. n \in Nat /\ n - 1 \in Nat /\ seqs[n] \in T /\ A[n] = Next1(A[n - 1], n)
        BY <1>1, <2>7
      <4>2. upto(n) = upto(n - 1) \cup ToSet(seqs[n])
        <5>1. 1 .. n = (1 .. n - 1) \cup {n}
          BY <4>1
        <5> QED
          BY <5>1
      <4>3. CASE n = 1
        <5>1. upto(0) = {}
          BY EmptySeq
        <5>2. upto(n - 1) = upto(0)
          BY <4>3
        <5>3. A[n] = seqs[n]
          BY <4>1, <4>3
        <5> HIDE DEF upto
        <5>4. ToSet(A[n]) = upto(n)
          BY <4>2, <5>1, <5>2, <5>3
        <5> QED
          BY <4>1, <5>3, <5>4
      <4>4. CASE n # 1
        <5> DEFINE x == A[n - 1]
        <5>1. x \in T /\ ToSet(x) = upto(n - 1)
          <6>1. n - 1 # 0
            BY <4>1, <4>4
          <6> HIDE DEF upto, T
          <6> QED
            BY <3>2, <6>1
        <5>2. A[n] = x \o seqs[n]
          BY <4>1, <4>4
        <5> DEFINE last == seqs[n]
        <5>5. x \in Seq(S) /\ last \in Seq(S)
          BY <4>1, <5>1
        <5> HIDE DEF x, last, upto
        <5>6. x \o last \in Seq(S) /\ ToSet(x \o last) = ToSet(x) \cup ToSet(last)
          BY <5>5, ConcatIs
        <5>3. A[n] \in T /\ ToSet(A[n]) = ToSet(x) \cup ToSet(seqs[n])
          BY <5>2, <5>6 DEF last
        <5>4. ToSet(A[n]) = upto(n)
          BY <4>2, <5>1, <5>3
        <5> HIDE DEF T
        <5> QED
          BY <4>1, <5>3, <5>4
      <4> QED
        BY <4>3, <4>4
    <3> HIDE DEF P
    <3> QED
      BY <1>1, <3>1, <3>2, Induction
  <2>9. ToSet(A[L]) = upto(L)
    <3>1. L \in P
      <4> HIDE DEF P
      <4> QED
        BY <1>1, <2>8
    <3> HIDE DEF upto, T
    <3> QED
      BY <1>3, <3>1
  <2>10. FlattenSeq(seqs) = A[L]
    BY <1>3 DEF FlattenSeq, A, L
  <2> QED
    BY <1>1, <2>9, <2>10
<1> QED
  BY <1>2, <1>3
-----------------------------------------------------------------------------
\* Cron: how often something is in a list.
Times(list, x) == Cardinality(Positions(list, x))

LEMMA TimesIs ==
  ASSUME NEW S, NEW s \in Seq(S), NEW x
  PROVE  /\ IsFiniteSet(Positions(s, x)) /\ Times(s, x) \in Nat
         /\ Positions(s, x) \in SUBSET (1 .. Len(s)) /\ Len(s) \in Nat
         /\ x \in ToSet(s) <=> Times(s, x) > 0
         /\ x \in ToSet(s) <=> Positions(s, x) # {}
<1>1. Len(s) \in Nat /\ DOMAIN s = 1 .. Len(s)
  BY LenProperties
<1>2. Positions(s, x) \in SUBSET (1 .. Len(s))
  BY <1>1 DEF Positions
<1>3. IsFiniteSet(1 .. Len(s))
  BY <1>1, FS_Interval
<1>4. IsFiniteSet(Positions(s, x)) /\ Times(s, x) \in Nat
  BY <1>2, <1>3, FS_Subset, FS_CardinalityType DEF Times
<1>5. Positions(s, x) # {} <=> Times(s, x) > 0
  BY <1>4, FS_EmptySet DEF Times
<1>6. x \in ToSet(s) <=> Positions(s, x) # {}
  BY DEF ToSet, Positions
<1> QED
  BY <1>1, <1>2, <1>4, <1>5, <1>6

\* One more at the end.
LEMMA TimesAppended ==
  ASSUME NEW S, NEW s \in Seq(S), NEW y \in S, NEW x
  PROVE  /\ Append(s, y) \in Seq(S) /\ ToSet(Append(s, y)) = ToSet(s) \cup {y}
         /\ Times(Append(s, y), x) = IF x = y THEN Times(s, x) + 1 ELSE Times(s, x)
<1> DEFINE t == Append(s, y)
<1>1. Len(s) \in Nat /\ DOMAIN s = 1 .. Len(s)
  BY LenProperties
<1>2. /\ t \in Seq(S) /\ DOMAIN t = 1 .. Len(s) + 1 /\ t[Len(s) + 1] = y
      /\ \A i \in 1 .. Len(s) : t[i] = s[i]
  <2>1. t \in Seq(S) /\ Len(t) = Len(s) + 1 /\ \A i \in 1 .. Len(s) + 1 : t[i] = IF i <= Len(s) THEN s[i] ELSE y
    BY AppendProperties
  <2>2. DOMAIN t = 1 .. Len(t)
    BY <2>1, LenProperties
  <2> HIDE DEF t
  <2> QED
    BY <1>1, <2>1, <2>2
<1>3. Positions(t, x) = IF x = y THEN Positions(s, x) \cup {Len(s) + 1} ELSE Positions(s, x)
  <2> HIDE DEF t
  <2> QED
    BY <1>1, <1>2 DEF Positions
<1>4. ToSet(t) = ToSet(s) \cup {y}
  <2> HIDE DEF t
  <2>1. ASSUME NEW z PROVE z \in ToSet(t) <=> z \in ToSet(s) \cup {y}
    <3>1. z \in ToSet(t) <=> \E i \in 1 .. Len(s) + 1 : z = t[i]
      BY <1>2 DEF ToSet
    <3>2. z \in ToSet(s) <=> \E i \in 1 .. Len(s) : z = s[i]
      BY <1>1 DEF ToSet
    <3>3. \A i : i \in 1 .. Len(s) + 1 <=> (i \in 1 .. Len(s) \/ i = Len(s) + 1)
      BY <1>1
    <3> QED
      BY <1>2, <3>1, <3>2, <3>3
  <2> QED
    BY <2>1
<1>5. Times(t, x) = IF x = y THEN Times(s, x) + 1 ELSE Times(s, x)
  <2>1. IsFiniteSet(Positions(s, x)) /\ Len(s) + 1 \notin Positions(s, x)
    <3>1. Positions(s, x) \in SUBSET (1 .. Len(s)) /\ IsFiniteSet(Positions(s, x))
      BY TimesIs
    <3> QED
      BY <1>1, <3>1
  <2>2. Cardinality(Positions(s, x) \cup {Len(s) + 1}) = Cardinality(Positions(s, x)) + 1
    BY <2>1, FS_AddElement
  <2> HIDE DEF t
  <2> QED
    BY <1>3, <2>2 DEF Times
<1> QED
  BY <1>2, <1>4, <1>5

\* What is left of a list has its elements as often as the positions kept.
LEMMA TimesLeft ==
  ASSUME NEW S, NEW s \in Seq(S), NEW t \in Seq(S), NEW kept \in SUBSET DOMAIN s,
         IsLeft(t, s, kept), NEW x
  PROVE  /\ Times(t, x) = Cardinality(Positions(s, x) \cap kept)
         /\ ToSet(t) \subseteq ToSet(s)
<1>1. PICK f \in [DOMAIN t -> DOMAIN s] :
        /\ \A k, l \in DOMAIN t : k < l => f[k] < f[l]
        /\ \A k \in DOMAIN t : t[k] = s[f[k]] /\ f[k] \in kept
        /\ \A i \in kept : \E k \in DOMAIN t : f[k] = i
  BY DEF IsLeft
<1>2. DOMAIN t \subseteq Nat /\ DOMAIN s \subseteq Nat
  BY LenProperties
<1> DEFINE A == Positions(t, x)
           B == Positions(s, x) \cap kept
           g == [k \in A |-> f[k]]
<1>3. A \subseteq DOMAIN t /\ IsFiniteSet(A) /\ IsFiniteSet(Positions(s, x))
  BY TimesIs DEF Positions
<1>4. g \in [A -> B]
  <2>1. ASSUME NEW k \in A PROVE f[k] \in B
    BY <1>1, <2>1 DEF Positions
  <2> HIDE DEF A, B
  <2> QED
    BY <2>1
<1>5. \A k, l \in A : g[k] = g[l] => k = l
  <2> SUFFICES ASSUME NEW k \in A, NEW l \in A, f[k] = f[l] PROVE k = l
    OBVIOUS
  <2>1. k \in DOMAIN t /\ l \in DOMAIN t /\ f[k] \in DOMAIN s /\ f[l] \in DOMAIN s
    BY <1>1, <1>3
  <2>2. k \in Nat /\ l \in Nat /\ f[k] \in Nat /\ f[l] \in Nat
    BY <1>2, <2>1
  <2>3. ~(k < l) /\ ~(l < k)
    BY <1>1, <2>1, <2>2
  <2> QED
    BY <2>2, <2>3
<1>6. \A i \in B : \E k \in A : g[k] = i
  <2> SUFFICES ASSUME NEW i \in B PROVE \E k \in A : g[k] = i
    OBVIOUS
  <2>1. PICK k \in DOMAIN t : f[k] = i
    BY <1>1
  <2>2. t[k] = x
    BY <1>1, <2>1 DEF Positions
  <2>3. k \in A
    BY <2>2 DEF Positions
  <2> QED
    BY <2>1, <2>3
<1>7. IsFiniteSet(B)
  BY <1>3, FS_Subset
<1> HIDE DEF A, B, g
<1>8. g \in Bijection(A, B)
  BY <1>4, <1>5, <1>6 DEF Bijection, Injection, IsInjective, Surjection
<1>9. Cardinality(A) = Cardinality(B)
  BY <1>3, <1>8, FS_Bijection DEF ExistsBijection
<1>10. ToSet(t) \subseteq ToSet(s)
  BY <1>1 DEF ToSet
<1> QED
  BY <1>9, <1>10 DEF A, B, Times

\* The first that is equal goes.
LEMMA TimesWithoutFirst ==
  ASSUME NEW S, NEW s \in Seq(S), NEW x \in ToSet(s), NEW y
  PROVE  LET t == WithoutFirst(s, Positions(s, x)) IN
         /\ t \in Seq(S) /\ ToSet(t) \subseteq ToSet(s)
         /\ Times(t, y) = IF y = x THEN Times(s, y) - 1 ELSE Times(s, y)
<1> DEFINE hits == Positions(s, x)
           t == WithoutFirst(s, hits)
           m == Min(hits)
<1>1. hits \in SUBSET DOMAIN s /\ hits # {}
  BY TimesIs DEF Positions
<1>2. t \in Seq(S) /\ m \in hits /\ IsLeft(t, s, DOMAIN s \ {m})
  <2> HIDE DEF hits
  <2> QED
    BY <1>1, WithoutFirstLeft
<1>3. Times(t, y) = Cardinality(Positions(s, y) \cap (DOMAIN s \ {m})) /\ ToSet(t) \subseteq ToSet(s)
  <2> DEFINE kept == DOMAIN s \ {m}
  <2>1. kept \in SUBSET DOMAIN s
    OBVIOUS
  <2>2. t \in Seq(S) /\ IsLeft(t, s, kept)
    BY <1>2
  <2> HIDE DEF t, m, hits, kept
  <2>3. \A z : Times(t, z) = Cardinality(Positions(s, z) \cap kept) /\ ToSet(t) \subseteq ToSet(s)
    BY <2>1, <2>2, TimesLeft
  <2> QED
    BY <2>3 DEF kept
<1>4. Positions(s, y) \cap (DOMAIN s \ {m}) = Positions(s, y) \ {m}
  BY DEF Positions
<1>5. m \in Positions(s, y) <=> y = x
  <2> HIDE DEF m
  <2> QED
    BY <1>2 DEF Positions
<1>6. IsFiniteSet(Positions(s, y))
  BY TimesIs
<1>7. /\ y = x => Cardinality(Positions(s, y) \ {m}) = Times(s, y) - 1
      /\ y # x => Positions(s, y) \ {m} = Positions(s, y)
  <2> HIDE DEF m
  <2> QED
    BY <1>5, <1>6, FS_RemoveElement DEF Times
<1> HIDE DEF m, hits
<1> QED
  BY <1>2, <1>3, <1>4, <1>7 DEF Times, hits

\* A loop that removes an action from the list it walks takes at least the first.
LEMMA TimesPurged ==
  ASSUME NEW S, NEW s \in Seq(S), NEW x, NEW y
  PROVE  LET t == Purged(s, Positions(s, x)) IN
         /\ t \in Seq(S) /\ ToSet(t) \subseteq ToSet(s)
         /\ Times(t, y) <= Times(s, y)
         /\ y # x => Times(t, y) = Times(s, y)
         /\ x \in ToSet(s) => Times(t, x) <= Times(s, x) - 1
<1> DEFINE gone == Positions(s, x)
           upto == Reached(s, gone)
           kept == {i \in DOMAIN s : i > upto \/ i \notin gone}
           t == Purged(s, gone)
<1>1. /\ Len(s) \in Nat /\ DOMAIN s = 1 .. Len(s) /\ gone \in SUBSET (1 .. Len(s))
      /\ IsFiniteSet(gone)
  BY TimesIs, LenProperties
<1>2. t \in Seq(S) /\ IsLeft(t, s, kept) /\ kept \in SUBSET DOMAIN s
  <2>1. kept \in SUBSET DOMAIN s
    OBVIOUS
  <2>2. t = Picked(s, kept)
    BY DEF Purged
  <2> HIDE DEF kept, t
  <2> QED
    BY <2>1, <2>2, PickedLeft
<1>3. \A z : Times(t, z) = Cardinality(Positions(s, z) \cap kept) /\ ToSet(t) \subseteq ToSet(s)
  <2> HIDE DEF kept, t
  <2> QED
    BY <1>2, TimesLeft
<1>4. \A z : /\ IsFiniteSet(Positions(s, z) \cap kept) /\ IsFiniteSet(Positions(s, z))
             /\ Cardinality(Positions(s, z) \cap kept) <= Times(s, z)
  <2> SUFFICES ASSUME NEW z
               PROVE  /\ IsFiniteSet(Positions(s, z) \cap kept) /\ IsFiniteSet(Positions(s, z))
                      /\ Cardinality(Positions(s, z) \cap kept) <= Times(s, z)
    OBVIOUS
  <2>1. IsFiniteSet(Positions(s, z))
    BY TimesIs
  <2>2. Positions(s, z) \cap kept \subseteq Positions(s, z)
    OBVIOUS
  <2> HIDE DEF kept
  <2> QED
    BY <2>1, <2>2, FS_Subset DEF Times
<1>5. ASSUME y # x PROVE Positions(s, y) \cap kept = Positions(s, y)
  BY <1>5 DEF Positions
<1>6. ASSUME x \in ToSet(s) PROVE Cardinality(gone \cap kept) <= Times(s, x) - 1
  <2> DEFINE m == Min(gone)
             passed(k) == Cardinality({i \in gone : i <= k})
             stops == {k \in 0 .. Len(s) : k >= Len(s) - passed(k)}
  <2>1. m \in gone /\ m \in 1 .. Len(s) /\ \A i \in gone : m <= i
    <3>1. gone # {} /\ gone \in SUBSET Nat
      BY <1>1, <1>6, TimesIs
    <3> HIDE DEF gone
    <3> QED
      BY <1>1, <3>1, LeastNat
  <2> HIDE DEF gone, m
  <2>2. Len(s) \in stops
    <3>1. {i \in gone : i <= Len(s)} \subseteq gone
      OBVIOUS
    <3>2. passed(Len(s)) \in Nat
      BY <1>1, <3>1, FS_Subset, FS_CardinalityType
    <3> HIDE DEF passed
    <3> QED
      BY <1>1, <3>2
  <2>3. upto \in stops
    <3>1. stops \in SUBSET Nat /\ stops # {}
      <4> HIDE DEF passed, upto, kept, t
      <4> QED
        BY <1>1, <2>2
    <3>2. upto = Min(stops)
      BY DEF Reached
    <3> HIDE DEF stops, upto
    <3> QED
      BY <3>1, <3>2, LeastNat
  <2>4. m <= upto
    <3> SUFFICES ASSUME ~(m <= upto) PROVE FALSE
      OBVIOUS
    <3> HIDE DEF upto
    <3>1. upto \in Nat /\ upto < m
      BY <1>1, <2>1, <2>3
    <3>2. ASSUME NEW i \in gone PROVE ~(i <= upto)
      <4>1. i \in Nat /\ m <= i /\ m \in Nat
        BY <1>1, <2>1
      <4> QED
        BY <3>1, <4>1
    <3>3. passed(upto) = 0
      <4>1. {i \in gone : i <= upto} = {}
        BY <3>2
      <4> QED
        BY <4>1, FS_EmptySet
    <3> HIDE DEF passed
    <3> QED
      BY <1>1, <2>1, <2>3, <3>1, <3>3
  <2>5. upto \in Nat
    <3> HIDE DEF upto
    <3> QED
      BY <1>1, <2>3
  <2>6. m \notin kept
    <3> HIDE DEF upto
    <3> QED
      BY <2>1, <2>4, <2>5
  <2>7. gone \cap kept \subseteq gone \ {m}
    <3> HIDE DEF kept
    <3> QED
      BY <2>6
  <2>8. IsFiniteSet(gone \ {m}) /\ Cardinality(gone \ {m}) = Cardinality(gone) - 1
    BY <1>1, <2>1, FS_RemoveElement
  <2>9. Cardinality(gone \cap kept) <= Cardinality(gone \ {m})
    <3> HIDE DEF kept
    <3> QED
      BY <2>7, <2>8, FS_Subset
  <2> QED
    BY <2>8, <2>9 DEF Times, gone
<1> HIDE DEF kept, t
<1> QED
  BY <1>2, <1>3, <1>4, <1>5, <1>6 DEF Times, t, gone

-----------------------------------------------------------------------------
\* The jobs of cron.
Jobs == [time : JobTimes, action : JobActions]

\* No "*" of the time stands where another path branches off.
Separate(time) ==
  \A path \in ToSet(cronPaths) \ {time} : time[PartAt(path, time)][1] # Wild

\* What the tree has was added under its time.  A time that nothing diverts from has an action
\* no more often than it is written down, and a job that was added once, under a time that
\* stands apart, still has its action there.
CronInv ==
  /\ cronPaths \in Seq(JobTimes) /\ DOMAIN cronActions = ToSet(cronPaths)
  /\ \A path \in ToSet(cronPaths) : cronActions[path] \in Seq(JobActions)
  /\ cronJobs \in Seq(Jobs) /\ cronAdded \in Seq(Jobs)
  /\ \A job \in ToSet(cronJobs) : job.time \in ToSet(cronPaths)
  /\ \A path \in ToSet(cronPaths) : \A action \in ToSet(cronActions[path]) :
       [time |-> path, action |-> action] \in ToSet(cronAdded)
  /\ \A job \in Jobs : Times(cronJobs, job) <= Times(cronAdded, job)
  /\ \A job \in Jobs : job.time \in ToSet(cronPaths) /\ ~Diverted(job.time) =>
       Times(cronActions[job.time], job.action) <= Times(cronJobs, job)
  /\ \A job \in ToSet(cronJobs) : Times(cronAdded, job) = 1 /\ Separate(job.time) =>
       job.action \in ToSet(cronActions[job.time])

LEMMA TimeIs ==
  ASSUME NEW path \in JobTimes
  PROVE  path = <<path[1], path[2], path[3], path[4], path[5]>>
BY DEF JobTimes

\* Where two times part.
LEMMA PartIs ==
  ASSUME NEW p \in JobTimes, NEW q \in JobTimes, p # q
  PROVE  /\ PartAt(p, q) \in 1 .. 5 /\ p[PartAt(p, q)] # q[PartAt(p, q)]
         /\ Agree(p, q, PartAt(p, q) - 1) /\ PartAt(p, q) = PartAt(q, p)
         /\ \A i \in 1 .. 5 : Agree(p, q, i - 1) /\ p[i] # q[i] => PartAt(p, q) = i
<1> DEFINE parts == {i \in 1 .. 5 : p[i] # q[i]}
           m == Min(parts)
<1>1. parts # {} /\ parts \in SUBSET Nat
  <2> SUFFICES ASSUME parts = {} PROVE FALSE
    OBVIOUS
  <2>1. p[1] = q[1] /\ p[2] = q[2] /\ p[3] = q[3] /\ p[4] = q[4] /\ p[5] = q[5]
    OBVIOUS
  <2>2. p = <<p[1], p[2], p[3], p[4], p[5]>> /\ q = <<q[1], q[2], q[3], q[4], q[5]>>
    BY TimeIs
  <2> HIDE DEF parts
  <2> QED
    BY <2>1, <2>2
<1>2. m \in parts /\ \A i \in parts : m <= i
  <2> HIDE DEF parts
  <2> QED
    BY <1>1, LeastNat
<1>3. PartAt(p, q) = m
  BY DEF PartAt
<1>4. PartAt(q, p) = m
  <2>1. parts = {i \in 1 .. 5 : q[i] # p[i]}
    OBVIOUS
  <2> HIDE DEF parts
  <2> QED
    BY <2>1 DEF PartAt
<1> HIDE DEF m
<1>5. m \in 1 .. 5 /\ p[m] # q[m]
  BY <1>2
<1>6. Agree(p, q, m - 1)
  <2>1. ASSUME NEW i \in 1 .. m - 1 PROVE p[i] = q[i]
    <3>1. i \in 1 .. 5 /\ ~(m <= i)
      BY <1>5
    <3> QED
      BY <1>2, <3>1
  <2> QED
    BY <2>1 DEF Agree
<1>7. ASSUME NEW i \in 1 .. 5, Agree(p, q, i - 1), p[i] # q[i] PROVE m = i
  <2>1. m <= i
    BY <1>2, <1>7
  <2>2. ~(m < i)
    <3>1. m < i => m \in 1 .. i - 1
      BY <1>5
    <3> QED
      BY <1>5, <1>7, <3>1 DEF Agree
  <2> QED
    BY <1>5, <2>1, <2>2
<1> QED
  BY <1>3, <1>4, <1>5, <1>6, <1>7

\* The search comes to a path with a hit on each level, where no path that parts from it
\* has one.
LEMMA SearchComes ==
  ASSUME cronPaths \in Seq(JobTimes), NEW hits, NEW path \in ToSet(cronPaths),
         \A i \in 1 .. 4 : path[i] \in hits[i],
         \A other \in ToSet(cronPaths) \ {path} : \A i \in 1 .. 4 :
           PartAt(other, path) = i => other[i] \notin hits[i]
  PROVE  path \in Followed(hits)
<1>1. DOMAIN cronPaths \in SUBSET Nat /\ \A k \in DOMAIN cronPaths : cronPaths[k] \in JobTimes
  BY LenProperties
<1>2. ToSet(cronPaths) = {cronPaths[k] : k \in DOMAIN cronPaths}
  BY DEF ToSet
<1>3. PICK l \in DOMAIN cronPaths : cronPaths[l] = path
  BY <1>2
<1>4. ASSUME NEW i \in 1 .. 4
      PROVE  path[i] = cronPaths[Min({k \in DOMAIN cronPaths :
                         Agree(cronPaths[k], path, i - 1) /\ cronPaths[k][i] \in hits[i]})][i]
  <2> DEFINE open == {k \in DOMAIN cronPaths :
                        Agree(cronPaths[k], path, i - 1) /\ cronPaths[k][i] \in hits[i]}
             m == Min(open)
  <2>1. Agree(path, path, i - 1)
    BY DEF Agree
  <2>2. l \in open /\ open \in SUBSET Nat
    BY <1>1, <1>3, <2>1
  <2>3. m \in open
    <3> HIDE DEF open
    <3> QED
      BY <2>2, LeastNat
  <2> HIDE DEF m
  <2>4. /\ cronPaths[m] \in JobTimes /\ cronPaths[m] \in ToSet(cronPaths) /\ path \in JobTimes
        /\ Agree(cronPaths[m], path, i - 1) /\ cronPaths[m][i] \in hits[i] /\ i \in 1 .. 5
    BY <1>1, <1>2, <1>3, <2>3
  <2>5. cronPaths[m][i] = path[i]
    <3> SUFFICES ASSUME cronPaths[m][i] # path[i] PROVE FALSE
      OBVIOUS
    <3>1. PartAt(cronPaths[m], path) = i
      BY <2>4, PartIs
    <3> QED
      BY <2>4, <3>1
  <2> QED
    BY <2>5 DEF m
<1> QED
  BY <1>4 DEF Followed

LEMMA CronInitInv == CronInit => CronInv
<1> SUFFICES ASSUME CronInit PROVE CronInv
  OBVIOUS
<1>1. /\ cronPaths = << >> /\ cronActions = << >> /\ cronJobs = << >> /\ cronAdded = << >>
      /\ DOMAIN << >> = {}
  BY DEF CronInit
<1>2. ToSet(<< >>) = {} /\ \A S : << >> \in Seq(S)
  BY EmptySeq DEF ToSet
<1>3. \A x : Times(<< >>, x) = 0
  <2>1. \A x : Positions(<< >>, x) = {}
    BY DEF Positions
  <2> QED
    BY <2>1, FS_EmptySet DEF Times
<1> QED
  BY <1>1, <1>2, <1>3 DEF CronInv

\* Another path diverts or joins no less for it.
LEMMA PathsGrow ==
  ASSUME ToSet(cronPaths) \subseteq ToSet(cronPaths')
  PROVE  \A time : (~Diverted(time)' => ~Diverted(time)) /\ (Separate(time)' => Separate(time))
BY DEF Diverted, Separate

LEMMA AddKeepsJobs ==
  ASSUME CronInv, NEW time \in JobTimes, NEW action \in JobActions, AddJob(time, action)
  PROVE  CronInv'
<1> DEFINE new == [time |-> time, action |-> action]
           was(path) == IF path \in DOMAIN cronActions THEN cronActions[path] ELSE << >>
<1>1. /\ cronPaths \in Seq(JobTimes) /\ DOMAIN cronActions = ToSet(cronPaths)
      /\ \A path \in ToSet(cronPaths) : cronActions[path] \in Seq(JobActions)
      /\ cronJobs \in Seq(Jobs) /\ cronAdded \in Seq(Jobs) /\ new \in Jobs
  BY DEF CronInv, Jobs
<1>2. /\ cronPaths' = IF time \in ToSet(cronPaths) THEN cronPaths ELSE Append(cronPaths, time)
      /\ cronActions' = [path \in ToSet(cronPaths) \cup {time} |->
                           was(path) \o IF path = time THEN <<action>> ELSE << >>]
      /\ cronJobs' = Append(cronJobs, new) /\ cronAdded' = Append(cronAdded, new)
  BY <1>1 DEF AddJob
<1>3. cronPaths' \in Seq(JobTimes) /\ ToSet(cronPaths') = ToSet(cronPaths) \cup {time}
  <2>1. CASE time \in ToSet(cronPaths)
    BY <1>1, <1>2, <2>1
  <2>2. CASE time \notin ToSet(cronPaths)
    BY <1>1, <1>2, <2>2, TimesAppended
  <2> QED
    BY <2>1, <2>2
<1>4. /\ cronJobs' \in Seq(Jobs) /\ ToSet(cronJobs') = ToSet(cronJobs) \cup {new}
      /\ cronAdded' \in Seq(Jobs) /\ ToSet(cronAdded') = ToSet(cronAdded) \cup {new}
      /\ \A job : /\ Times(cronJobs', job) = IF job = new THEN Times(cronJobs, job) + 1 ELSE Times(cronJobs, job)
                  /\ Times(cronAdded', job) = IF job = new THEN Times(cronAdded, job) + 1 ELSE Times(cronAdded, job)
                  /\ Times(cronJobs, job) \in Nat /\ Times(cronAdded, job) \in Nat
  <2> HIDE DEF new
  <2>1. Append(cronJobs, new) \in Seq(Jobs) /\ ToSet(Append(cronJobs, new)) = ToSet(cronJobs) \cup {new}
    BY <1>1, TimesAppended
  <2>4. Append(cronAdded, new) \in Seq(Jobs) /\ ToSet(Append(cronAdded, new)) = ToSet(cronAdded) \cup {new}
    BY <1>1, TimesAppended
  <2>2. ASSUME NEW job
        PROVE  /\ Times(cronJobs, job) \in Nat
               /\ Times(Append(cronJobs, new), job)
                    = IF job = new THEN Times(cronJobs, job) + 1 ELSE Times(cronJobs, job)
    BY <1>1, TimesAppended, TimesIs
  <2>3. ASSUME NEW job
        PROVE  /\ Times(cronAdded, job) \in Nat
               /\ Times(Append(cronAdded, new), job)
                    = IF job = new THEN Times(cronAdded, job) + 1 ELSE Times(cronAdded, job)
    BY <1>1, TimesAppended, TimesIs
  <2> QED
    BY <1>2, <2>1, <2>2, <2>3, <2>4
<1>5. \A path : was(path) \in Seq(JobActions)
  BY <1>1, EmptySeq
<1>6. ASSUME NEW path \in ToSet(cronPaths'), path # time
      PROVE  cronActions'[path] = cronActions[path] /\ path \in ToSet(cronPaths)
  <2>1. path \in ToSet(cronPaths) /\ was(path) \in Seq(JobActions) /\ was(path) = cronActions[path]
    BY <1>1, <1>3, <1>5, <1>6
  <2> HIDE DEF was
  <2>2. was(path) \o << >> = was(path)
    BY <2>1, ConcatEmptySeq
  <2> QED
    BY <1>2, <1>6, <2>1, <2>2
<1>7. /\ DOMAIN cronActions' = ToSet(cronPaths')
      /\ cronActions'[time] = Append(was(time), action)
  <2>1. cronActions'[time] = was(time) \o <<action>>
    BY <1>2
  <2> HIDE DEF was
  <2>2. was(time) \o <<action>> = Append(was(time), action)
    BY <1>5, AppendIsConcat
  <2> QED
    BY <1>2, <1>3, <2>1, <2>2
<1>8. /\ cronActions'[time] \in Seq(JobActions) /\ was(time) \in Seq(JobActions)
      /\ ToSet(cronActions'[time]) = ToSet(was(time)) \cup {action}
      /\ \A other : Times(cronActions'[time], other) =
                      IF other = action THEN Times(was(time), other) + 1 ELSE Times(was(time), other)
  <2>1. was(time) \in Seq(JobActions)
    BY <1>5
  <2> HIDE DEF was
  <2> QED
    BY <1>7, <2>1, TimesAppended
<1>9. /\ ToSet(was(time)) \subseteq JobActions
      /\ \A other \in ToSet(was(time)) : [time |-> time, action |-> other] \in ToSet(cronAdded)
  <2>1. CASE time \in ToSet(cronPaths)
    <3>1. was(time) = cronActions[time] /\ cronActions[time] \in Seq(JobActions)
      BY <1>1, <2>1
    <3>2. ToSet(cronActions[time]) \subseteq JobActions
      BY <3>1 DEF ToSet
    <3>3. \A other \in ToSet(cronActions[time]) : [time |-> time, action |-> other] \in ToSet(cronAdded)
      BY <2>1 DEF CronInv
    <3> QED
      BY <3>1, <3>2, <3>3
  <2>2. CASE time \notin ToSet(cronPaths)
    <3>1. was(time) = << >>
      BY <1>1, <2>2
    <3> QED
      BY <3>1 DEF ToSet
  <2> QED
    BY <2>1, <2>2
<1>10. ToSet(cronPaths) \subseteq ToSet(cronPaths')
  BY <1>3
<1>11. ASSUME NEW job \in ToSet(cronJobs') PROVE job.time \in ToSet(cronPaths')
  BY <1>3, <1>4 DEF CronInv
<1>12. ASSUME NEW path \in ToSet(cronPaths'), NEW other \in ToSet(cronActions'[path])
       PROVE  [time |-> path, action |-> other] \in ToSet(cronAdded')
  <2>1. CASE path = time
    BY <1>4, <1>8, <1>9, <1>12, <2>1
  <2>2. CASE path # time
    BY <1>4, <1>6, <1>12, <2>2 DEF CronInv
  <2> QED
    BY <2>1, <2>2
<1>13. ASSUME NEW job \in Jobs PROVE Times(cronJobs', job) <= Times(cronAdded', job)
  <2>1. Times(cronJobs, job) <= Times(cronAdded, job)
    BY DEF CronInv
  <2> HIDE DEF new
  <2> QED
    BY <1>4, <2>1
<1>14. ASSUME NEW job \in Jobs, job.time \in ToSet(cronPaths'), ~Diverted(job.time)'
       PROVE  Times(cronActions'[job.time], job.action) <= Times(cronJobs', job)
  <2>1. ~Diverted(job.time)
    BY <1>10, <1>14, PathsGrow
  <2>2. job = new <=> (job.time = time /\ job.action = action)
    BY DEF Jobs
  <2>3. /\ Times(was(job.time), job.action) \in Nat /\ Times(cronJobs, job) \in Nat
        /\ Times(was(job.time), job.action) <= Times(cronJobs, job)
    <3>1. Times(cronJobs, job) \in Nat
      BY <1>4
    <3>2. CASE job.time \in ToSet(cronPaths)
      <4>1. was(job.time) = cronActions[job.time] /\ was(job.time) \in Seq(JobActions)
        BY <1>1, <3>2
      <4>2. Times(cronActions[job.time], job.action) <= Times(cronJobs, job)
        BY <2>1, <3>2 DEF CronInv
      <4> HIDE DEF was
      <4> QED
        BY <3>1, <4>1, <4>2, TimesIs
    <3>3. CASE job.time \notin ToSet(cronPaths)
      <4>1. was(job.time) = << >>
        BY <1>1, <3>3
      <4>2. Positions(<< >>, job.action) = {}
        BY DEF Positions
      <4>3. Times(was(job.time), job.action) = 0
        BY <4>1, <4>2, FS_EmptySet DEF Times
      <4> HIDE DEF was
      <4> QED
        BY <3>1, <4>3
    <3> QED
      BY <3>2, <3>3
  <2>4. CASE job.time = time
    <3> HIDE DEF was, new
    <3> QED
      BY <1>4, <1>8, <2>2, <2>3, <2>4
  <2>5. CASE job.time # time
    <3>1. /\ cronActions'[job.time] = cronActions[job.time] /\ job # new
          /\ was(job.time) = cronActions[job.time]
      BY <1>1, <1>6, <1>14, <2>2, <2>5
    <3> HIDE DEF was, new
    <3> QED
      BY <1>4, <2>3, <3>1
  <2> QED
    BY <2>4, <2>5
<1>15. ASSUME NEW job \in ToSet(cronJobs'), Times(cronAdded', job) = 1, Separate(job.time)'
       PROVE  job.action \in ToSet(cronActions'[job.time])
  <2>1. CASE job = new
    BY <1>8, <2>1
  <2>2. CASE job # new
    <3>1. job \in ToSet(cronJobs) /\ Times(cronAdded, job) = 1
      BY <1>4, <1>15, <2>2
    <3>2. Separate(job.time)
      BY <1>10, <1>15, PathsGrow
    <3>3. job.action \in ToSet(cronActions[job.time]) /\ job.time \in ToSet(cronPaths)
      BY <3>1, <3>2 DEF CronInv
    <3>4. CASE job.time = time
      <4>1. was(job.time) = cronActions[job.time]
        BY <1>1, <3>3
      <4> HIDE DEF was
      <4> QED
        BY <1>8, <3>3, <3>4, <4>1
    <3>5. CASE job.time # time
      BY <1>6, <1>10, <3>3, <3>5
    <3> QED
      BY <3>4, <3>5
  <2> QED
    BY <2>1, <2>2
<1>16. ASSUME NEW path \in ToSet(cronPaths') PROVE cronActions'[path] \in Seq(JobActions)
  BY <1>1, <1>6, <1>8, <1>16
<1> HIDE DEF new, was
<1> QED
  BY <1>3, <1>4, <1>7, <1>11, <1>12, <1>13, <1>14, <1>15, <1>16 DEF CronInv

\* A deletion comes to a time that nothing diverts from, and to another one only by its "*".
LEMMA DeletionComes ==
  ASSUME CronInv, NEW time \in ToSet(cronPaths), ~Diverted(time)
  PROVE  time \in LeafPaths(time)
<1> DEFINE hits == [i \in 1 .. 5 |-> {list \in FieldsAt(i) : EqualOrWild(list, time[i])}]
<1>1. cronPaths \in Seq(JobTimes) /\ \A path \in ToSet(cronPaths) : path \in JobTimes
  BY DEF CronInv, ToSet
<1>2. ASSUME NEW i \in 1 .. 5 PROVE time[i] \in hits[i]
  BY DEF FieldsAt, EqualOrWild
<1>3. ASSUME NEW other \in ToSet(cronPaths) \ {time}, NEW i \in 1 .. 4, PartAt(other, time) = i
      PROVE  other[i] \notin hits[i]
  <2> SUFFICES ASSUME other[i] \in hits[i] PROVE FALSE
    OBVIOUS
  <2>1. other \in JobTimes /\ time \in JobTimes /\ i \in 1 .. 5 /\ other # time
    BY <1>1
  <2>2. other[i] # time[i]
    BY <1>3, <2>1, PartIs
  <2>3. other[i][1] = Wild
    BY <2>1, <2>2 DEF EqualOrWild
  <2> QED
    BY <1>3, <2>3 DEF Diverted
<1>4. time \in Followed(hits)
  <2> HIDE DEF hits
  <2>1. \A i \in 1 .. 4 : time[i] \in hits[i]
    BY <1>2
  <2> QED
    BY <1>1, <1>3, <2>1, SearchComes
<1> QED
  BY <1>2, <1>4 DEF LeafPaths

LEMMA DeletionSpares ==
  ASSUME CronInv, NEW time \in ToSet(cronPaths), NEW path \in ToSet(cronPaths), path # time,
         Separate(path)
  PROVE  path \notin LeafPaths(time)
<1> DEFINE hits == [i \in 1 .. 5 |-> {list \in FieldsAt(i) : EqualOrWild(list, time[i])}]
           part == PartAt(time, path)
<1> SUFFICES ASSUME path \in LeafPaths(time) PROVE FALSE
  OBVIOUS
<1>1. time \in JobTimes /\ path \in JobTimes
  BY DEF CronInv, ToSet
<1>2. part \in 1 .. 5 /\ path[part] # time[part]
  BY <1>1, PartIs
<1> HIDE DEF part
<1>3. path[part] \in hits[part]
  <2>1. path \in Followed(hits) /\ path[5] \in hits[5]
    BY DEF LeafPaths
  <2> HIDE DEF hits
  <2>2. \A i \in 1 .. 4 : path[i] \in hits[i]
    BY <2>1 DEF Followed
  <2>3. part = 5 \/ part \in 1 .. 4
    BY <1>2
  <2> QED
    BY <2>1, <2>2, <2>3
<1>4. path[part][1] = Wild
  BY <1>2, <1>3 DEF EqualOrWild
<1> QED
  BY <1>4 DEF Separate, part

LEMMA DelKeepsJobs ==
  ASSUME CronInv, NEW time \in JobTimes, NEW action \in JobActions, DelJob(time, action)
  PROVE  CronInv'
<1> DEFINE gone == [time |-> time, action |-> action]
           same == Positions(cronJobs, gone)
<1>1. /\ cronPaths \in Seq(JobTimes) /\ DOMAIN cronActions = ToSet(cronPaths)
      /\ \A path \in ToSet(cronPaths) : cronActions[path] \in Seq(JobActions)
      /\ cronJobs \in Seq(Jobs) /\ cronAdded \in Seq(Jobs) /\ gone \in Jobs
  BY DEF CronInv, Jobs
<1>2. UNCHANGED <<cronPaths, cronAdded>> /\ cronJobs' = WithoutFirst(cronJobs, same)
  BY DEF DelJob
<1>3. CASE same = {}
  <2>1. cronJobs' = cronJobs /\ cronActions' = cronActions
    BY <1>2, <1>3 DEF DelJob, WithoutFirst
  <2> QED
    BY <1>2, <2>1 DEF CronInv, Diverted, Separate
<1>4. CASE same # {}
  <2>1. gone \in ToSet(cronJobs)
    <3> HIDE DEF gone
    <3> QED
      BY <1>1, <1>4, TimesIs
  <2>2. /\ cronActions' = ActionsWithout(LeafPaths(time), action)
        /\ time \in ToSet(cronPaths)
    BY <1>4, <2>1 DEF DelJob, CronInv
  <2>3. /\ cronJobs' \in Seq(Jobs) /\ ToSet(cronJobs') \subseteq ToSet(cronJobs)
        /\ \A job : Times(cronJobs', job) = IF job = gone THEN Times(cronJobs, job) - 1 ELSE Times(cronJobs, job)
    <3> HIDE DEF gone
    <3> QED
      BY <1>1, <1>2, <2>1, TimesWithoutFirst
  <2>4. \A job : Times(cronJobs, job) \in Nat /\ Times(cronAdded, job) \in Nat
                 /\ Times(cronJobs', job) \in Nat
    BY <1>1, <2>3, TimesIs
  <2>5. DOMAIN cronActions' = ToSet(cronPaths)
    BY <1>1, <2>2 DEF ActionsWithout
  <2>6. ASSUME NEW path \in ToSet(cronPaths)
        PROVE  /\ cronActions'[path] \in Seq(JobActions)
               /\ ToSet(cronActions'[path]) \subseteq ToSet(cronActions[path])
               /\ \A other :
                    /\ Times(cronActions'[path], other) \in Nat /\ Times(cronActions[path], other) \in Nat
                    /\ Times(cronActions'[path], other) <= Times(cronActions[path], other)
                    /\ path \notin LeafPaths(time) \/ other # action =>
                         Times(cronActions'[path], other) = Times(cronActions[path], other)
               /\ path \in LeafPaths(time) /\ action \in ToSet(cronActions[path]) =>
                    Times(cronActions'[path], action) <= Times(cronActions[path], action) - 1
    <3> DEFINE left == Purged(cronActions[path], Positions(cronActions[path], action))
    <3>1. /\ cronActions[path] \in Seq(JobActions)
          /\ \A other : Times(cronActions[path], other) \in Nat
      BY <1>1, TimesIs
    <3>2. CASE path \notin LeafPaths(time)
      <4>1. cronActions'[path] = cronActions[path]
        BY <1>1, <2>2, <3>2 DEF ActionsWithout
      <4> QED
        BY <3>1, <3>2, <4>1
    <3>3. CASE path \in LeafPaths(time)
      <4>1. cronActions'[path] = left
        BY <1>1, <2>2, <3>3 DEF ActionsWithout
      <4>2. /\ left \in Seq(JobActions) /\ ToSet(left) \subseteq ToSet(cronActions[path])
            /\ \A other : /\ Times(left, other) <= Times(cronActions[path], other)
                          /\ other # action => Times(left, other) = Times(cronActions[path], other)
            /\ action \in ToSet(cronActions[path]) =>
                 Times(left, action) <= Times(cronActions[path], action) - 1
        BY <3>1, TimesPurged
      <4> HIDE DEF left
      <4>3. \A other : Times(left, other) \in Nat
        BY <4>2, TimesIs
      <4> QED
        BY <3>1, <3>3, <4>1, <4>2, <4>3
    <3> QED
      BY <3>2, <3>3
  <2>7. ASSUME NEW job \in ToSet(cronJobs') PROVE job.time \in ToSet(cronPaths')
    BY <1>2, <2>3, <2>7 DEF CronInv
  <2>8. ASSUME NEW path \in ToSet(cronPaths), NEW other \in ToSet(cronActions'[path])
        PROVE  [time |-> path, action |-> other] \in ToSet(cronAdded')
    BY <1>2, <2>6, <2>8 DEF CronInv
  <2>9. ASSUME NEW job \in Jobs PROVE Times(cronJobs', job) <= Times(cronAdded', job)
    <3>1. Times(cronJobs, job) <= Times(cronAdded, job)
      BY DEF CronInv
    <3> HIDE DEF gone
    <3> QED
      BY <1>2, <2>3, <2>4, <3>1
  <2>10. ASSUME NEW job \in Jobs, job.time \in ToSet(cronPaths), ~Diverted(job.time)
         PROVE  Times(cronActions'[job.time], job.action) <= Times(cronJobs', job)
    <3>1. Times(cronActions[job.time], job.action) <= Times(cronJobs, job)
      BY <2>10 DEF CronInv
    <3>2. /\ Times(cronActions'[job.time], job.action) \in Nat
          /\ Times(cronActions[job.time], job.action) \in Nat
          /\ Times(cronActions'[job.time], job.action) <= Times(cronActions[job.time], job.action)
      BY <2>6, <2>10
    <3>3. CASE job # gone
      <4> HIDE DEF gone
      <4> QED
        BY <2>3, <2>4, <3>1, <3>2, <3>3
    <3>4. CASE job = gone
      <4>1. job.time = time /\ job.action = action
        BY <3>4
      <4>2. time \in LeafPaths(time)
        BY <2>10, <4>1, DeletionComes
      <4>3. CASE action \in ToSet(cronActions[time])
        <5>1. Times(cronActions'[time], action) <= Times(cronActions[time], action) - 1
          BY <2>2, <2>6, <4>2, <4>3
        <5> HIDE DEF gone
        <5> QED
          BY <2>3, <2>4, <3>1, <3>2, <3>4, <4>1, <5>1
      <4>4. CASE action \notin ToSet(cronActions[time])
        <5>1. ~(Times(cronActions[time], action) > 0)
          BY <1>1, <2>2, <4>4, TimesIs
        <5> HIDE DEF gone
        <5> QED
          BY <2>4, <3>2, <4>1, <5>1
      <4> QED
        BY <4>3, <4>4
    <3> QED
      BY <3>3, <3>4
  <2>11. ASSUME NEW job \in ToSet(cronJobs'), Times(cronAdded, job) = 1, Separate(job.time)
         PROVE  job.action \in ToSet(cronActions'[job.time])
    <3>1. job \in ToSet(cronJobs) /\ job \in Jobs /\ job.time \in ToSet(cronPaths)
      <4>1. job \in ToSet(cronJobs)
        BY <2>3, <2>11
      <4>2. job \in Jobs
        BY <1>1, <4>1 DEF ToSet
      <4> QED
        BY <4>1, <4>2 DEF CronInv
    <3>2. job # gone
      <4> SUFFICES ASSUME job = gone PROVE FALSE
        OBVIOUS
      <4>1. Times(cronJobs, job) <= Times(cronAdded, job)
        BY <3>1 DEF CronInv
      <4>2. Times(cronJobs', job) > 0
        BY <2>3, <2>11, TimesIs
      <4>3. Times(cronJobs', job) = Times(cronJobs, job) - 1
        BY <2>3
      <4> HIDE DEF gone
      <4> QED
        BY <2>4, <2>11, <4>1, <4>2, <4>3
    <3>3. job.action \in ToSet(cronActions[job.time])
      BY <2>11, <3>1 DEF CronInv
    <3>4. job.time # time => job.time \notin LeafPaths(time)
      BY <2>2, <2>11, <3>1, DeletionSpares
    <3>5. job.time = time => job.action # action
      BY <3>1, <3>2 DEF Jobs
    <3>6. Times(cronActions'[job.time], job.action) = Times(cronActions[job.time], job.action)
      BY <2>6, <3>1, <3>4, <3>5
    <3>7. cronActions[job.time] \in Seq(JobActions) /\ cronActions'[job.time] \in Seq(JobActions)
      BY <1>1, <2>6, <3>1
    <3> QED
      BY <3>3, <3>6, <3>7, TimesIs
  <2> HIDE DEF gone, same
  <2>12. /\ \A job : Diverted(job.time)' <=> Diverted(job.time)
         /\ \A job : Separate(job.time)' <=> Separate(job.time)
    BY <1>2 DEF Diverted, Separate
  <2> QED
    BY <1>1, <1>2, <2>3, <2>5, <2>6, <2>7, <2>8, <2>9, <2>10, <2>11, <2>12 DEF CronInv
<1> QED
  BY <1>3, <1>4

LEMMA CronStep == CronInv /\ [CronNext]_cronVars => CronInv'
<1> SUFFICES ASSUME CronInv, [CronNext]_cronVars PROVE CronInv'
  OBVIOUS
<1>1. ASSUME NEW time \in JobTimes, NEW action \in JobActions, AddJob(time, action) PROVE CronInv'
  BY <1>1, AddKeepsJobs
<1>2. ASSUME NEW time \in JobTimes, NEW action \in JobActions, DelJob(time, action) PROVE CronInv'
  BY <1>2, DelKeepsJobs
<1>3. ASSUME UNCHANGED <<cronPaths, cronActions, cronJobs, cronAdded>> PROVE CronInv'
  BY <1>3 DEF CronInv, Diverted, Separate
<1>4. ASSUME NEW now \in Readings, Tick(now) PROVE CronInv'
  BY <1>3, <1>4 DEF Tick
<1>5. CASE UNCHANGED cronVars
  BY <1>3, <1>5 DEF cronVars
<1> QED
  BY <1>1, <1>2, <1>4, <1>5 DEF CronNext

\* What a tick posts are the actions of times that are due, and all of those of a time that
\* stands apart.
LEMMA ActionsAre ==
  ASSUME CronInv, NEW now
  PROVE  /\ \A action \in ToSet(GetAction(now)) : \E path \in ToSet(cronPaths) :
              action \in ToSet(cronActions[path]) /\ \A i \in 1 .. 5 : HasTime(path[i], now[i])
         /\ \A path \in ToSet(cronPaths) : Followed(ListsAt(now)) = {path} /\ HasTime(path[5], now[5]) =>
              ToSet(cronActions[path]) \subseteq ToSet(GetAction(now))
<1> DEFINE ways == {k \in DOMAIN cronPaths : cronPaths[k] \in Followed(ListsAt(now))}
           hits == {k \in ways : HasTime(cronPaths[k][5], now[5])}
           forgets == \E k \in ways \ hits : \A j \in hits : j < k => cronActions[cronPaths[j]] = << >>
           lists == [k \in DOMAIN cronPaths |-> IF k \in hits THEN cronActions[cronPaths[k]] ELSE << >>]
<1>1. /\ \A k \in DOMAIN cronPaths : cronPaths[k] \in ToSet(cronPaths)
      /\ \A path \in ToSet(cronPaths) : \E k \in DOMAIN cronPaths : cronPaths[k] = path
      /\ \A path \in ToSet(cronPaths) : cronActions[path] \in Seq(JobActions)
  BY DEF ToSet, CronInv
<1>2. GetAction(now) = IF forgets THEN << >> ELSE FlattenSeq(lists)
  BY DEF GetAction
<1>3. lists \in Seq(Seq(JobActions))
  <2>1. DOMAIN cronPaths = 1 .. Len(cronPaths) /\ Len(cronPaths) \in Nat
    BY LenProperties DEF CronInv
  <2>2. \A k \in DOMAIN cronPaths : lists[k] \in Seq(JobActions)
    BY <1>1, EmptySeq
  <2>3. lists \in [1 .. Len(cronPaths) -> Seq(JobActions)]
    <3>1. DOMAIN lists = 1 .. Len(cronPaths) /\ lists = [k \in DOMAIN lists |-> lists[k]]
      BY <2>1
    <3> HIDE DEF lists
    <3> QED
      BY <2>1, <2>2, <3>1
  <2> HIDE DEF lists
  <2> QED
    BY <2>1, <2>3, SeqDef
<1>4. ToSet(FlattenSeq(lists)) = UNION {ToSet(lists[k]) : k \in DOMAIN cronPaths}
  <2>1. DOMAIN lists = DOMAIN cronPaths
    OBVIOUS
  <2> HIDE DEF lists
  <2> QED
    BY <1>3, <2>1, FlattenIs
<1>5. ToSet(<< >>) = {}
  BY DEF ToSet
<1>6. ASSUME NEW action \in ToSet(GetAction(now))
      PROVE  \E path \in ToSet(cronPaths) :
               action \in ToSet(cronActions[path]) /\ \A i \in 1 .. 5 : HasTime(path[i], now[i])
  <2>1. action \in UNION {ToSet(lists[k]) : k \in DOMAIN cronPaths}
    <3> HIDE DEF lists, forgets
    <3> QED
      BY <1>2, <1>4, <1>5, <1>6
  <2>2. PICK k \in DOMAIN cronPaths : action \in ToSet(lists[k])
    <3> HIDE DEF lists
    <3> QED
      BY <2>1
  <2>3. k \in hits /\ lists[k] = cronActions[cronPaths[k]]
    <3>1. CASE k \in hits
      BY <3>1
    <3>2. CASE k \notin hits
      <4>1. lists[k] = << >>
        BY <3>2
      <4> HIDE DEF lists
      <4> QED
        BY <1>5, <2>2, <4>1
    <3> QED
      BY <3>1, <3>2
  <2>4. cronPaths[k] \in Followed(ListsAt(now)) /\ HasTime(cronPaths[k][5], now[5])
    BY <2>3
  <2>5. ASSUME NEW i \in 1 .. 5 PROVE HasTime(cronPaths[k][i], now[i])
    <3>1. CASE i = 5
      BY <2>4, <3>1
    <3>2. CASE i # 5
      <4>1. i \in 1 .. 4
        BY <3>2
      <4>2. cronPaths[k][i] \in ListsAt(now)[i]
        BY <2>4, <4>1 DEF Followed
      <4> QED
        BY <4>2 DEF ListsAt
    <3> QED
      BY <3>1, <3>2
  <2> HIDE DEF lists, hits
  <2> QED
    BY <1>1, <2>2, <2>3, <2>5
<1>7. ASSUME NEW path \in ToSet(cronPaths), Followed(ListsAt(now)) = {path}, HasTime(path[5], now[5])
      PROVE  ToSet(cronActions[path]) \subseteq ToSet(GetAction(now))
  <2>1. ways \ hits = {}
    BY <1>7
  <2>2. GetAction(now) = FlattenSeq(lists)
    <3> HIDE DEF ways, hits, lists
    <3> QED
      BY <1>2, <2>1
  <2>3. PICK k \in DOMAIN cronPaths : cronPaths[k] = path
    BY <1>1
  <2>4. lists[k] = cronActions[path]
    BY <1>7, <2>3
  <2> HIDE DEF lists
  <2> QED
    BY <1>4, <2>2, <2>3, <2>4
<1> HIDE DEF ways, hits, lists, forgets
<1> QED
  BY <1>6, <1>7

\* What is said of a tick.
PostsAsWritten(now) ==
  /\ \A action \in ToSet(cronPosted') :
       \/ \E job \in ToSet(cronJobs) : job.action = action /\ Comes(job, now)
       \/ \E job \in ToSet(cronAdded) :
            job.action = action /\ Comes(job, now) /\ Diverted(job.time)
  /\ \A job \in ToSet(cronJobs) :
       Comes(job, now) /\ Apart(job, now) => job.action \in ToSet(cronPosted')

\* A job comes when the tick's reading, with tm_mon, has what each of its fields asks for.
LEMMA ComesWhen ==
  ASSUME NEW job, NEW now
  PROVE  Comes(job, now) <=> \A i \in 1 .. 5 : HasTime(job.time[i], now[i])
<1>1. CASE GivesMonth(job)
  BY <1>1 DEF Comes, Due
<1>2. CASE ~GivesMonth(job)
  <2>1. \A i \in 1 .. 5 : i # 4 => Date(now)[i] = now[i]
    BY DEF Date
  <2>2. HasTime(job.time[4], now[4]) /\ HasTime(job.time[4], Date(now)[4])
    BY <1>2 DEF GivesMonth, HasTime
  <2>3. \A i \in 1 .. 5 : HasTime(job.time[i], Date(now)[i]) <=> HasTime(job.time[i], now[i])
    <3> SUFFICES ASSUME NEW i \in 1 .. 5
                 PROVE  HasTime(job.time[i], Date(now)[i]) <=> HasTime(job.time[i], now[i])
      OBVIOUS
    <3>1. CASE i = 4
      BY <2>2, <3>1
    <3>2. CASE i # 4
      BY <2>1, <3>2
    <3> QED
      BY <3>1, <3>2
  <2> QED
    BY <1>2, <2>3 DEF Comes, Due
<1> QED
  BY <1>1, <1>2

LEMMA TickPosts == ASSUME CronInv, NEW now \in Readings, Tick(now) PROVE PostsAsWritten(now)
<1>1. cronPosted' = GetAction(now)
  BY DEF Tick
<1>2. cronPaths \in Seq(JobTimes) /\ \A path \in ToSet(cronPaths) : path \in JobTimes
  BY DEF CronInv, ToSet
<1>3. ASSUME NEW action \in ToSet(cronPosted')
      PROVE  \/ \E job \in ToSet(cronJobs) : job.action = action /\ Comes(job, now)
             \/ \E job \in ToSet(cronAdded) :
                  job.action = action /\ Comes(job, now) /\ Diverted(job.time)
  <2>1. PICK path \in ToSet(cronPaths) :
          action \in ToSet(cronActions[path]) /\ \A i \in 1 .. 5 : HasTime(path[i], now[i])
    BY <1>1, <1>3, ActionsAre
  <2> DEFINE job == [time |-> path, action |-> action]
  <2>2. job.time = path /\ job.action = action /\ job \in ToSet(cronAdded) /\ Comes(job, now)
    BY <2>1, ComesWhen DEF CronInv
  <2>3. job \in Jobs
    <3>1. cronAdded \in Seq(Jobs)
      BY DEF CronInv
    <3> HIDE DEF job
    <3> QED
      BY <2>2, <3>1 DEF ToSet
  <2>4. ~Diverted(path) => job \in ToSet(cronJobs)
    <3> SUFFICES ASSUME ~Diverted(path) PROVE job \in ToSet(cronJobs)
      OBVIOUS
    <3> HIDE DEF job
    <3>1. Times(cronActions[path], action) <= Times(cronJobs, job)
      BY <2>2, <2>3 DEF CronInv
    <3>2. /\ cronActions[path] \in Seq(JobActions) /\ cronJobs \in Seq(Jobs)
      BY DEF CronInv
    <3>3. Times(cronActions[path], action) > 0 /\ Times(cronActions[path], action) \in Nat
      BY <2>1, <3>2, TimesIs
    <3>4. Times(cronJobs, job) \in Nat /\ (Times(cronJobs, job) > 0 => job \in ToSet(cronJobs))
      BY <3>2, TimesIs
    <3> QED
      BY <3>1, <3>3, <3>4
  <2> HIDE DEF job
  <2> QED
    BY <2>2, <2>4
<1>4. ASSUME NEW job \in ToSet(cronJobs), Comes(job, now), Apart(job, now)
      PROVE  job.action \in ToSet(cronPosted')
  <2> DEFINE time == job.time
             hits == ListsAt(now)
  <2>1. time \in ToSet(cronPaths) /\ time \in JobTimes
    BY <1>2 DEF CronInv
  <2>2. \A i \in 1 .. 5 : time[i] \in hits[i]
    BY <1>4, <2>1, ComesWhen DEF ListsAt, FieldsAt
  <2>3. ASSUME NEW path \in ToSet(cronPaths) \ {time}
        PROVE  /\ PartAt(path, time) \in 1 .. 4 /\ path[PartAt(path, time)] \notin hits[PartAt(path, time)]
               /\ time[PartAt(path, time)][1] # Wild
    <3>1. PartAt(path, time) \in 1 .. 5
      BY <1>2, <2>1, PartIs
    <3>2. /\ PartAt(path, time) < 5 /\ time[PartAt(path, time)][1] # Wild
          /\ ~HasTime(path[PartAt(path, time)], now[PartAt(path, time)])
      BY <1>4 DEF Apart
    <3>3. path[PartAt(path, time)] \notin hits[PartAt(path, time)]
      BY <3>1, <3>2 DEF ListsAt
    <3> HIDE DEF hits, time
    <3> QED
      BY <3>1, <3>2, <3>3
  <2> HIDE DEF hits, time
  <2>4. time \in Followed(hits)
    <3>1. \A i \in 1 .. 4 : time[i] \in hits[i]
      BY <2>2
    <3>2. \A other \in ToSet(cronPaths) \ {time} : \A i \in 1 .. 4 :
            PartAt(other, time) = i => other[i] \notin hits[i]
      BY <2>3
    <3> QED
      BY <1>2, <2>1, <3>1, <3>2, SearchComes
  <2>5. ASSUME NEW path \in Followed(hits) PROVE path = time
    <3> SUFFICES ASSUME path # time PROVE FALSE
      OBVIOUS
    <3>1. path \in ToSet(cronPaths) /\ \A i \in 1 .. 4 : path[i] \in hits[i]
      BY DEF Followed
    <3> QED
      BY <2>3, <3>1
  <2>6. Followed(hits) = {time}
    BY <2>4, <2>5
  <2>7. HasTime(time[5], now[5])
    BY <1>4, ComesWhen DEF time
  <2>8. ToSet(cronActions[time]) \subseteq ToSet(GetAction(now))
    BY <2>1, <2>6, <2>7, ActionsAre DEF hits
  <2>9. job.action \in ToSet(cronActions[time])
    <3>1. Times(cronAdded, job) = 1
      BY <1>4 DEF Apart, Times, Positions
    <3>2. Separate(time)
      BY <2>3 DEF Separate
    <3> QED
      BY <3>1, <3>2 DEF CronInv, time
  <2> QED
    BY <1>1, <2>8, <2>9
<1> QED
  BY <1>3, <1>4 DEF PostsAsWritten

\* Only a tick leaves the records as they were.
LEMMA TicksPost ==
  CronInv /\ [CronNext]_cronVars => [\A now \in Readings : Ticks(now) => PostsAsWritten(now)]_cronVars
<1> SUFFICES ASSUME CronInv, CronNext, ~UNCHANGED cronVars, NEW now \in Readings, Ticks(now)
             PROVE  PostsAsWritten(now)
  OBVIOUS
<1>1. cronJobs \in Seq(Jobs) /\ cronJobs' = cronJobs /\ cronTick' = {now}
  BY DEF CronInv, Ticks
<1>2. ASSUME NEW time \in JobTimes, NEW action \in JobActions, AddJob(time, action) PROVE FALSE
  <2> DEFINE new == [time |-> time, action |-> action]
  <2>1. cronJobs' = Append(cronJobs, new) /\ new \in Jobs
    BY <1>2 DEF AddJob, Jobs
  <2> HIDE DEF new
  <2>2. Times(Append(cronJobs, new), new) = Times(cronJobs, new) + 1 /\ Times(cronJobs, new) \in Nat
    BY <1>1, <2>1, TimesAppended, TimesIs
  <2> QED
    BY <1>1, <2>1, <2>2
<1>3. ASSUME NEW time \in JobTimes, NEW action \in JobActions, DelJob(time, action) PROVE FALSE
  <2> DEFINE gone == [time |-> time, action |-> action]
  <2>1. cronJobs' = WithoutFirst(cronJobs, Positions(cronJobs, gone))
    BY <1>3 DEF DelJob
  <2>2. CASE Positions(cronJobs, gone) = {}
    <3>1. UNCHANGED cronVars
      BY <1>1, <1>3, <2>2 DEF DelJob, cronVars
    <3> QED
      BY <3>1
  <2>3. CASE Positions(cronJobs, gone) # {}
    <3> HIDE DEF gone
    <3>1. gone \in ToSet(cronJobs) /\ Times(cronJobs, gone) \in Nat
      BY <1>1, <2>3, TimesIs
    <3>2. Times(cronJobs', gone) = Times(cronJobs, gone) - 1
      BY <1>1, <2>1, <3>1, TimesWithoutFirst
    <3> QED
      BY <1>1, <3>1, <3>2
  <2> QED
    BY <2>2, <2>3
<1>4. ASSUME NEW at \in Readings, Tick(at) PROVE PostsAsWritten(now)
  <2>1. at = now
    BY <1>1, <1>4 DEF Tick
  <2> QED
    BY <1>4, <2>1, TickPosts
<1> QED
  BY <1>2, <1>3, <1>4 DEF CronNext

\* Whatever jobs are added and deleted, in any order and any number: a tick of the cron service
\* (Cron.c, crontab.c) posts actions only of jobs that are written down and come now, or
\* whose deletion went to a "*" beside them; and a job that stands apart from the others runs
\* when it comes: when it is due as it was written, or, if it gives a month, in the month after.
THEOREM CronRunsWhatIsWritten == CronSpec => JobsAsWritten
<1>1. CronInv /\ [CronNext]_cronVars =>
        [\A now \in Readings : Ticks(now) =>
           /\ \A action \in ToSet(cronPosted') :
                \/ \E job \in ToSet(cronJobs) : job.action = action /\ Comes(job, now)
                \/ \E job \in ToSet(cronAdded) :
                     job.action = action /\ Comes(job, now) /\ Diverted(job.time)
           /\ \A job \in ToSet(cronJobs) :
                Comes(job, now) /\ Apart(job, now) => job.action \in ToSet(cronPosted')]_cronVars
  BY TicksPost DEF PostsAsWritten
<1> QED
  BY <1>1, CronInitInv, CronStep, PTL DEF CronSpec, JobsAsWritten

-----------------------------------------------------------------------------
\* The scenes that are configured. The words of a line may be anything, so that what is
\* a list is said without a set of its elements.
AList(s) == s \in Seq(ToSet(s))

Nodes == {"root", "scene", "script", "command"}
ActionTypes == {"script", "scene", "command", "enable", "disable"}

EntrySound(entry) ==
  entry = <<entry[1], entry[2]>> \/ entry = <<entry[1], entry[2], entry[3]>>

ActionSound(action) ==
  /\ action = [type |-> action.type, path |-> action.path, entries |-> action.entries]
  /\ action.type \in ActionTypes
  /\ AList(action.entries) /\ \A entry \in ToSet(action.entries) : EntrySound(entry)

\* No source is twice in a scene, and no path of an action.
SceneSound(scene) ==
  /\ scene = [enabled |-> scene.enabled, sources |-> scene.sources,
              conditions |-> scene.conditions, actions |-> scene.actions]
  /\ scene.enabled \in BOOLEAN
  /\ AList(scene.sources) /\ AList(scene.conditions) /\ AList(scene.actions)
  /\ \A i, j \in DOMAIN scene.sources : scene.sources[i] = scene.sources[j] => i = j
  /\ \A i, j \in DOMAIN scene.actions : scene.actions[i].path = scene.actions[j].path => i = j
  /\ \A action \in ToSet(scene.actions) : ActionSound(action)

ScenesSound(scenes) ==
  /\ scenes = [name \in DOMAIN scenes |-> scenes[name]] /\ IsFiniteSet(DOMAIN scenes)
  /\ \A name \in DOMAIN scenes : SceneSound(scenes[name])

MadeSound(made) ==
  /\ made = [scenes |-> made.scenes, scene |-> made.scene, script |-> made.script,
             command |-> made.command]
  /\ ScenesSound(made.scenes)

LEMMA ListIs ==
  ASSUME NEW S, NEW s \in Seq(S)
  PROVE  AList(s) /\ ToSet(s) \subseteq S
<1>1. s \in [1 .. Len(s) -> S] /\ Len(s) \in Nat /\ DOMAIN s = 1 .. Len(s)
  BY LenProperties
<1>2. ToSet(s) = Range(s)
  BY DEF ToSet, Range
<1>3. s \in Seq(Range(s))
  BY SeqOfRange
<1> QED
  BY <1>1, <1>2, <1>3 DEF AList, ToSet

LEMMA EmptyAList == AList(<< >>) /\ ToSet(<< >>) = {} /\ DOMAIN << >> = {} /\ Len(<< >>) = 0
<1> DEFINE e == << >>
<1>1. e \in Seq({}) /\ Len(e) = 0 /\ DOMAIN e = {}
  BY EmptySeq
<1> HIDE DEF e
<1>2. AList(e) /\ ToSet(e) \subseteq {}
  BY <1>1, ListIs
<1> QED
  BY <1>1, <1>2 DEF e

\* A function on 1 .. n is a list.
LEMMA ListMade ==
  ASSUME NEW n \in Nat, NEW s, DOMAIN s = 1 .. n, s = [k \in 1 .. n |-> s[k]]
  PROVE  AList(s) /\ Len(s) = n
<1> DEFINE S == ToSet(s)
<1>1. \A k \in 1 .. n : s[k] \in S
  BY DEF ToSet
<1> HIDE DEF S
<1>2. s \in [1 .. n -> S]
  BY <1>1
<1>3. s \in Seq(S)
  BY <1>2
<1>4. Len(s) \in Nat /\ DOMAIN s = 1 .. Len(s)
  BY <1>3, LenProperties
<1>5. Len(s) = n
  BY <1>4
<1> QED
  BY <1>3, <1>5, ListIs

\* A loop that removes one element at most leaves the others as they are.
LEMMA LeftOver ==
  ASSUME NEW s, AList(s), NEW hits \in SUBSET DOMAIN s
  PROVE  LET t == WithoutFirst(s, hits)
         IN /\ AList(t) /\ ToSet(t) \subseteq ToSet(s)
            /\ \E f \in [DOMAIN t -> DOMAIN s] :
                 /\ \A k, l \in DOMAIN t : f[k] = f[l] => k = l
                 /\ \A k \in DOMAIN t : t[k] = s[f[k]]
<1> DEFINE S == ToSet(s)
           t == WithoutFirst(s, hits)
<1>1. s \in Seq(S)
  BY DEF AList
<1>2. t \in Seq(S) /\ (hits = {} => t = s)
      /\ (hits # {} => IsLeft(t, s, DOMAIN s \ {Min(hits)}))
  <2> HIDE DEF S
  <2> QED
    BY <1>1, WithoutFirstLeft
<1>3. DOMAIN t \subseteq Nat
  <2> HIDE DEF t, S
  <2> QED
    BY <1>2, LenProperties
<1>4. \E f \in [DOMAIN t -> DOMAIN s] :
        /\ \A k, l \in DOMAIN t : f[k] = f[l] => k = l
        /\ \A k \in DOMAIN t : t[k] = s[f[k]]
  <2>1. CASE hits = {}
    <3> DEFINE f == [k \in DOMAIN t |-> k]
    <3>1. t = s
      BY <1>2, <2>1
    <3> HIDE DEF t
    <3>2. f \in [DOMAIN t -> DOMAIN s] /\ \A k \in DOMAIN t : f[k] = k
      BY <3>1
    <3> HIDE DEF f
    <3> QED
      BY <3>1, <3>2
  <2>2. CASE hits # {}
    <3> DEFINE kept == DOMAIN s \ {Min(hits)}
    <3>1. IsLeft(t, s, kept)
      BY <1>2, <2>2
    <3> HIDE DEF kept, t
    <3>2. PICK f \in [DOMAIN t -> DOMAIN s] :
            /\ \A k, l \in DOMAIN t : k < l => f[k] < f[l]
            /\ \A k \in DOMAIN t : t[k] = s[f[k]] /\ f[k] \in kept
      BY <3>1 DEF IsLeft
    <3>3. DOMAIN s \subseteq Nat
      BY <1>1, LenProperties
    <3>4. ASSUME NEW k \in DOMAIN t, NEW l \in DOMAIN t, f[k] = f[l] PROVE k = l
      <4>1. f[k] \in Nat /\ k \in Nat /\ l \in Nat
        BY <1>3, <3>2, <3>3
      <4>2. ~(k < l) /\ ~(l < k)
        BY <3>2, <3>4, <4>1
      <4> QED
        BY <4>1, <4>2
    <3> QED
      BY <3>2, <3>4
  <2> QED
    BY <2>1, <2>2
<1> HIDE DEF t
<1>5. AList(t) /\ ToSet(t) \subseteq S
  <2> HIDE DEF S
  <2> QED
    BY <1>2, ListIs
<1> QED
  BY <1>4, <1>5 DEF t

\* An element at the end.
LEMMA ListAppended ==
  ASSUME NEW s, AList(s), NEW x
  PROVE  /\ AList(Append(s, x)) /\ ToSet(Append(s, x)) = ToSet(s) \cup {x}
         /\ Len(s) \in Nat /\ DOMAIN s = 1 .. Len(s)
         /\ Len(Append(s, x)) = Len(s) + 1 /\ DOMAIN Append(s, x) = 1 .. Len(s) + 1
         /\ \A k \in 1 .. Len(s) : Append(s, x)[k] = s[k]
         /\ Append(s, x)[Len(s) + 1] = x
<1> DEFINE S == ToSet(s) \cup {x}
           t == Append(s, x)
<1>1. s \in Seq(ToSet(s))
  BY DEF AList
<1>2. s \in Seq(S)
  <2>1. ToSet(s) \subseteq S
    OBVIOUS
  <2> DEFINE T == ToSet(s)
  <2> HIDE DEF S, T
  <2> QED
    BY <1>1, <2>1, SeqMonotonic DEF T
<1>3. x \in S
  OBVIOUS
<1> HIDE DEF S
<1>4. /\ t \in Seq(S) /\ Len(t) = Len(s) + 1 /\ Len(s) \in Nat /\ DOMAIN s = 1 .. Len(s)
      /\ \A k \in 1 .. Len(s) + 1 : t[k] = IF k <= Len(s) THEN s[k] ELSE x
  BY <1>2, <1>3, AppendProperties, LenProperties
<1>5. DOMAIN t = 1 .. Len(s) + 1
  BY <1>4, LenProperties
<1>6. AList(t)
  BY <1>4, ListIs
<1>7. ToSet(t) = ToSet(s) \cup {x}
  BY <1>2, <1>3, TimesAppended
<1> HIDE DEF t
<1>8. (\A k \in 1 .. Len(s) : t[k] = s[k]) /\ t[Len(s) + 1] = x
  BY <1>4
<1> QED
  BY <1>4, <1>5, <1>6, <1>7, <1>8 DEF t

LEMMA ListConcat ==
  ASSUME NEW s, AList(s), NEW t, AList(t)
  PROVE  AList(s \o t) /\ ToSet(s \o t) = ToSet(s) \cup ToSet(t)
<1> DEFINE S == ToSet(s)
           T == ToSet(t)
           U == S \cup T
<1>1. s \in Seq(S) /\ t \in Seq(T)
  BY DEF AList
<1>2. S \subseteq U /\ T \subseteq U
  OBVIOUS
<1> HIDE DEF S, T, U
<1>3. s \in Seq(U) /\ t \in Seq(U)
  BY <1>1, <1>2, SeqMonotonic
<1> DEFINE u == s \o t
<1>4. u \in Seq(U) /\ ToSet(u) = ToSet(s) \cup ToSet(t)
  BY <1>3, ConcatIs
<1> HIDE DEF u
<1>5. AList(u)
  BY <1>4, ListIs
<1> QED
  BY <1>4, <1>5 DEF u

-----------------------------------------------------------------------------
\* What is done to a scene keeps it sound.
LEMMA SourcesSound ==
  ASSUME NEW scene, SceneSound(scene), NEW source
  PROVE  /\ SceneSound([scene EXCEPT !.sources = WithSource(@, source)])
         /\ SceneSound([scene EXCEPT !.sources = WithoutFirst(@, Positions(@, source))])
<1> DEFINE s == scene.sources
           a == WithSource(s, source)
           b == WithoutFirst(s, Positions(s, source))
<1>1. AList(s) /\ \A i, j \in DOMAIN s : s[i] = s[j] => i = j
  BY DEF SceneSound
<1>2. AList(a) /\ \A i, j \in DOMAIN a : a[i] = a[j] => i = j
  <2> HIDE DEF s
  <2>1. CASE Contains(s, source)
    BY <1>1, <2>1 DEF WithSource
  <2>2. CASE ~Contains(s, source)
    <3> DEFINE n == Len(s)
               e == Append(s, source)
    <3>1. a = e
      BY <2>2 DEF WithSource
    <3>2. /\ AList(e) /\ DOMAIN e = 1 .. n + 1 /\ DOMAIN s = 1 .. n /\ n \in Nat
          /\ \A k \in 1 .. n : e[k] = s[k]
          /\ e[n + 1] = source
      BY <1>1, ListAppended
    <3> HIDE DEF e
    <3>3. \A k \in 1 .. n : s[k] # source
      BY <2>2 DEF Contains
    <3>4. ASSUME NEW i \in 1 .. n + 1, NEW j \in 1 .. n + 1, e[i] = e[j] PROVE i = j
      <4> HIDE DEF n
      <4> QED
        BY <1>1, <3>2, <3>3, <3>4
    <3> HIDE DEF a
    <3> QED
      BY <3>1, <3>2, <3>4
  <2> QED
    BY <2>1, <2>2
<1>3. AList(b) /\ \A i, j \in DOMAIN b : b[i] = b[j] => i = j
  <2> HIDE DEF s
  <2> DEFINE hits == Positions(s, source)
  <2>1. hits \in SUBSET DOMAIN s
    BY DEF Positions
  <2>2. b = WithoutFirst(s, hits)
    OBVIOUS
  <2> HIDE DEF b, hits
  <2> QED
    BY <1>1, <2>1, <2>2, LeftOver
<1> HIDE DEF a, b
<1>4. SceneSound([scene EXCEPT !.sources = a]) /\ SceneSound([scene EXCEPT !.sources = b])
  BY <1>2, <1>3 DEF SceneSound
<1> QED
  BY <1>4 DEF a, b

\* The other commands of a scene that change no action keep it sound.
LEMMA ConditionsSound ==
  ASSUME NEW scene, SceneSound(scene), NEW x
  PROVE  /\ SceneSound([scene EXCEPT !.conditions = Append(@, x)])
         /\ SceneSound([scene EXCEPT !.conditions = WithoutFirst(@, Positions(@, x))])
         /\ SceneSound([scene EXCEPT !.enabled = TRUE])
         /\ SceneSound([scene EXCEPT !.enabled = FALSE])
<1> DEFINE s == scene.conditions
           a == Append(s, x)
           hits == Positions(s, x)
           b == WithoutFirst(s, hits)
<1>1. AList(s)
  BY DEF SceneSound
<1> HIDE DEF s
<1>2. hits \in SUBSET DOMAIN s
  BY DEF Positions
<1> HIDE DEF hits
<1>3. AList(a) /\ AList(b)
  BY <1>1, <1>2, ListAppended, LeftOver
<1> HIDE DEF a, b
<1>4. SceneSound([scene EXCEPT !.conditions = a]) /\ SceneSound([scene EXCEPT !.conditions = b])
  BY <1>3 DEF SceneSound
<1>5. SceneSound([scene EXCEPT !.enabled = TRUE]) /\ SceneSound([scene EXCEPT !.enabled = FALSE])
  <2>1. ASSUME NEW e \in BOOLEAN PROVE SceneSound([scene EXCEPT !.enabled = e])
    BY DEF SceneSound
  <2> QED
    BY <2>1
<1> QED
  BY <1>4, <1>5 DEF a, b, hits, s

\* An action is added under a path the scene does not have yet.
LEMMA WithActionSound ==
  ASSUME NEW scene, SceneSound(scene), NEW type \in ActionTypes, NEW path
  PROVE  SceneSound(WithAction(scene, type, path))
<1> DEFINE s == scene.actions
           n == Len(s)
           new == [type |-> type, path |-> path, entries |-> << >>]
           a == Append(s, new)
<1>1. /\ AList(s) /\ \A i, j \in DOMAIN s : s[i].path = s[j].path => i = j
      /\ \A action \in ToSet(s) : ActionSound(action)
  BY DEF SceneSound
<1>2. ActionSound(new) /\ new.path = path
  <2> DEFINE e == << >>
  <2>1. AList(e) /\ ToSet(e) = {}
    BY EmptyAList
  <2> HIDE DEF e
  <2>2. ActionSound([type |-> type, path |-> path, entries |-> e])
    BY <2>1 DEF ActionSound
  <2> QED
    BY <2>2 DEF e
<1>3. CASE \E i \in DOMAIN s : s[i].path = path
  BY <1>3 DEF WithAction
<1>4. CASE ~\E i \in DOMAIN s : s[i].path = path
  <2>1. WithAction(scene, type, path) = [scene EXCEPT !.actions = a]
    BY <1>4 DEF WithAction
  <2> HIDE DEF s, new
  <2>2. /\ AList(a) /\ DOMAIN a = 1 .. n + 1 /\ DOMAIN s = 1 .. n /\ n \in Nat
        /\ \A k \in 1 .. n : a[k] = s[k]
        /\ a[n + 1] = new /\ ToSet(a) = ToSet(s) \cup {new}
    BY <1>1, ListAppended
  <2> HIDE DEF a
  <2>3. ASSUME NEW i \in 1 .. n + 1, NEW j \in 1 .. n + 1, a[i].path = a[j].path PROVE i = j
    <3>1. \A k \in 1 .. n : s[k].path # path
      BY <1>4, <2>2
    <3> HIDE DEF n
    <3> QED
      BY <1>1, <1>2, <2>2, <2>3, <3>1
  <2>4. \A action \in ToSet(a) : ActionSound(action)
    BY <1>1, <1>2, <2>2
  <2>5. SceneSound([scene EXCEPT !.actions = a])
    <3>1. \A i, j \in DOMAIN a : a[i].path = a[j].path => i = j
      BY <2>2, <2>3
    <3> QED
      BY <2>2, <2>4, <3>1 DEF SceneSound
  <2> QED
    BY <2>1, <2>5
<1> QED
  BY <1>3, <1>4

\* What is left without an action is sound.
LEMMA WithoutActionSound ==
  ASSUME NEW scene, SceneSound(scene), NEW type, NEW path
  PROVE  SceneSound(WithoutAction(scene, type, path))
<1> DEFINE s == scene.actions
           hits == {i \in DOMAIN s : s[i].type = type /\ s[i].path = path}
           a == WithoutFirst(s, hits)
<1>1. /\ AList(s) /\ \A i, j \in DOMAIN s : s[i].path = s[j].path => i = j
      /\ \A action \in ToSet(s) : ActionSound(action)
  BY DEF SceneSound
<1>2. WithoutAction(scene, type, path) = [scene EXCEPT !.actions = a]
  BY DEF WithoutAction
<1> HIDE DEF s
<1>3. hits \in SUBSET DOMAIN s
  OBVIOUS
<1> HIDE DEF hits
<1>4. AList(a) /\ ToSet(a) \subseteq ToSet(s)
      /\ \E f \in [DOMAIN a -> DOMAIN s] :
           /\ \A k, l \in DOMAIN a : f[k] = f[l] => k = l
           /\ \A k \in DOMAIN a : a[k] = s[f[k]]
  BY <1>1, <1>3, LeftOver
<1> HIDE DEF a
<1>5. \A i, j \in DOMAIN a : a[i].path = a[j].path => i = j
  BY <1>1, <1>4
<1>6. \A action \in ToSet(a) : ActionSound(action)
  BY <1>1, <1>4
<1>7. SceneSound([scene EXCEPT !.actions = a])
  BY <1>4, <1>5, <1>6 DEF SceneSound
<1> QED
  BY <1>2, <1>7

\* The entries of an action.
LEMMA EntriesSound ==
  ASSUME NEW type, NEW list, AList(list), \A entry \in ToSet(list) : EntrySound(entry),
         NEW remove, NEW add, AList(add), \A entry \in ToSet(add) : EntrySound(entry)
  PROVE  /\ AList(Entries(type, list, remove, add))
         /\ \A entry \in ToSet(Entries(type, list, remove, add)) : EntrySound(entry)
<1> DEFINE hits == {i \in DOMAIN list : SameEntry(type, list[i], remove)}
           left == WithoutFirst(list, hits)
<1>1. hits \in SUBSET DOMAIN list
  OBVIOUS
<1> HIDE DEF hits
<1>2. AList(left) /\ ToSet(left) \subseteq ToSet(list)
  BY <1>1, LeftOver
<1> HIDE DEF left
<1>3. AList(left \o add) /\ ToSet(left \o add) = ToSet(left) \cup ToSet(add)
  BY <1>2, ListConcat
<1>4. Entries(type, list, remove, add) = left \o add
  BY DEF Entries, left, hits
<1> QED
  BY <1>2, <1>3, <1>4

-----------------------------------------------------------------------------
\* What a line leads to is sound.
LEMMA OnSceneSound ==
  ASSUME NEW made, MadeSound(made), NEW node \in Nodes,
         NEW changed, made.scene \in DOMAIN made.scenes => SceneSound(changed),
         NEW x \in OnScene(made, node, changed)
  PROVE  MadeSound(x.made) /\ x.node \in Nodes
<1> DEFINE new == [made EXCEPT !.scenes[made.scene] = changed]
           scenes == [made.scenes EXCEPT ![made.scene] = changed]
<1>1. made.scene \in DOMAIN made.scenes /\ x = [made |-> new, node |-> node]
  <2>1. made.scene \in DOMAIN made.scenes
    BY DEF OnScene, Crash
  <2>2. OnScene(made, node, changed) = {[made |-> new, node |-> node]}
    BY <2>1 DEF OnScene, Leads
  <2> QED
    BY <2>1, <2>2
<1>2. ScenesSound(scenes)
  <2>1. ScenesSound(made.scenes)
    BY DEF MadeSound
  <2>2. DOMAIN scenes = DOMAIN made.scenes
    OBVIOUS
  <2>3. \A name \in DOMAIN scenes :
          scenes[name] = IF name = made.scene THEN changed ELSE made.scenes[name]
    OBVIOUS
  <2>4. scenes = [name \in DOMAIN scenes |-> scenes[name]]
    OBVIOUS
  <2> HIDE DEF scenes
  <2> QED
    BY <1>1, <2>1, <2>2, <2>3, <2>4 DEF ScenesSound
<1>3. new.scenes = scenes /\ new = [scenes |-> scenes, scene |-> made.scene,
                                     script |-> made.script, command |-> made.command]
  <2>1. made = [scenes |-> made.scenes, scene |-> made.scene, script |-> made.script,
                command |-> made.command]
    BY DEF MadeSound
  <2> QED
    BY <2>1
<1> HIDE DEF new, scenes
<1>4. MadeSound(new)
  BY <1>2, <1>3 DEF MadeSound
<1> QED
  BY <1>1, <1>4

LEMMA EnterSceneSound ==
  ASSUME NEW made, MadeSound(made), NEW name, NEW x \in EnterScene(made, name)
  PROVE  MadeSound(x.made) /\ x.node \in Nodes
<1> DEFINE here == [made EXCEPT !.scene = name]
           scenes == [n \in DOMAIN made.scenes \cup {name} |->
                        IF n = name THEN NewScene ELSE made.scenes[n]]
           new == [scenes |-> scenes, scene |-> name, script |-> made.script,
                   command |-> made.command]
<1>1. made = [scenes |-> made.scenes, scene |-> made.scene, script |-> made.script,
              command |-> made.command] /\ ScenesSound(made.scenes)
  BY DEF MadeSound
<1>2. here = [scenes |-> made.scenes, scene |-> name, script |-> made.script,
              command |-> made.command]
  BY <1>1
<1>3. CASE name \in DOMAIN made.scenes
  <2>1. EnterScene(made, name) = {[made |-> here, node |-> "scene"]}
    BY <1>3 DEF EnterScene, Leads
  <2>2. MadeSound(here)
    BY <1>1, <1>2 DEF MadeSound
  <2> QED
    BY <2>1, <2>2 DEF Nodes
<1>4. CASE name \notin DOMAIN made.scenes
  <2>1. [here EXCEPT !.scenes = scenes] = new
    <3> HIDE DEF here, scenes
    <3> QED
      BY <1>2
  <2>2. EnterScene(made, name) = {[made |-> [here EXCEPT !.scenes = scenes], node |-> "scene"]}
    <3>1. here.scenes = made.scenes
      BY <1>2
    <3> QED
      BY <1>4, <3>1 DEF EnterScene, Leads
  <2>3. SceneSound(NewScene)
    <3> DEFINE e == << >>
    <3>1. AList(e) /\ ToSet(e) = {} /\ DOMAIN e = {}
      BY EmptyAList
    <3> HIDE DEF e
    <3>2. SceneSound([enabled |-> TRUE, sources |-> e, conditions |-> e, actions |-> e])
      <4>1. ASSUME NEW b \in BOOLEAN
            PROVE  SceneSound([enabled |-> b, sources |-> e, conditions |-> e, actions |-> e])
        BY <3>1 DEF SceneSound
      <4> QED
        BY <4>1
    <3> QED
      BY <3>2 DEF NewScene, e
  <2>4. ScenesSound(scenes)
    <3>1. IsFiniteSet(DOMAIN made.scenes \cup {name})
      <4> DEFINE D == DOMAIN made.scenes
      <4>1. IsFiniteSet(D)
        BY <1>1 DEF ScenesSound
      <4> HIDE DEF D
      <4>2. IsFiniteSet(D \cup {name})
        BY <4>1, FS_AddElement
      <4> QED
        BY <4>2 DEF D
    <3>2. DOMAIN scenes = DOMAIN made.scenes \cup {name}
      OBVIOUS
    <3>3. \A n \in DOMAIN scenes : SceneSound(scenes[n])
      BY <1>1, <2>3 DEF ScenesSound
    <3>4. scenes = [n \in DOMAIN scenes |-> scenes[n]]
      OBVIOUS
    <3> HIDE DEF scenes
    <3> QED
      BY <3>1, <3>2, <3>3, <3>4 DEF ScenesSound
  <2> HIDE DEF scenes
  <2>5. MadeSound(new)
    BY <2>4 DEF MadeSound
  <2> QED
    BY <2>1, <2>2, <2>5 DEF Nodes
<1> QED
  BY <1>3, <1>4

LEMMA DelSceneSound ==
  ASSUME NEW made, MadeSound(made), NEW name, NEW x \in DelScene(made, name)
  PROVE  MadeSound(x.made) /\ x.node \in Nodes
<1> DEFINE scenes == [n \in DOMAIN made.scenes \ {name} |-> made.scenes[n]]
           new == [scenes |-> scenes, scene |-> made.scene, script |-> made.script,
                   command |-> made.command]
<1>1. made = [scenes |-> made.scenes, scene |-> made.scene, script |-> made.script,
              command |-> made.command] /\ ScenesSound(made.scenes)
  BY DEF MadeSound
<1>2. [made EXCEPT !.scenes = scenes] = new
  BY <1>1
<1>3. DelScene(made, name) = {[made |-> [made EXCEPT !.scenes = scenes], node |-> "root"]}
  BY DEF DelScene, Leads
<1>4. ScenesSound(scenes)
  <2>1. IsFiniteSet(DOMAIN made.scenes \ {name})
    <3> DEFINE D == DOMAIN made.scenes
    <3>1. IsFiniteSet(D)
      BY <1>1 DEF ScenesSound
    <3> HIDE DEF D
    <3>2. IsFiniteSet(D \ {name})
      BY <3>1, FS_Subset
    <3> QED
      BY <3>2 DEF D
  <2>2. DOMAIN scenes = DOMAIN made.scenes \ {name}
    OBVIOUS
  <2>3. \A n \in DOMAIN scenes : SceneSound(scenes[n])
    BY <1>1 DEF ScenesSound
  <2>4. scenes = [n \in DOMAIN scenes |-> scenes[n]]
    OBVIOUS
  <2> HIDE DEF scenes
  <2> QED
    BY <2>1, <2>2, <2>3, <2>4 DEF ScenesSound
<1> HIDE DEF scenes
<1>5. MadeSound(new)
  BY <1>4 DEF MadeSound
<1> QED
  BY <1>2, <1>3, <1>5 DEF Nodes

LEMMA EnterActionSound ==
  ASSUME NEW made, MadeSound(made), NEW type \in {"script", "command"}, NEW path,
         NEW x \in EnterAction(made, type, path)
  PROVE  MadeSound(x.made) /\ x.node \in Nodes
<1> DEFINE there == [made EXCEPT ![type] = path]
           changed == WithAction(Here(made), type, path)
<1>1. made = [scenes |-> made.scenes, scene |-> made.scene, script |-> made.script,
              command |-> made.command] /\ ScenesSound(made.scenes)
  BY DEF MadeSound
<1>2. there.scenes = made.scenes /\ there.scene = made.scene
      /\ there = [scenes |-> there.scenes, scene |-> there.scene, script |-> there.script,
                  command |-> there.command]
  <2>1. CASE type = "script"
    <3>1. there = [made EXCEPT !.script = path]
      BY <2>1
    <3>2. there = [scenes |-> made.scenes, scene |-> made.scene, script |-> path,
                   command |-> made.command]
      BY <1>1, <3>1
    <3> HIDE DEF there
    <3> QED
      BY <3>2
  <2>2. CASE type = "command"
    <3>1. there = [made EXCEPT !.command = path]
      BY <2>2
    <3>2. there = [scenes |-> made.scenes, scene |-> made.scene, script |-> made.script,
                   command |-> path]
      BY <1>1, <3>1
    <3> HIDE DEF there
    <3> QED
      BY <3>2
  <2> QED
    BY <2>1, <2>2
<1>3. MadeSound(there)
  <2> HIDE DEF there
  <2> QED
    BY <1>1, <1>2 DEF MadeSound
<1>4. there.scene \in DOMAIN there.scenes => SceneSound(changed)
  <2>1. SUFFICES ASSUME made.scene \in DOMAIN made.scenes PROVE SceneSound(changed)
    BY <1>2
  <2>2. SceneSound(Here(made)) /\ type \in ActionTypes
    BY <1>1, <2>1 DEF ScenesSound, Here, ActionTypes
  <2> QED
    BY <2>2, WithActionSound
<1>5. x \in OnScene(there, type, changed) /\ type \in Nodes
  BY DEF EnterAction, Nodes
<1> HIDE DEF there, changed
<1> QED
  BY <1>3, <1>4, <1>5, OnSceneSound

\* So does every command of the node scene.
LEMMA SceneCommandSound ==
  ASSUME NEW made, MadeSound(made), NEW line, line.cmd \in CommandsOf("scene"),
         NEW x \in SceneCommand(made, line)
  PROVE  MadeSound(x.made) /\ x.node \in Nodes
<1> DEFINE arg == line.args
           scene == Here(made)
<1>1. CASE line.cmd = "action script"
  <2>1. x \in EnterAction(made, "script", arg)
    BY <1>1 DEF SceneCommand
  <2> QED
    BY <2>1, EnterActionSound
<1>2. CASE line.cmd = "action command"
  <2>1. x \in EnterAction(made, "command", arg)
    BY <1>2 DEF SceneCommand
  <2> QED
    BY <2>1, EnterActionSound
<1>3. CASE line.cmd \notin {"action script", "action command"}
  <2> DEFINE plain ==
        {[scene EXCEPT !.enabled = TRUE], [scene EXCEPT !.enabled = FALSE],
         [scene EXCEPT !.sources = WithSource(@, arg)],
         [scene EXCEPT !.sources = WithoutFirst(@, Positions(@, arg))],
         [scene EXCEPT !.conditions = Append(@, arg)],
         [scene EXCEPT !.conditions = WithoutFirst(@, Positions(@, arg))]}
             changes == plain \cup {WithAction(scene, type, arg) : type \in ActionTypes}
                        \cup {WithoutAction(scene, type, arg) : type \in ActionTypes}
  <2>1. \E changed \in changes : x \in OnScene(made, "scene", changed)
    <3> HIDE DEF scene, arg
    <3>1. CASE line.cmd = "enable"
      BY <3>1 DEF SceneCommand, scene, arg
    <3>2. CASE line.cmd = "no enable"
      BY <3>2 DEF SceneCommand, scene, arg
    <3>3. CASE line.cmd = "source"
      BY <3>3 DEF SceneCommand, scene, arg
    <3>4. CASE line.cmd = "no source"
      BY <3>4 DEF SceneCommand, scene, arg
    <3>5. CASE line.cmd = "condition"
      BY <3>5 DEF SceneCommand, scene, arg
    <3>6. CASE line.cmd = "no condition"
      BY <3>6 DEF SceneCommand, scene, arg
    <3>7. CASE line.cmd = "action scene"
      BY <3>7 DEF SceneCommand, ActionTypes, scene, arg
    <3>8. CASE line.cmd = "no action scene"
      BY <3>8 DEF SceneCommand, ActionTypes, scene, arg
    <3>9. CASE line.cmd = "action enable"
      BY <3>9 DEF SceneCommand, ActionTypes, scene, arg
    <3>10. CASE line.cmd = "no action enable"
      BY <3>10 DEF SceneCommand, ActionTypes, scene, arg
    <3>11. CASE line.cmd = "action disable"
      BY <3>11 DEF SceneCommand, ActionTypes, scene, arg
    <3>12. CASE line.cmd = "no action disable"
      BY <3>12 DEF SceneCommand, ActionTypes, scene, arg
    <3>13. CASE line.cmd = "no action script"
      BY <3>13 DEF SceneCommand, ActionTypes, scene, arg
    <3>14. CASE line.cmd = "no action command"
      BY <3>14 DEF SceneCommand, ActionTypes, scene, arg
    <3> QED
      BY <1>3, <3>1, <3>2, <3>3, <3>4, <3>5, <3>6, <3>7, <3>8, <3>9, <3>10, <3>11, <3>12, <3>13, <3>14 DEF CommandsOf
  <2>2. PICK changed \in changes : x \in OnScene(made, "scene", changed)
    BY <2>1
  <2>3. made.scene \in DOMAIN made.scenes => SceneSound(changed)
    <3> SUFFICES ASSUME made.scene \in DOMAIN made.scenes PROVE SceneSound(changed)
      OBVIOUS
    <3>1. SceneSound(scene)
      BY DEF Here, MadeSound, ScenesSound
    <3> HIDE DEF scene, arg
    <3>2. ASSUME NEW c \in plain PROVE SceneSound(c)
      <4>1. /\ SceneSound([scene EXCEPT !.sources = WithSource(@, arg)])
            /\ SceneSound([scene EXCEPT !.sources = WithoutFirst(@, Positions(@, arg))])
        BY <3>1, SourcesSound
      <4>2. /\ SceneSound([scene EXCEPT !.conditions = Append(@, arg)])
            /\ SceneSound([scene EXCEPT !.conditions = WithoutFirst(@, Positions(@, arg))])
            /\ SceneSound([scene EXCEPT !.enabled = TRUE])
            /\ SceneSound([scene EXCEPT !.enabled = FALSE])
        BY <3>1, ConditionsSound
      <4> QED
        BY <4>1, <4>2, Zenon
    <3>3. ASSUME NEW type \in ActionTypes
          PROVE  SceneSound(WithAction(scene, type, arg)) /\ SceneSound(WithoutAction(scene, type, arg))
      BY <3>1, WithActionSound, WithoutActionSound
    <3> HIDE DEF plain
    <3> QED
      BY <3>2, <3>3
  <2> HIDE DEF changes
  <2> QED
    BY <2>2, <2>3, OnSceneSound DEF Nodes
<1> QED
  BY <1>1, <1>2, <1>3

\* An entry is added to an action, or removed.
LEMMA OnActionSound ==
  ASSUME NEW made, MadeSound(made), NEW type \in {"script", "command"}, NEW remove,
         NEW add, AList(add), \A entry \in ToSet(add) : EntrySound(entry),
         NEW x \in OnAction(made, type, remove, add)
  PROVE  MadeSound(x.made) /\ x.node \in Nodes
<1> DEFINE scene == Here(made)
           s == scene.actions
           New(action) == IF action.path # made[type] THEN action
                          ELSE [action EXCEPT !.entries = Entries(type, @, remove, add)]
           a == [i \in DOMAIN s |-> New(s[i])]
           changed == [scene EXCEPT !.actions = a]
<1>1. made.scene \in DOMAIN made.scenes /\ x \in OnScene(made, type, changed)
  <2> DEFINE there == /\ made.scene \in DOMAIN made.scenes
                      /\ \E i \in DOMAIN Here(made).actions : Here(made).actions[i].path = made[type]
  <2>1. OnAction(made, type, remove, add) = IF there THEN OnScene(made, type, changed) ELSE {}
    BY Zenon DEF OnAction, Crash
  <2> HIDE DEF changed
  <2> QED
    BY <2>1
<1>2. SceneSound(scene)
  BY <1>1 DEF Here, MadeSound, ScenesSound
<1>3. SceneSound(changed)
  <2>1. /\ AList(s) /\ \A i, j \in DOMAIN s : s[i].path = s[j].path => i = j
        /\ \A action \in ToSet(s) : ActionSound(action)
    BY <1>2 DEF SceneSound
  <2>2. ASSUME NEW action, ActionSound(action)
        PROVE  ActionSound(New(action)) /\ New(action).path = action.path
    <3> DEFINE e == Entries(type, action.entries, remove, add)
    <3>1. AList(e) /\ \A entry \in ToSet(e) : EntrySound(entry)
      BY <2>2, EntriesSound DEF ActionSound
    <3> HIDE DEF e
    <3>2. /\ ActionSound([action EXCEPT !.entries = e])
          /\ [action EXCEPT !.entries = e].path = action.path
      BY <2>2, <3>1 DEF ActionSound
    <3> QED
      BY <2>2, <3>2 DEF e
  <2> HIDE DEF s, New
  <2>3. Len(s) \in Nat /\ DOMAIN s = 1 .. Len(s)
    BY <2>1, ListAppended
  <2>4. AList(a)
    <3>1. DOMAIN a = 1 .. Len(s) /\ a = [k \in 1 .. Len(s) |-> a[k]]
      BY <2>3
    <3> HIDE DEF a
    <3> QED
      BY <2>3, <3>1, ListMade
  <2>5. \A i \in DOMAIN s : ActionSound(a[i]) /\ a[i].path = s[i].path
    BY <2>1, <2>2 DEF ToSet
  <2>6. DOMAIN a = DOMAIN s
    OBVIOUS
  <2> HIDE DEF a
  <2>7. \A i, j \in DOMAIN a : a[i].path = a[j].path => i = j
    BY <2>1, <2>5, <2>6
  <2>8. \A action \in ToSet(a) : ActionSound(action)
    BY <2>5, <2>6 DEF ToSet
  <2> HIDE DEF scene
  <2> QED
    BY <1>2, <2>4, <2>7, <2>8 DEF SceneSound
<1> HIDE DEF changed
<1> QED
  BY <1>1, <1>3, OnSceneSound DEF Nodes

\* And every line that has its parts, in every node.
LEMMA RunSound ==
  ASSUME NEW made, MadeSound(made), NEW node \in Nodes, NEW line, HasParts(line),
         NEW known \in BOOLEAN, NEW x \in Run(made, node, line, known)
  PROVE  MadeSound(x.made) /\ x.node \in Nodes
<1>1. CASE line.cmd = "end"
  <2>1. x \in Ends(made, node)
    BY <1>1 DEF Run
  <2>2. CASE node = "root"
    BY <2>1, <2>2 DEF Ends, Leads
  <2>3. CASE node # "root"
    <3> DEFINE new == [made EXCEPT ![node] = NoContext]
    <3>1. x.made = new /\ x.node \in Nodes
      BY <2>1, <2>3 DEF Ends, Leads, Nodes
    <3>2. MadeSound(new)
      <4>1. CASE node = "scene"
        <5>1. MadeSound([made EXCEPT !.scene = NoContext])
          BY DEF MadeSound
        <5> QED
          BY <4>1, <5>1
      <4>2. CASE node = "script"
        <5>1. MadeSound([made EXCEPT !.script = NoContext])
          BY DEF MadeSound
        <5> QED
          BY <4>2, <5>1
      <4>3. CASE node = "command"
        <5>1. MadeSound([made EXCEPT !.command = NoContext])
          BY DEF MadeSound
        <5> QED
          BY <4>3, <5>1
      <4> QED
        BY <2>3, <4>1, <4>2, <4>3 DEF Nodes
    <3> QED
      BY <3>1, <3>2
  <2> QED
    BY <2>2, <2>3
<1>2. CASE line.cmd # "end" /\ (line.cmd \notin CommandsOf(node) \/ ~known)
  <2>1. x \in Leads(made, node)
    BY <1>2 DEF Run
  <2> QED
    BY <2>1 DEF Leads
<1>3. CASE line.cmd # "end" /\ line.cmd \in CommandsOf(node) /\ known
  <2>1. CASE line.cmd = "scene"
    <3>1. x \in EnterScene(made, line.args)
      BY <1>3, <2>1 DEF Run
    <3> QED
      BY <3>1, EnterSceneSound
  <2>2. CASE line.cmd = "no scene"
    <3>1. x \in DelScene(made, line.args)
      BY <1>3, <2>2 DEF Run
    <3> QED
      BY <3>1, DelSceneSound
  <2>3. CASE line.cmd \in {"environment", "argument", "no environment", "no argument"}
    <3>1. node \in {"script", "command"}
      BY <1>3, <2>3 DEF CommandsOf, Nodes
    <3> DEFINE add == IF line.cmd \in {"environment", "argument"} THEN <<line.args>> ELSE << >>
    <3>2. x \in OnAction(made, node, line.args, add)
      BY <1>3, <2>3 DEF Run
    <3>3. AList(add) /\ \A entry \in ToSet(add) : EntrySound(entry)
      <4>1. CASE line.cmd \in {"environment", "argument"}
        <5> DEFINE e == <<line.args>>
        <5>1. add = e
          BY <4>1
        <5>2. e \in Seq({line.args})
          OBVIOUS
        <5>3. EntrySound(line.args)
          BY <4>1 DEF HasParts, EntrySound
        <5> HIDE DEF e
        <5>4. AList(e) /\ ToSet(e) \subseteq {line.args}
          BY <5>2, ListIs
        <5> HIDE DEF add
        <5> QED
          BY <5>1, <5>3, <5>4
      <4>2. CASE line.cmd \notin {"environment", "argument"}
        <5>1. add = << >>
          BY <4>2
        <5> HIDE DEF add
        <5> QED
          BY <5>1, EmptyAList
      <4> QED
        BY <4>1, <4>2
    <3> HIDE DEF add
    <3> QED
      BY <3>1, <3>2, <3>3, OnActionSound
  <2>4. CASE line.cmd \notin {"scene", "no scene", "environment", "argument", "no environment",
                              "no argument"}
    <3>1. node = "scene"
      BY <1>3, <2>4 DEF CommandsOf, Nodes
    <3>2. x \in SceneCommand(made, line)
      BY <1>3, <2>4 DEF Run
    <3>3. line.cmd \in CommandsOf("scene")
      BY <1>3, <3>1
    <3> QED
      BY <3>2, <3>3, SceneCommandSound
  <2> QED
    BY <2>1, <2>2, <2>3, <2>4
<1> QED
  BY <1>1, <1>2, <1>3

-----------------------------------------------------------------------------
\* A file of lines that have their parts.
FileSound(lines) == AList(lines) /\ \A line \in ToSet(lines) : HasParts(line)

\* What a line makes of the states that may be.
After(line, states) == UNION {Run(a.made, a.node, line, OneWord(line)) : a \in states}

\* The lines of a file, one after the other.
Steps(at, lines, n) ==
  at = [k \in 0 .. n |-> IF k = 0 THEN Leads(Blank, "root") ELSE After(lines[k], at[k - 1])]

\* What a start makes of a file, as the last of the sets of states that follow its lines.
LEMMA LoadedIs ==
  ASSUME NEW lines, Len(lines) \in Nat
  PROVE  \E at : Steps(at, lines, Len(lines)) /\ Loaded(lines) = at[Len(lines)]
<1> DEFINE L == Len(lines)
           P == {n \in Nat : \E at : Steps(at, lines, n)}
<1>1. 0 \in P
  <2> DEFINE at == [k \in 0 .. 0 |-> Leads(Blank, "root")]
  <2>1. Steps(at, lines, 0)
    BY DEF Steps
  <2> QED
    BY <2>1
<1>2. ASSUME NEW n \in 1 .. L, n - 1 \in P PROVE n \in P
  <2>1. PICK at : Steps(at, lines, n - 1)
    BY <1>2
  <2> DEFINE new == [k \in 0 .. n |-> IF k = n THEN After(lines[n], at[n - 1]) ELSE at[k]]
  <2>2. ASSUME NEW k \in 0 .. n
        PROVE  new[k] = IF k = 0 THEN Leads(Blank, "root") ELSE After(lines[k], new[k - 1])
    <3>1. n \in Nat /\ n # 0 /\ k \in Nat /\ (k # n => k \in 0 .. n - 1)
      OBVIOUS
    <3>2. CASE k = n
      <4>1. n - 1 \in 0 .. n /\ n - 1 # n
        BY <3>1
      <4> QED
        BY <3>1, <3>2, <4>1
    <3>3. CASE k # n
      <4>1. at[k] = IF k = 0 THEN Leads(Blank, "root") ELSE After(lines[k], at[k - 1])
        BY <2>1, <3>1, <3>3 DEF Steps
      <4>2. k # 0 => k - 1 \in 0 .. n /\ k - 1 # n
        BY <3>1
      <4> QED
        BY <3>3, <4>1, <4>2
    <3> QED
      BY <3>2, <3>3
  <2>3. DOMAIN new = 0 .. n /\ new = [k \in 0 .. n |-> new[k]]
    OBVIOUS
  <2> HIDE DEF new
  <2>4. Steps(new, lines, n)
    BY <2>2, <2>3 DEF Steps
  <2> QED
    BY <2>4
<1>3. L \in P
  <2>1. \A n \in 0 .. L : n \in P
    <3> HIDE DEF P
    <3> QED
      BY <1>1, <1>2, Induction
  <2> HIDE DEF P
  <2> QED
    BY <2>1
<1> DEFINE Is(g) == Steps(g, lines, L)
           A == CHOOSE g : Is(g)
<1>4. Is(A)
  <2>1. \E g : Is(g)
    BY <1>3
  <2> HIDE DEF Is
  <2> QED
    BY <2>1
<1>5. Loaded(lines) = A[L]
  BY DEF Loaded, Steps, After
<1> HIDE DEF A
<1> QED
  BY <1>4, <1>5

\* A start makes sound scenes of any file whose lines have their parts.
LEMMA LoadedSound ==
  ASSUME NEW lines, FileSound(lines), NEW x \in Loaded(lines)
  PROVE  MadeSound(x.made) /\ x.node \in Nodes
<1> DEFINE L == Len(lines)
<1>1. L \in Nat /\ DOMAIN lines = 1 .. L
  BY ListAppended DEF FileSound
<1>2. PICK at : Steps(at, lines, L) /\ Loaded(lines) = at[L]
  BY <1>1, LoadedIs
<1> HIDE DEF L
<1> DEFINE P == {n \in Nat : \A a \in at[n] : MadeSound(a.made) /\ a.node \in Nodes}
<1>3. 0 \in P
  <2>1. at[0] = {[made |-> Blank, node |-> "root"]}
    <3>1. 0 \in 0 .. L
      BY <1>1
    <3> QED
      BY <1>2, <3>1 DEF Steps, Leads
  <2>2. MadeSound(Blank)
    <3> DEFINE e == << >>
    <3>1. DOMAIN e = {} /\ e = [n \in DOMAIN e |-> e[n]]
      OBVIOUS
    <3>2. IsFiniteSet({})
      BY FS_EmptySet
    <3> HIDE DEF e
    <3>3. ScenesSound(e)
      BY <3>1, <3>2 DEF ScenesSound
    <3>4. Blank = [scenes |-> e, scene |-> NoContext, script |-> NoContext, command |-> NoContext]
      BY DEF Blank, e
    <3> QED
      BY <3>3, <3>4 DEF MadeSound
  <2> QED
    BY <2>1, <2>2 DEF Nodes
<1>4. ASSUME NEW n \in 1 .. L, n - 1 \in P PROVE n \in P
  <2>1. n \in 0 .. L /\ n # 0 /\ n \in Nat
    BY <1>1
  <2>2. at[n] = After(lines[n], at[n - 1])
    BY <1>2, <2>1 DEF Steps
  <2>3. HasParts(lines[n]) /\ OneWord(lines[n]) \in BOOLEAN
    BY <1>1 DEF FileSound, ToSet, OneWord
  <2>4. ASSUME NEW b \in at[n] PROVE MadeSound(b.made) /\ b.node \in Nodes
    <3>1. PICK a \in at[n - 1] : b \in Run(a.made, a.node, lines[n], OneWord(lines[n]))
      BY <2>2 DEF After
    <3>2. MadeSound(a.made) /\ a.node \in Nodes
      BY <1>4
    <3> QED
      BY <2>3, <3>1, <3>2, RunSound
  <2> QED
    BY <2>1, <2>4
<1>5. L \in P
  <2> HIDE DEF P
  <2>1. \A n \in 0 .. L : n \in P
    BY <1>1, <1>3, <1>4, Induction
  <2> QED
    BY <1>1, <2>1
<1> QED
  BY <1>2, <1>5

-----------------------------------------------------------------------------
\* The lines that are shown.

\* Every element of a finite set is once in the list of its elements.
LEMMA ListOfSet ==
  ASSUME NEW S, IsFiniteSet(S)
  PROVE  LET s == SetToSeq(S)
         IN /\ Cardinality(S) \in Nat /\ Len(s) = Cardinality(S)
            /\ s \in [1 .. Cardinality(S) -> S] /\ s \in Seq(S)
            /\ \A i, j \in 1 .. Cardinality(S) : s[i] = s[j] => i = j
            /\ \A x \in S : \E i \in 1 .. Cardinality(S) : s[i] = x
<1> DEFINE n == Cardinality(S)
           D == 1 .. n
           s == SetToSeq(S)
<1>1. n \in Nat /\ ExistsBijection(D, S)
  BY FS_CardinalityType
<1> HIDE DEF n
<1>2. \E f \in [D -> S] : IsInjective(f)
  BY <1>1 DEF ExistsBijection, Bijection, Injection, IsInjective
<1>3. s \in [D -> S] /\ IsInjective(s)
  BY <1>2 DEF SetToSeq, n
<1> HIDE DEF s
<1>4. s \in Injection(D, S)
  BY <1>3 DEF Injection, IsInjective
<1>5. IsFiniteSet(D) /\ Cardinality(D) = n
  BY <1>1, FS_Interval
<1>6. s \in Surjection(D, S)
  <2> HIDE DEF D
  <2>1. Cardinality(D) = Cardinality(S)
    BY <1>5 DEF n
  <2> QED
    BY <1>4, <2>1, FS_Injection
<1>7. \A x \in S : \E i \in D : s[i] = x
  BY <1>6 DEF Surjection
<1>8. s \in Seq(S) /\ Len(s) = n
  BY <1>1, <1>3
<1>9. \A i, j \in D : s[i] = s[j] => i = j
  BY <1>3 DEF IsInjective
<1> QED
  BY <1>1, <1>3, <1>7, <1>8, <1>9 DEF n, s

\* A list of lists is put together step by step.
LEMMA FlattenSteps ==
  ASSUME NEW S, NEW seqs \in Seq(Seq(S))
  PROVE  \E put : /\ put[0] = << >> /\ put[Len(seqs)] = FlattenSeq(seqs)
                  /\ \A n \in 1 .. Len(seqs) : put[n] = put[n - 1] \o seqs[n]
                  /\ \A n \in 0 .. Len(seqs) : put[n] \in Seq(S)
<1> DEFINE L == Len(seqs)
           T == Seq(S)
           F == [n \in Nat |-> [x \in T |-> IF n \in 1 .. L THEN x \o seqs[n] ELSE x]]
           Is(g) == g = [n \in 1 .. L |-> IF n = 1 THEN seqs[n] ELSE g[n - 1] \o seqs[n]]
           A == CHOOSE g : Is(g)
<1>1. L \in Nat /\ DOMAIN seqs = 1 .. L /\ \A n \in 1 .. L : seqs[n] \in T
  BY LenProperties
<1>2. ASSUME NEW x \in T, NEW n \in 1 .. L PROVE x \o seqs[n] \in T
  BY <1>1, ConcatProperties
<1>3. F \in [Nat -> [T -> T]]
  <2> HIDE DEF T
  <2> QED
    BY <1>2
<1>4. << >> \in T
  BY EmptySeq
<1>5. PICK h : Iterates(h, T, << >>, F, L)
  <2> HIDE DEF F, T
  <2> QED
    BY <1>1, <1>3, <1>4, Iteration
<1>6. \A n \in 0 .. L : h[n] \in T
  BY <1>5 DEF Iterates
<1>7. ASSUME NEW n \in 1 .. L PROVE h[n] = h[n - 1] \o seqs[n]
  <2>1. n - 1 \in 0 .. L /\ n \in Nat
    BY <1>1
  <2>2. h[n] = F[n][h[n - 1]] /\ h[n - 1] \in T
    BY <1>5, <1>6, <2>1 DEF Iterates
  <2> HIDE DEF T
  <2> QED
    BY <2>1, <2>2
<1>8. h[0] = << >>
  BY <1>5 DEF Iterates
<1>11. ASSUME NEW n \in 1 .. L, n = 1 PROVE h[n] = seqs[n]
  <2>1. n - 1 = 0
    BY <1>11
  <2>2. h[n - 1] = << >>
    BY <1>8, <2>1
  <2>3. << >> \o seqs[n] = seqs[n]
    BY <1>1, ConcatEmptySeq
  <2> QED
    BY <1>7, <2>2, <2>3
<1>9. CASE L = 0
  <2>1. seqs = << >>
    BY <1>9, EmptySeq
  <2>2. FlattenSeq(seqs) = << >>
    BY <1>9, <2>1 DEF FlattenSeq
  <2> QED
    BY <1>6, <1>7, <1>8, <1>9, <2>2
<1>10. CASE L # 0
  <2> DEFINE g == [n \in 1 .. L |-> h[n]]
  <2>1. Is(g)
    <3>1. ASSUME NEW n \in 1 .. L PROVE h[n] = IF n = 1 THEN seqs[n] ELSE g[n - 1] \o seqs[n]
      <4>1. CASE n = 1
        BY <1>11, <4>1
      <4>2. CASE n # 1
        <5>1. n - 1 \in 1 .. L
          BY <1>1, <4>2
        <5> QED
          BY <1>7, <4>2, <5>1
      <4> QED
        BY <4>1, <4>2
    <3> QED
      BY <3>1
  <2>2. Is(A)
    <3> HIDE DEF Is
    <3> QED
      BY <2>1
  <2>3. ASSUME NEW n \in 1 .. L PROVE A[n] = IF n = 1 THEN seqs[n] ELSE A[n - 1] \o seqs[n]
    <3> HIDE DEF A
    <3> QED
      BY <2>2
  <2> DEFINE P == {n \in Nat : n = 0 \/ A[n] = h[n]}
  <2>4. FlattenSeq(seqs) = A[L]
    BY <1>10 DEF FlattenSeq
  <2> HIDE DEF A
  <2>5. 0 \in P
    OBVIOUS
  <2>6. ASSUME NEW n \in 1 .. L, n - 1 \in P PROVE n \in P
    <3>1. n \in Nat
      BY <1>1
    <3>2. A[n] = h[n]
      <4>1. CASE n = 1
        BY <1>11, <2>3, <4>1
      <4>2. CASE n # 1
        <5>1. A[n - 1] = h[n - 1]
          BY <2>6, <3>1, <4>2
        <5> QED
          BY <1>7, <2>3, <4>2, <5>1
      <4> QED
        BY <4>1, <4>2
    <3> QED
      BY <3>1, <3>2
  <2>7. L \in P
    <3> HIDE DEF P
    <3>1. \A n \in 0 .. L : n \in P
      BY <1>1, <2>5, <2>6, Induction
    <3> QED
      BY <1>1, <3>1
  <2>8. FlattenSeq(seqs) = h[L]
    BY <1>10, <2>4, <2>7
  <2> QED
    BY <1>6, <1>7, <1>8, <2>8
<1> QED
  BY <1>1, <1>9, <1>10

\* What has been put together after each of n lists.
Together(put, seqs, n) ==
  /\ put[0] = << >> /\ put[n] = FlattenSeq(seqs)
  /\ \A k \in 1 .. n : put[k] = put[k - 1] \o seqs[k]
  /\ \A k \in 0 .. n : AList(put[k])

\* Lists one after another are a list.
LEMMA ListFlattened ==
  ASSUME NEW n \in Nat, NEW seqs, DOMAIN seqs = 1 .. n, seqs = [k \in 1 .. n |-> seqs[k]],
         \A k \in 1 .. n : AList(seqs[k])
  PROVE  /\ AList(FlattenSeq(seqs))
         /\ ToSet(FlattenSeq(seqs)) = UNION {ToSet(seqs[k]) : k \in 1 .. n}
         /\ \E put : Together(put, seqs, n)
<1> DEFINE S == UNION {ToSet(seqs[k]) : k \in 1 .. n}
           T == Seq(S)
           flat == FlattenSeq(seqs)
<1>1. ASSUME NEW k \in 1 .. n PROVE seqs[k] \in T
  <2> DEFINE K == ToSet(seqs[k])
  <2>1. K \subseteq S
    OBVIOUS
  <2>2. seqs[k] \in Seq(K)
    BY DEF AList
  <2> HIDE DEF S, K
  <2> QED
    BY <2>1, <2>2, SeqMonotonic
<1>2. seqs \in Seq(T) /\ Len(seqs) = n
  <2> HIDE DEF T
  <2>1. seqs \in [1 .. n -> T]
    BY <1>1
  <2>2. seqs \in Seq(T)
    BY <2>1
  <2>3. Len(seqs) \in Nat /\ DOMAIN seqs = 1 .. Len(seqs)
    BY <2>2, LenProperties
  <2>4. Len(seqs) = n
    BY <2>3
  <2> QED
    BY <2>2, <2>4
<1>3. ToSet(flat) = S
  <2>1. ToSet(flat) = UNION {ToSet(seqs[k]) : k \in DOMAIN seqs}
    <3> HIDE DEF S
    <3> QED
      BY <1>2, FlattenIs
  <2> QED
    BY <2>1
<1> HIDE DEF S
<1>4. PICK put : /\ put[0] = << >> /\ put[n] = flat
                 /\ \A k \in 1 .. n : put[k] = put[k - 1] \o seqs[k]
                 /\ \A k \in 0 .. n : put[k] \in T
  BY <1>2, FlattenSteps
<1> HIDE DEF flat
<1>5. \A k \in 0 .. n : AList(put[k])
  BY <1>4, ListIs
<1>6. AList(flat)
  BY <1>4, <1>5
<1> QED
  BY <1>3, <1>4, <1>5, <1>6 DEF S, flat, Together

\* The lines that are shown have their parts.
LEMMA LineSound ==
  ASSUME NEW cmd, cmd \notin {"environment", "argument"}, NEW args
  PROVE  HasParts(Line(cmd, args))
  BY DEF HasParts, Line

LEMMA FileConcat ==
  ASSUME NEW a, FileSound(a), NEW b, FileSound(b)
  PROVE  FileSound(a \o b)
  BY ListConcat DEF FileSound

LEMMA FileMade ==
  ASSUME NEW n \in Nat, NEW a, DOMAIN a = 1 .. n, a = [k \in 1 .. n |-> a[k]],
         \A k \in 1 .. n : HasParts(a[k])
  PROVE  FileSound(a)
<1>1. AList(a)
  BY ListMade
<1> QED
  BY <1>1 DEF FileSound, ToSet

LEMMA PairIs ==
  ASSUME NEW s, AList(s), Len(s) = 2
  PROVE  s = <<s[1], s[2]>>
<1> DEFINE S == ToSet(s)
<1>1. s \in Seq(S) /\ Len(s) = 2
  BY DEF AList
<1> HIDE DEF S
<1>2. DOMAIN s = 1 .. 2 /\ s \in [1 .. 2 -> S]
  BY <1>1, LenProperties
<1> QED
  BY <1>1, <1>2

LEMMA TripleIs ==
  ASSUME NEW s, AList(s), Len(s) = 3
  PROVE  s = <<s[1], s[2], s[3]>>
<1> DEFINE S == ToSet(s)
<1>1. s \in Seq(S) /\ Len(s) = 3
  BY DEF AList
<1> HIDE DEF S
<1>2. DOMAIN s = 1 .. 3 /\ s \in [1 .. 3 -> S]
  BY <1>1, LenProperties
<1> QED
  BY <1>1, <1>2

\* The command that begins an action of each type.
ActionCommands ==
  [script |-> "action script", scene |-> "action scene", command |-> "action command",
   enable |-> "action enable", disable |-> "action disable"]

LEMMA ActionCommandIs ==
  ASSUME NEW type \in ActionTypes
  PROVE  /\ ActionCommands[type] \notin {"environment", "argument"}
         /\ type = "script" => ActionCommands[type] = "action script"
         /\ type = "scene" => ActionCommands[type] = "action scene"
         /\ type = "command" => ActionCommands[type] = "action command"
         /\ type = "enable" => ActionCommands[type] = "action enable"
         /\ type = "disable" => ActionCommands[type] = "action disable"
<1> DEFINE c == ActionCommands
<1>1. /\ c.script = "action script" /\ c.scene = "action scene" /\ c.command = "action command"
      /\ c.enable = "action enable" /\ c.disable = "action disable"
  BY DEF ActionCommands
<1> HIDE DEF c
<1>2. /\ type = "script" => c[type] = "action script"
      /\ type = "scene" => c[type] = "action scene"
      /\ type = "command" => c[type] = "action command"
      /\ type = "enable" => c[type] = "action enable"
      /\ type = "disable" => c[type] = "action disable"
  BY <1>1
<1>3. c[type] \notin {"environment", "argument"}
  BY <1>2 DEF ActionTypes
<1> QED
  BY <1>2, <1>3 DEF c

\* An entry is shown as a line that has its parts, also one of the other kind.
LEMMA EntryLineSound ==
  ASSUME NEW type, NEW entry, EntrySound(entry)
  PROVE  HasParts(EntryLine(type, entry))
<1>1. CASE type = "script"
  BY <1>1 DEF EntryLine, HasParts, Line
<1>2. CASE type # "script"
  <2> DEFINE args == IF Len(entry) = 3 THEN entry ELSE Append(entry, "garbage")
  <2>1. args = <<args[1], args[2], args[3]>>
    <3>1. CASE entry = <<entry[1], entry[2]>>
      <4> DEFINE g == "garbage"
                 a == Append(entry, g)
      <4>1. Len(entry) = 2 /\ entry \in Seq({entry[1], entry[2]})
        <5> DEFINE x == entry[1]
                   y == entry[2]
        <5>1. entry = <<x, y>>
          BY <3>1
        <5> HIDE DEF x, y
        <5>2. entry \in Seq({x, y}) /\ Len(entry) = 2
          BY <5>1
        <5> QED
          BY <5>2 DEF x, y
      <4>2. AList(entry)
        BY <4>1, ListIs
      <4> HIDE DEF g
      <4>3. AList(a) /\ Len(a) = Len(entry) + 1
        BY <4>2, ListAppended
      <4>4. args = a
        BY <4>1 DEF g
      <4> HIDE DEF args, a
      <4> QED
        BY <4>1, <4>3, <4>4, TripleIs
    <3>2. CASE entry = <<entry[1], entry[2], entry[3]>>
      BY <3>2
    <3> QED
      BY <3>1, <3>2 DEF EntrySound
  <2>2. EntryLine(type, entry) = Line("argument", args)
    BY <1>2 DEF EntryLine
  <2> HIDE DEF args
  <2> QED
    BY <2>1, <2>2 DEF HasParts, Line
<1> QED
  BY <1>1, <1>2

LEMMA ActionShownSound ==
  ASSUME NEW action, ActionSound(action)
  PROVE  FileSound(ShownAction(action))
<1> DEFINE e == action.entries
           n == Len(e)
           type == action.type
           enter == <<ActionLine(action)>>
           lines == [i \in DOMAIN e |-> EntryLine(type, e[i])]
           end == Append(lines, End)
<1>1. FileSound(enter)
  <2>1. HasParts(ActionLine(action))
    <3>1. type \in ActionTypes
      BY DEF ActionSound
    <3>2. ActionLine(action) = Line(ActionCommands[type], action.path)
      BY DEF ActionLine, ActionCommands
    <3> HIDE DEF type
    <3> QED
      BY <3>1, <3>2, ActionCommandIs, LineSound
  <2>2. DOMAIN enter = 1 .. 1 /\ enter = [k \in 1 .. 1 |-> enter[k]] /\ enter[1] = ActionLine(action)
    OBVIOUS
  <2> HIDE DEF enter
  <2>3. \A k \in 1 .. 1 : HasParts(enter[k])
    BY <2>1, <2>2
  <2> QED
    BY <2>2, <2>3, FileMade
<1>2. FileSound(end)
  <2>1. AList(e) /\ n \in Nat /\ DOMAIN e = 1 .. n /\ \A i \in 1 .. n : EntrySound(e[i])
    <3>1. AList(e) /\ \A entry \in ToSet(e) : EntrySound(entry)
      BY DEF ActionSound
    <3> HIDE DEF e
    <3>2. n \in Nat /\ DOMAIN e = 1 .. n
      BY <3>1, ListAppended
    <3> QED
      BY <3>1, <3>2 DEF ToSet
  <2> HIDE DEF e, n, type
  <2>2. DOMAIN lines = 1 .. n /\ lines = [k \in 1 .. n |-> lines[k]]
    BY <2>1
  <2>3. \A k \in 1 .. n : HasParts(lines[k])
    BY <2>1, EntryLineSound
  <2> HIDE DEF lines
  <2>4. FileSound(lines)
    BY <2>1, <2>2, <2>3, FileMade
  <2>5. HasParts(End)
    BY LineSound DEF End
  <2> QED
    BY <2>4, <2>5, ListAppended DEF FileSound
<1>3. FileSound(<< >>)
  BY EmptyAList DEF FileSound
<1>4. \/ ShownAction(action) = enter \o << >>
      \/ ShownAction(action) = enter \o end
  BY DEF ShownAction
<1> DEFINE none == << >>
<1> HIDE DEF enter, end, none
<1> QED
  BY <1>1, <1>2, <1>3, <1>4, FileConcat DEF none

\* A line for every element of a list.
LEMMA LinesSound ==
  ASSUME NEW cmd, cmd \notin {"environment", "argument"}, NEW list, AList(list)
  PROVE  FileSound(Lines(cmd, list))
<1> DEFINE n == Len(list)
           a == Lines(cmd, list)
<1>1. n \in Nat /\ DOMAIN list = 1 .. n
  BY ListAppended
<1>2. DOMAIN a = 1 .. n /\ a = [k \in 1 .. n |-> a[k]] /\ \A k \in 1 .. n : a[k] = Line(cmd, list[k])
  BY <1>1 DEF Lines
<1> HIDE DEF a, n
<1>3. \A k \in 1 .. n : HasParts(a[k])
  BY <1>2, LineSound
<1>4. FileSound(a)
  BY <1>1, <1>2, <1>3, FileMade
<1> QED
  BY <1>4 DEF a

LEMMA FileFlattened ==
  ASSUME NEW n \in Nat, NEW seqs, DOMAIN seqs = 1 .. n, seqs = [k \in 1 .. n |-> seqs[k]],
         \A k \in 1 .. n : FileSound(seqs[k])
  PROVE  FileSound(FlattenSeq(seqs))
<1>1. \A k \in 1 .. n : AList(seqs[k])
  BY DEF FileSound
<1>2. /\ AList(FlattenSeq(seqs))
      /\ ToSet(FlattenSeq(seqs)) = UNION {ToSet(seqs[k]) : k \in 1 .. n}
  BY <1>1, ListFlattened
<1>3. ASSUME NEW line \in ToSet(FlattenSeq(seqs)) PROVE HasParts(line)
  <2>1. PICK k \in 1 .. n : line \in ToSet(seqs[k])
    BY <1>2
  <2> QED
    BY <2>1 DEF FileSound
<1> QED
  BY <1>2, <1>3 DEF FileSound

LEMMA SceneShownSound ==
  ASSUME NEW name, NEW scene, SceneSound(scene)
  PROVE  FileSound(ShownScene(name, scene))
<1> DEFINE s == scene.actions
           n == Len(s)
           a == <<Line("scene", name), Line(IF scene.enabled THEN "enable" ELSE "no enable", << >>)>>
           b == Lines("source", scene.sources)
           c == Lines("condition", scene.conditions)
           seqs == [i \in DOMAIN s |-> ShownAction(s[i])]
           d == FlattenSeq(seqs)
           e == <<End>>
<1>1. FileSound(a)
  <2> DEFINE p == Line("scene", name)
             q == Line(IF scene.enabled THEN "enable" ELSE "no enable", << >>)
  <2>1. HasParts(p) /\ HasParts(q)
    BY DEF HasParts, Line
  <2> HIDE DEF p, q
  <2>2. DOMAIN <<p, q>> = 1 .. 2 /\ <<p, q>> = [k \in 1 .. 2 |-> <<p, q>>[k]]
        /\ \A k \in 1 .. 2 : HasParts(<<p, q>>[k])
    BY <2>1
  <2>3. FileSound(<<p, q>>)
    BY <2>2, FileMade
  <2> QED
    BY <2>3 DEF p, q
<1>2. FileSound(b) /\ FileSound(c)
  BY LinesSound DEF SceneSound
<1>3. FileSound(d)
  <2>1. AList(s) /\ \A action \in ToSet(s) : ActionSound(action)
    BY DEF SceneSound
  <2> HIDE DEF s
  <2>2. n \in Nat /\ DOMAIN s = 1 .. n
    BY <2>1, ListAppended
  <2> HIDE DEF n
  <2>3. DOMAIN seqs = 1 .. n /\ seqs = [k \in 1 .. n |-> seqs[k]]
        /\ \A k \in 1 .. n : seqs[k] = ShownAction(s[k])
    BY <2>2
  <2> HIDE DEF seqs
  <2>4. \A k \in 1 .. n : ActionSound(s[k])
    BY <2>1, <2>2 DEF ToSet
  <2>5. \A k \in 1 .. n : FileSound(seqs[k])
    BY <2>3, <2>4, ActionShownSound
  <2> QED
    BY <2>2, <2>3, <2>5, FileFlattened
<1>4. FileSound(e)
  <2>1. HasParts(End)
    BY LineSound DEF End
  <2>2. DOMAIN e = 1 .. 1 /\ e = [k \in 1 .. 1 |-> e[k]] /\ e[1] = End
    OBVIOUS
  <2> HIDE DEF e
  <2>3. \A k \in 1 .. 1 : HasParts(e[k])
    BY <2>1, <2>2
  <2> QED
    BY <2>2, <2>3, FileMade
<1>5. ShownScene(name, scene) = a \o b \o c \o d \o e
  BY DEF ShownScene
<1> HIDE DEF a, b, c, d, e
<1>6. FileSound(a \o b)
  BY <1>1, <1>2, FileConcat
<1>7. FileSound(a \o b \o c)
  BY <1>2, <1>6, FileConcat
<1>8. FileSound(a \o b \o c \o d)
  BY <1>3, <1>7, FileConcat
<1> QED
  BY <1>4, <1>5, <1>8, FileConcat

\* What a save writes can be read by a start: its lines have their parts.
LEMMA ShownSound ==
  ASSUME NEW scenes, ScenesSound(scenes)
  PROVE  FileSound(Shown(scenes))
<1> DEFINE D == DOMAIN scenes
           n == Cardinality(D)
           names == SetToSeq(D)
           seqs == [i \in DOMAIN names |-> ShownScene(names[i], scenes[names[i]])]
<1>1. IsFiniteSet(D) /\ \A name \in D : SceneSound(scenes[name])
  BY DEF ScenesSound
<1>2. Shown(scenes) = FlattenSeq(seqs)
  BY DEF Shown
<1> HIDE DEF D
<1>3. n \in Nat /\ names \in [1 .. n -> D]
  BY <1>1, ListOfSet
<1> HIDE DEF n, names
<1>4. DOMAIN seqs = 1 .. n /\ seqs = [k \in 1 .. n |-> seqs[k]]
      /\ \A k \in 1 .. n : seqs[k] = ShownScene(names[k], scenes[names[k]])
  BY <1>3
<1> HIDE DEF seqs
<1>5. \A k \in 1 .. n : FileSound(seqs[k])
  BY <1>1, <1>3, <1>4, SceneShownSound
<1> QED
  BY <1>2, <1>3, <1>4, <1>5, FileFlattened

-----------------------------------------------------------------------------
\* The scenes are sound, and every line of a file has its parts.
CfgInv == MadeSound(cfgMade) /\ FileSound(cfgFile) /\ cfgNode \in [Editors -> Nodes]

LEMMA BlankSound == MadeSound(Blank) /\ [e \in Editors |-> "root"] \in [Editors -> Nodes]
<1> DEFINE e == << >>
<1>1. DOMAIN e = {} /\ e = [n \in DOMAIN e |-> e[n]]
  OBVIOUS
<1>2. IsFiniteSet({})
  BY FS_EmptySet
<1> HIDE DEF e
<1>3. ScenesSound(e)
  BY <1>1, <1>2 DEF ScenesSound
<1>4. Blank = [scenes |-> e, scene |-> NoContext, script |-> NoContext, command |-> NoContext]
  BY DEF Blank, e
<1>5. MadeSound(Blank)
  BY <1>3, <1>4 DEF MadeSound
<1> QED
  BY <1>5 DEF Nodes

LEMMA CfgInitInv == CfgInit => CfgInv
<1> SUFFICES ASSUME CfgInit PROVE CfgInv
  OBVIOUS
<1>1. cfgFile \in StartupFiles
  BY DEF CfgInit
<1>2. FileSound(cfgFile)
  BY <1>1, EditAssumption DEF FileSound, AList
<1>3. PICK n \in Loaded(cfgFile) : cfgMade = n.made
  BY DEF CfgInit
<1>4. MadeSound(cfgMade)
  BY <1>2, <1>3, LoadedSound
<1> QED
  BY <1>2, <1>4, BlankSound DEF CfgInit, CfgInv

\* No line, save, crash or restart leaves scenes that are not sound.
LEMMA CfgStep == CfgInv /\ [CfgNext]_cfgVars => CfgInv'
<1> SUFFICES ASSUME CfgInv, [CfgNext]_cfgVars PROVE CfgInv'
  OBVIOUS
<1>1. ASSUME NEW e \in Editors, NEW line \in EditLines, Types(e, line) PROVE CfgInv'
  <2> DEFINE next == Run(cfgMade, cfgNode[e], line, TRUE)
  <2>1. HasParts(line) /\ cfgNode[e] \in Nodes /\ MadeSound(cfgMade)
    BY EditAssumption DEF CfgInv
  <2>2. UNCHANGED cfgFile
    BY <1>1 DEF Types
  <2>3. CASE next = Crash
    <3>1. Halts
      BY <1>1, <2>3 DEF Types
    <3> QED
      BY <2>2, <3>1, BlankSound DEF Halts, CfgInv
  <2>4. CASE next # Crash
    <3>1. PICK n \in next : cfgMade' = n.made /\ cfgNode' = [cfgNode EXCEPT ![e] = n.node]
      BY <1>1, <2>4 DEF Types
    <3>2. MadeSound(n.made) /\ n.node \in Nodes
      <4>1. ASSUME NEW known \in BOOLEAN, NEW x \in Run(cfgMade, cfgNode[e], line, known)
            PROVE  MadeSound(x.made) /\ x.node \in Nodes
        BY <2>1, RunSound
      <4> QED
        BY <3>1, <4>1
    <3> QED
      BY <2>2, <3>1, <3>2 DEF CfgInv
  <2> QED
    BY <2>3, <2>4
<1>2. ASSUME NEW e \in Editors, TypesPipe(e) PROVE CfgInv'
  BY <1>2 DEF TypesPipe, CfgInv, Nodes
<1>3. ASSUME NEW e \in Editors, Save(e) PROVE CfgInv'
  <2> DEFINE lines == Shown(cfgMade.scenes)
  <2>1. FileSound(lines)
    BY ShownSound DEF CfgInv, MadeSound
  <2> HIDE DEF lines
  <2>2. CASE cfgFile' = lines /\ UNCHANGED <<cfgMade, cfgNode>>
    BY <2>1, <2>2 DEF CfgInv
  <2>3. CASE (\E n \in 0 .. Len(lines) - 1 : cfgFile' = SubSeq(lines, 1, n)) /\ Halts
    <3>1. PICK n \in 0 .. Len(lines) - 1 : cfgFile' = SubSeq(lines, 1, n)
      BY <2>3
    <3> DEFINE cut == SubSeq(lines, 1, n)
    <3>2. FileSound(cut)
      <4>1. Len(lines) \in Nat /\ DOMAIN lines = 1 .. Len(lines) /\ n \in Nat
        BY <2>1, ListAppended DEF FileSound
      <4>2. cut = [k \in 1 .. n |-> lines[k]]
        BY <4>1
      <4> HIDE DEF cut
      <4>3. DOMAIN cut = 1 .. n /\ cut = [k \in 1 .. n |-> cut[k]] /\ \A k \in 1 .. n : cut[k] = lines[k]
        BY <4>2
      <4>4. \A k \in 1 .. n : HasParts(cut[k])
        <5>1. \A k \in 1 .. n : k \in DOMAIN lines
          BY <4>1
        <5> QED
          BY <2>1, <4>3, <5>1 DEF FileSound, ToSet
      <4> QED
        BY <4>1, <4>3, <4>4, FileMade
    <3> HIDE DEF cut
    <3> QED
      BY <2>3, <3>1, <3>2, BlankSound DEF Halts, CfgInv, cut
  <2> QED
    BY <1>3, <2>2, <2>3 DEF Save, lines
<1>4. ASSUME Ended PROVE CfgInv'
  BY <1>4, BlankSound DEF Ended, Halts, CfgInv
<1>5. ASSUME Restart PROVE CfgInv'
  <2>1. PICK n \in Loaded(cfgFile) : cfgMade' = n.made
    BY <1>5 DEF Restart
  <2>2. MadeSound(n.made)
    BY <2>1, LoadedSound DEF CfgInv
  <2> QED
    BY <1>5, <2>1, <2>2, BlankSound DEF Restart, CfgInv
<1>6. CASE UNCHANGED cfgVars
  BY <1>6 DEF cfgVars, CfgInv
<1> QED
  BY <1>1, <1>2, <1>3, <1>4, <1>5, <1>6 DEF CfgNext

-----------------------------------------------------------------------------
\* A start that comes, by each line of a list, from one state to one other.
Goes(a, line, b) == Run(a.made, a.node, line, OneWord(line)) = {b}

Walk(a, lines, b) ==
  \E st : /\ st[0] = a /\ st[Len(lines)] = b
          /\ \A k \in 1 .. Len(lines) : Goes(st[k - 1], lines[k], st[k])

LEMMA WalkEmpty == ASSUME NEW a PROVE Walk(a, << >>, a)
<1> DEFINE st == [k \in {0} |-> a]
<1>1. st[0] = a
  OBVIOUS
<1> HIDE DEF st
<1> QED
  BY <1>1, EmptyAList DEF Walk

\* A walk along one line is what that line does.
LEMMA WalkOne ==
  ASSUME NEW a, NEW line, NEW b, Goes(a, line, b)
  PROVE  Walk(a, <<line>>, b)
<1> DEFINE st == [k \in {0, 1} |-> IF k = 0 THEN a ELSE b]
           lines == <<line>>
<1>1. st[0] = a /\ st[1] = b /\ Len(lines) = 1 /\ lines[1] = line
  OBVIOUS
<1> HIDE DEF st, lines
<1>2. \A k \in 1 .. Len(lines) : Goes(st[k - 1], lines[k], st[k])
  <2>1. \A k \in 1 .. Len(lines) : k = 1 /\ k - 1 = 0
    BY <1>1
  <2> QED
    BY <1>1, <2>1
<1>3. Walk(a, lines, b)
  BY <1>1, <1>2 DEF Walk
<1> QED
  BY <1>3 DEF lines

\* A walk along two lists, one after the other.
LEMMA WalkConcat ==
  ASSUME NEW s, AList(s), NEW t, AList(t), NEW a, NEW b, NEW c, Walk(a, s, b), Walk(b, t, c)
  PROVE  Walk(a, s \o t, c)
<1> DEFINE m == Len(s)
           n == Len(t)
           u == s \o t
           S == ToSet(s) \cup ToSet(t)
<1>1. m \in Nat /\ n \in Nat /\ DOMAIN s = 1 .. m /\ DOMAIN t = 1 .. n
  BY ListAppended
<1>2. Len(u) = m + n /\ \A k \in 1 .. m + n : u[k] = IF k <= m THEN s[k] ELSE t[k - m]
  <2>1. s \in Seq(ToSet(s)) /\ t \in Seq(ToSet(t))
    BY DEF AList
  <2> DEFINE A == ToSet(s)
             B == ToSet(t)
  <2>2. A \subseteq S /\ B \subseteq S
    OBVIOUS
  <2> HIDE DEF A, B, S
  <2>3. s \in Seq(S) /\ t \in Seq(S)
    BY <2>1, <2>2, SeqMonotonic DEF A, B
  <2> QED
    BY <2>3, ConcatProperties
<1> HIDE DEF u, S
<1>3. PICK st : st[0] = a /\ st[m] = b /\ \A k \in 1 .. m : Goes(st[k - 1], s[k], st[k])
  BY DEF Walk
<1>4. PICK tt : tt[0] = b /\ tt[n] = c /\ \A k \in 1 .. n : Goes(tt[k - 1], t[k], tt[k])
  BY DEF Walk
<1> HIDE DEF m, n
<1> DEFINE ut == [k \in 0 .. m + n |-> IF k <= m THEN st[k] ELSE tt[k - m]]
<1>5. ut[0] = a /\ ut[m + n] = c
  <2>1. 0 \in 0 .. m + n /\ m + n \in 0 .. m + n /\ 0 <= m /\ (m + n <= m => n = 0) /\ m + n - m = n
    BY <1>1
  <2>2. n = 0 => ut[m + n] = c
    <3> SUFFICES ASSUME n = 0 PROVE ut[m + n] = c
      OBVIOUS
    <3>1. m + n = m
      BY <1>1
    <3> QED
      BY <1>1, <1>3, <1>4, <3>1, <2>1
  <2>3. n # 0 => ut[m + n] = tt[n]
    <3> SUFFICES ASSUME n # 0 PROVE ut[m + n] = tt[n]
      OBVIOUS
    <3>1. ~(m + n <= m) /\ m + n \in 0 .. m + n /\ (m + n) - m = n
      BY <1>1
    <3>2. ut[m + n] = tt[(m + n) - m]
      BY <3>1
    <3> HIDE DEF ut
    <3> QED
      BY <3>1, <3>2
  <2>4. ut[0] = st[0]
    BY <2>1
  <2> HIDE DEF ut
  <2> QED
    BY <1>3, <1>4, <2>2, <2>3, <2>4
<1>6. ASSUME NEW k \in 1 .. m + n PROVE Goes(ut[k - 1], u[k], ut[k])
  <2>1. k \in 0 .. m + n /\ k - 1 \in 0 .. m + n
    BY <1>1
  <2>2. CASE k <= m
    <3>1. k \in 1 .. m /\ k - 1 <= m
      BY <1>1, <2>2
    <3>2. ut[k - 1] = st[k - 1] /\ ut[k] = st[k] /\ u[k] = s[k]
      BY <1>2, <2>1, <2>2, <3>1
    <3> HIDE DEF ut
    <3> QED
      BY <1>3, <3>1, <3>2
  <2>3. CASE k = m + 1
    <3>1. k - m = 1 /\ k - 1 = m /\ ~(k <= m) /\ 1 \in 1 .. n /\ m <= m /\ 1 - 1 = 0
      BY <1>1, <2>3
    <3>2. ut[k - 1] = st[m] /\ ut[k] = tt[1] /\ u[k] = t[1]
      BY <1>2, <2>1, <3>1
    <3>3. Goes(tt[0], t[1], tt[1])
      BY <1>4, <3>1
    <3> HIDE DEF ut
    <3> QED
      BY <1>3, <1>4, <3>2, <3>3
  <2>4. CASE k > m + 1
    <3>1. k - m \in 1 .. n /\ ~(k <= m) /\ ~(k - 1 <= m) /\ (k - 1) - m = (k - m) - 1
      BY <1>1, <2>4
    <3>2. ut[k - 1] = tt[(k - m) - 1] /\ ut[k] = tt[k - m] /\ u[k] = t[k - m]
      BY <1>2, <2>1, <3>1
    <3> HIDE DEF ut
    <3> QED
      BY <1>4, <3>1, <3>2
  <2> QED
    BY <1>1, <2>2, <2>3, <2>4
<1> HIDE DEF ut
<1>7. Walk(a, u, c)
  BY <1>2, <1>5, <1>6 DEF Walk
<1> QED
  BY <1>7 DEF u

\* A walk along lists, from one state between them to the next.
LEMMA WalkFlattened ==
  ASSUME NEW n \in Nat, NEW seqs, DOMAIN seqs = 1 .. n, seqs = [k \in 1 .. n |-> seqs[k]],
         \A k \in 1 .. n : AList(seqs[k]),
         NEW c, \A k \in 1 .. n : Walk(c[k - 1], seqs[k], c[k])
  PROVE  Walk(c[0], FlattenSeq(seqs), c[n])
<1>0. PICK put : Together(put, seqs, n)
  BY ListFlattened
<1>1. /\ put[0] = << >> /\ put[n] = FlattenSeq(seqs)
      /\ \A k \in 1 .. n : put[k] = put[k - 1] \o seqs[k]
      /\ \A k \in 0 .. n : AList(put[k])
  BY <1>0 DEF Together
<1> DEFINE P == {k \in Nat : Walk(c[0], put[k], c[k])}
<1>2. 0 \in P
  BY <1>1, WalkEmpty
<1>3. ASSUME NEW k \in 1 .. n, k - 1 \in P PROVE k \in P
  <2>1. k - 1 \in 0 .. n /\ k \in Nat
    OBVIOUS
  <2>2. Walk(c[0], put[k - 1], c[k - 1]) /\ Walk(c[k - 1], seqs[k], c[k])
        /\ AList(put[k - 1]) /\ AList(seqs[k])
    BY <1>1, <1>3, <2>1
  <2>3. Walk(c[0], put[k - 1] \o seqs[k], c[k])
    BY <2>2, WalkConcat
  <2> QED
    BY <1>1, <2>1, <2>3
<1>4. n \in P
  <2> HIDE DEF P
  <2>1. \A k \in 0 .. n : k \in P
    BY <1>2, <1>3, Induction
  <2> QED
    BY <2>1
<1> QED
  BY <1>1, <1>4

\* What a start makes of lines that lead it from state to state.
LEMMA WalkLoads ==
  ASSUME NEW lines, AList(lines), NEW a, Leads(Blank, "root") = {a}, NEW b, Walk(a, lines, b)
  PROVE  Loaded(lines) = {b}
<1> DEFINE L == Len(lines)
<1>1. L \in Nat
  BY ListAppended
<1>2. PICK at : Steps(at, lines, L) /\ Loaded(lines) = at[L]
  BY <1>1, LoadedIs
<1>3. PICK st : st[0] = a /\ st[L] = b /\ \A k \in 1 .. L : Goes(st[k - 1], lines[k], st[k])
  BY DEF Walk
<1> HIDE DEF L
<1> DEFINE P == {k \in Nat : at[k] = {st[k]}}
<1>4. 0 \in P
  <2>1. 0 \in 0 .. L
    BY <1>1
  <2> QED
    BY <1>2, <1>3, <2>1 DEF Steps
<1>5. ASSUME NEW k \in 1 .. L, k - 1 \in P PROVE k \in P
  <2>1. k \in 0 .. L /\ k # 0 /\ k \in Nat
    BY <1>1
  <2>2. at[k] = After(lines[k], at[k - 1])
    BY <1>2, <2>1 DEF Steps
  <2>3. at[k - 1] = {st[k - 1]}
    BY <1>5
  <2>4. Run(st[k - 1].made, st[k - 1].node, lines[k], OneWord(lines[k])) = {st[k]}
    BY <1>3 DEF Goes
  <2>5. After(lines[k], {st[k - 1]}) = Run(st[k - 1].made, st[k - 1].node, lines[k], OneWord(lines[k]))
    BY DEF After
  <2> QED
    BY <2>1, <2>2, <2>3, <2>4, <2>5
<1>6. L \in P
  <2> HIDE DEF P
  <2>1. \A k \in 0 .. L : k \in P
    BY <1>1, <1>4, <1>5, Induction
  <2> QED
    BY <1>1, <2>1
<1> QED
  BY <1>2, <1>3, <1>6

-----------------------------------------------------------------------------
\* The first elements of a list.
Prefix(s, k) == [i \in 1 .. k |-> s[i]]

LEMMA PrefixIs ==
  ASSUME NEW s, AList(s)
  PROVE  /\ Prefix(s, 0) = << >> /\ Prefix(s, Len(s)) = s
         /\ \A k \in 0 .. Len(s) : AList(Prefix(s, k)) /\ Len(Prefix(s, k)) = k
         /\ \A k \in 1 .. Len(s) : Append(Prefix(s, k - 1), s[k]) = Prefix(s, k)
<1> DEFINE n == Len(s)
           S == ToSet(s)
<1>1. s \in Seq(S)
  BY DEF AList
<1> HIDE DEF S
<1>2. n \in Nat /\ DOMAIN s = 1 .. n /\ s = [i \in 1 .. n |-> s[i]]
  BY <1>1, LenProperties
<1>3. Prefix(s, n) = s
  BY <1>2 DEF Prefix
<1>4. ASSUME NEW k \in 0 .. n PROVE AList(Prefix(s, k)) /\ Len(Prefix(s, k)) = k
  <2> DEFINE p == Prefix(s, k)
  <2>1. k \in Nat /\ DOMAIN p = 1 .. k /\ p = [i \in 1 .. k |-> p[i]]
    BY <1>2 DEF Prefix
  <2> HIDE DEF p
  <2>2. AList(p) /\ Len(p) = k
    BY <2>1, ListMade
  <2> QED
    BY <2>2 DEF p
<1>5. Prefix(s, 0) = << >>
  <2> DEFINE p == Prefix(s, 0)
  <2>1. AList(p) /\ Len(p) = 0
    BY <1>2, <1>4
  <2> HIDE DEF p
  <2>2. p = << >>
    <3> DEFINE T == ToSet(p)
    <3>1. p \in Seq(T)
      BY <2>1 DEF AList
    <3> HIDE DEF T
    <3> QED
      BY <2>1, <3>1, EmptySeq
  <2> QED
    BY <2>2 DEF p
<1>6. ASSUME NEW k \in 1 .. n PROVE Append(Prefix(s, k - 1), s[k]) = Prefix(s, k)
  <2> DEFINE p == Prefix(s, k - 1)
             q == Prefix(s, k)
             t == Append(p, s[k])
  <2>1. k - 1 \in 0 .. n /\ k \in 0 .. n /\ (k - 1) + 1 = k
    BY <1>2
  <2>2. AList(p) /\ Len(p) = k - 1
    BY <1>4, <2>1
  <2>3. \A i \in 1 .. k - 1 : p[i] = s[i]
    BY DEF Prefix
  <2>4. DOMAIN q = 1 .. k /\ q = [i \in 1 .. k |-> s[i]]
    BY DEF Prefix
  <2> HIDE DEF p, q
  <2>5. /\ AList(t) /\ DOMAIN t = 1 .. k /\ t[k] = s[k] /\ \A i \in 1 .. k - 1 : t[i] = p[i]
    BY <2>1, <2>2, ListAppended
  <2> HIDE DEF t
  <2>6. t = [i \in 1 .. k |-> t[i]]
    <3> DEFINE T == ToSet(t)
    <3>1. t \in Seq(T)
      BY <2>5 DEF AList
    <3> HIDE DEF T
    <3>2. t = [i \in 1 .. Len(t) |-> t[i]] /\ 1 .. Len(t) = 1 .. k
      BY <2>5, <3>1, LenProperties
    <3> QED
      BY <3>2
  <2>7. \A i \in 1 .. k : t[i] = s[i]
    <3>1. \A i \in 1 .. k : i = k \/ i \in 1 .. k - 1
      BY <1>2
    <3> QED
      BY <2>3, <2>5, <3>1
  <2>8. t = q
    BY <2>4, <2>6, <2>7
  <2> QED
    BY <2>8 DEF t, p, q
<1> QED
  BY <1>3, <1>4, <1>5, <1>6

-----------------------------------------------------------------------------
\* The states of a start while it reads a scene: the scenes it has read, and the scene as
\* far as it has been read.
With(rest, name, scene) ==
  [n \in DOMAIN rest \cup {name} |-> IF n = name THEN scene ELSE rest[n]]

Made(rest, name, scene, script, command) ==
  [scenes |-> With(rest, name, scene), scene |-> name, script |-> script, command |-> command]

StandsAt(rest, name, scene, script, command, node) ==
  [made |-> Made(rest, name, scene, script, command), node |-> node]

InScene(rest, name, scene) == StandsAt(rest, name, scene, NoContext, NoContext, "scene")

InAction(rest, name, scene, type, path) ==
  StandsAt(rest, name, scene, IF type = "script" THEN path ELSE NoContext,
     IF type = "script" THEN NoContext ELSE path, type)

AtRoot(scenes) ==
  [made |-> [scenes |-> scenes, scene |-> NoContext, script |-> NoContext, command |-> NoContext],
   node |-> "root"]

LEMMA HereIs ==
  ASSUME NEW rest, NEW name, NEW scene, NEW script, NEW command
  PROVE  Here(Made(rest, name, scene, script, command)) = scene
  BY DEF Here, Made, With

LEMMA OnSceneIs ==
  ASSUME NEW rest, NEW name, NEW scene, NEW script, NEW command, NEW node, NEW changed
  PROVE  OnScene(Made(rest, name, scene, script, command), node, changed)
           = {StandsAt(rest, name, changed, script, command, node)}
<1> DEFINE made == Made(rest, name, scene, script, command)
<1>1. /\ made.scenes = With(rest, name, scene) /\ made.scene = name
      /\ made.script = script /\ made.command = command
      /\ made = [scenes |-> made.scenes, scene |-> made.scene, script |-> made.script,
                 command |-> made.command]
  BY DEF Made
<1>2. name \in DOMAIN With(rest, name, scene)
  BY DEF With
<1>3. [With(rest, name, scene) EXCEPT ![name] = changed] = With(rest, name, changed)
  BY DEF With
<1> HIDE DEF made
<1>4. [made EXCEPT !.scenes[made.scene] = changed] = Made(rest, name, changed, script, command)
  BY <1>1, <1>3 DEF Made
<1>5. made.scene \in DOMAIN made.scenes
  BY <1>1, <1>2
<1>6. OnScene(made, node, changed) = {StandsAt(rest, name, changed, script, command, node)}
  BY <1>4, <1>5 DEF OnScene, Leads, StandsAt
<1> QED
  BY <1>6 DEF made

\* The lines of the command line's nodes, as what they do to a start that reads scenes.
LEMMA GoesToScene ==
  ASSUME NEW rest, NEW name, name \notin DOMAIN rest
  PROVE  Goes(AtRoot(rest), Line("scene", name), InScene(rest, name, NewScene))
<1> DEFINE line == Line("scene", name)
           made == AtRoot(rest).made
           here == [made EXCEPT !.scene = name]
           scenes == With(rest, name, NewScene)
<1>1. line.cmd = "scene" /\ line.args = name /\ OneWord(line)
  BY DEF Line, OneWord
<1>2. AtRoot(rest).node = "root" /\ made.scenes = rest
      /\ made = [scenes |-> rest, scene |-> NoContext, script |-> NoContext, command |-> NoContext]
  BY DEF AtRoot
<1>3. here = [scenes |-> rest, scene |-> name, script |-> NoContext, command |-> NoContext]
  BY <1>2
<1> HIDE DEF line, made
<1>4. EnterScene(made, name) = {[made |-> [here EXCEPT !.scenes = scenes], node |-> "scene"]}
  <2>1. name \notin DOMAIN made.scenes
    BY <1>2
  <2>2. here.scenes = rest
    BY <1>3
  <2> QED
    BY <2>1, <2>2 DEF EnterScene, Leads, With
<1>5. [here EXCEPT !.scenes = scenes] = Made(rest, name, NewScene, NoContext, NoContext)
  <2> HIDE DEF here, scenes
  <2> QED
    BY <1>3 DEF Made, scenes
<1>6. Run(made, "root", line, OneWord(line)) = EnterScene(made, name)
  BY <1>1 DEF Run, CommandsOf
<1> QED
  BY <1>2, <1>4, <1>5, <1>6 DEF Goes, InScene, StandsAt, line, made

LEMMA InSceneIs ==
  ASSUME NEW rest, NEW name, NEW scene, NEW changed
  PROVE  OnScene(Made(rest, name, scene, NoContext, NoContext), "scene", changed)
           = {InScene(rest, name, changed)}
<1> DEFINE none == NoContext
           node == "scene"
<1> HIDE DEF none, node
<1>1. OnScene(Made(rest, name, scene, none, none), node, changed)
        = {StandsAt(rest, name, changed, none, none, node)}
  BY OnSceneIs
<1> QED
  BY <1>1 DEF InScene, none, node

\* A command of the scene that the start reads.
LEMMA GoesOnScene ==
  ASSUME NEW rest, NEW name, NEW scene, NEW cmd, cmd \in CommandsOf("scene"),
         cmd \notin {"action script", "action command"}, NEW args,
         cmd = "source" => Len(args) = 1, NEW changed,
         SceneCommand(Made(rest, name, scene, NoContext, NoContext), Line(cmd, args))
           = {InScene(rest, name, changed)}
  PROVE  Goes(InScene(rest, name, scene), Line(cmd, args), InScene(rest, name, changed))
<1> DEFINE line == Line(cmd, args)
           made == Made(rest, name, scene, NoContext, NoContext)
<1>1. line.cmd = cmd /\ line.args = args /\ OneWord(line)
  BY DEF Line, OneWord
<1>2. InScene(rest, name, scene).made = made /\ InScene(rest, name, scene).node = "scene"
  BY DEF InScene, StandsAt
<1> HIDE DEF line, made
<1>3. Run(made, "scene", line, OneWord(line)) = SceneCommand(made, line)
  <2>1. cmd \notin {"end", "scene", "no scene", "environment", "argument", "no environment", "no argument"}
    BY DEF CommandsOf
  <2> QED
    BY <1>1, <2>1 DEF Run
<1> QED
  BY <1>2, <1>3 DEF Goes, line, made

LEMMA GoesToSwitch ==
  ASSUME NEW rest, NEW name, NEW scene, NEW on \in BOOLEAN
  PROVE  Goes(InScene(rest, name, scene), Line(IF on THEN "enable" ELSE "no enable", << >>),
              InScene(rest, name, [scene EXCEPT !.enabled = on]))
<1> DEFINE made == Made(rest, name, scene, NoContext, NoContext)
           none == << >>
<1>1. Here(made) = scene
  BY HereIs
<1> HIDE DEF made, none
<1>2. CASE on = TRUE
  <2> DEFINE line == Line("enable", none)
             changed == [scene EXCEPT !.enabled = TRUE]
  <2>1. SceneCommand(made, line) = OnScene(made, "scene", changed)
    BY <1>1 DEF SceneCommand, Line
  <2> HIDE DEF changed
  <2>2. Goes(InScene(rest, name, scene), line, InScene(rest, name, changed))
    <3>1. "enable" \in CommandsOf("scene")
      BY DEF CommandsOf
    <3> QED
      BY <2>1, <3>1, InSceneIs, GoesOnScene DEF made
  <2> QED
    BY <1>2, <2>2 DEF changed, none
<1>3. CASE on = FALSE
  <2> DEFINE line == Line("no enable", none)
             changed == [scene EXCEPT !.enabled = FALSE]
  <2>1. SceneCommand(made, line) = OnScene(made, "scene", changed)
    BY <1>1 DEF SceneCommand, Line
  <2> HIDE DEF changed
  <2>2. Goes(InScene(rest, name, scene), line, InScene(rest, name, changed))
    <3>1. "no enable" \in CommandsOf("scene")
      BY DEF CommandsOf
    <3> QED
      BY <2>1, <3>1, InSceneIs, GoesOnScene DEF made
  <2> QED
    BY <1>3, <2>2 DEF changed, none
<1> QED
  BY <1>2, <1>3

LEMMA GoesToSource ==
  ASSUME NEW rest, NEW name, NEW scene, NEW x, Len(x) = 1, ~Contains(scene.sources, x)
  PROVE  Goes(InScene(rest, name, scene), Line("source", x),
              InScene(rest, name, [scene EXCEPT !.sources = Append(@, x)]))
<1> DEFINE made == Made(rest, name, scene, NoContext, NoContext)
           changed == [scene EXCEPT !.sources = Append(@, x)]
           line == Line("source", x)
<1>1. Here(made) = scene
  BY HereIs
<1> HIDE DEF made
<1>2. SceneCommand(made, line) = OnScene(made, "scene", [scene EXCEPT !.sources = WithSource(@, x)])
  BY <1>1 DEF SceneCommand, Line
<1>3. [scene EXCEPT !.sources = WithSource(@, x)] = changed
  BY DEF WithSource
<1> HIDE DEF changed
<1>4. "source" \in CommandsOf("scene")
  BY DEF CommandsOf
<1>5. Goes(InScene(rest, name, scene), line, InScene(rest, name, changed))
  BY <1>2, <1>3, <1>4, InSceneIs, GoesOnScene DEF made
<1> QED
  BY <1>5 DEF changed

LEMMA GoesToCondition ==
  ASSUME NEW rest, NEW name, NEW scene, NEW x
  PROVE  Goes(InScene(rest, name, scene), Line("condition", x),
              InScene(rest, name, [scene EXCEPT !.conditions = Append(@, x)]))
<1> DEFINE made == Made(rest, name, scene, NoContext, NoContext)
           changed == [scene EXCEPT !.conditions = Append(@, x)]
           line == Line("condition", x)
<1>1. Here(made) = scene
  BY HereIs
<1> HIDE DEF made
<1>2. SceneCommand(made, line) = OnScene(made, "scene", changed)
  BY <1>1 DEF SceneCommand, Line
<1> HIDE DEF changed
<1>4. "condition" \in CommandsOf("scene")
  BY DEF CommandsOf
<1>5. Goes(InScene(rest, name, scene), line, InScene(rest, name, changed))
  BY <1>2, <1>4, InSceneIs, GoesOnScene DEF made
<1> QED
  BY <1>5 DEF changed

\* The scene with one action more.
Longer(scene, action) == [scene EXCEPT !.actions = Append(@, action)]
FreshPath(scene, path) == \A i \in DOMAIN scene.actions : scene.actions[i].path # path
Action(type, path, entries) == [type |-> type, path |-> path, entries |-> entries]

LEMMA GoesToPlainAction ==
  ASSUME NEW rest, NEW name, NEW scene, NEW type \in {"scene", "enable", "disable"}, NEW path,
         FreshPath(scene, path)
  PROVE  Goes(InScene(rest, name, scene), Line(ActionCommands[type], path),
              InScene(rest, name, Longer(scene, Action(type, path, << >>))))
<1> DEFINE made == Made(rest, name, scene, NoContext, NoContext)
           changed == Longer(scene, Action(type, path, << >>))
           cmd == ActionCommands[type]
           line == Line(cmd, path)
<1>1. Here(made) = scene
  BY HereIs
<1>2. /\ type = "scene" => cmd = "action scene"
      /\ type = "enable" => cmd = "action enable"
      /\ type = "disable" => cmd = "action disable"
  BY ActionCommandIs DEF ActionTypes
<1>3. WithAction(scene, type, path) = changed
  BY DEF WithAction, FreshPath, Longer, Action
<1> HIDE DEF made, changed, cmd
<1>4. SceneCommand(made, line) = OnScene(made, "scene", changed)
  <2>1. CASE type = "scene"
    BY <1>1, <1>2, <1>3, <2>1 DEF SceneCommand, Line
  <2>2. CASE type = "enable"
    BY <1>1, <1>2, <1>3, <2>2 DEF SceneCommand, Line
  <2>3. CASE type = "disable"
    BY <1>1, <1>2, <1>3, <2>3 DEF SceneCommand, Line
  <2> QED
    BY <2>1, <2>2, <2>3
<1>5. cmd \in CommandsOf("scene") /\ cmd \notin {"action script", "action command", "source"}
  BY <1>2 DEF CommandsOf
<1>6. Goes(InScene(rest, name, scene), line, InScene(rest, name, changed))
  BY <1>4, <1>5, InSceneIs, GoesOnScene DEF made
<1> QED
  BY <1>6 DEF changed, cmd

\* The commands that enter an action, and those that make its entries.
LEMMA GoesToAction ==
  ASSUME NEW rest, NEW name, NEW scene, NEW type \in {"script", "command"}, NEW path,
         FreshPath(scene, path), type = "script" => Len(path) = 1
  PROVE  Goes(InScene(rest, name, scene), Line(ActionCommands[type], path),
              InAction(rest, name, Longer(scene, Action(type, path, << >>)), type, path))
<1> DEFINE none == NoContext
           made == Made(rest, name, scene, none, none)
           there == [made EXCEPT ![type] = path]
           changed == Longer(scene, Action(type, path, << >>))
           cmd == ActionCommands[type]
           line == Line(cmd, path)
           u == IF type = "script" THEN path ELSE none
           v == IF type = "script" THEN none ELSE path
<1>1. Here(made) = scene
  BY HereIs
<1>2. /\ type = "script" => cmd = "action script"
      /\ type = "command" => cmd = "action command"
  BY ActionCommandIs DEF ActionTypes
<1>3. WithAction(scene, type, path) = changed
  BY DEF WithAction, FreshPath, Longer, Action
<1>4. there = Made(rest, name, scene, u, v)
  <2> HIDE DEF none
  <2>1. CASE type = "script"
    <3>1. there = [made EXCEPT !.script = path]
      BY <2>1
    <3>2. there = Made(rest, name, scene, path, none)
      BY <3>1 DEF Made
    <3> HIDE DEF there
    <3> QED
      BY <2>1, <3>2
  <2>2. CASE type = "command"
    <3>1. there = [made EXCEPT !.command = path]
      BY <2>2
    <3>2. there = Made(rest, name, scene, none, path)
      BY <3>1 DEF Made
    <3> HIDE DEF there
    <3> QED
      BY <2>2, <3>2
  <2> QED
    BY <2>1, <2>2
<1> HIDE DEF none, made, changed, cmd, u, v
<1>5. SceneCommand(made, line) = EnterAction(made, type, path)
  <2>1. CASE type = "script"
    BY <1>2, <2>1 DEF SceneCommand, Line
  <2>2. CASE type = "command"
    BY <1>2, <2>2 DEF SceneCommand, Line
  <2> QED
    BY <2>1, <2>2
<1>6. EnterAction(made, type, path) = {StandsAt(rest, name, changed, u, v, type)}
  <2>1. EnterAction(made, type, path) = OnScene(there, type, changed)
    BY <1>1, <1>3 DEF EnterAction
  <2>2. OnScene(Made(rest, name, scene, u, v), type, changed) = {StandsAt(rest, name, changed, u, v, type)}
    BY OnSceneIs
  <2> HIDE DEF there
  <2> QED
    BY <1>4, <2>1, <2>2
<1>7. Run(made, "scene", line, OneWord(line)) = SceneCommand(made, line)
  <2>1. line.cmd = cmd /\ OneWord(line)
    BY <1>2 DEF Line, OneWord
  <2>2. cmd \in CommandsOf("scene") /\ cmd \notin {"end", "scene", "no scene", "environment",
                                                 "argument", "no environment", "no argument"}
    BY <1>2 DEF CommandsOf
  <2> HIDE DEF line
  <2> QED
    BY <2>1, <2>2 DEF Run
<1>8. InScene(rest, name, scene).made = made /\ InScene(rest, name, scene).node = "scene"
  BY DEF InScene, StandsAt, made, none
<1>9. InAction(rest, name, changed, type, path) = StandsAt(rest, name, changed, u, v, type)
  BY DEF InAction, u, v, none
<1> QED
  BY <1>5, <1>6, <1>7, <1>8, <1>9 DEF Goes, changed, cmd

\* The ! after an action leads back to its scene, and the one after a scene to the root.
LEMMA GoesFromAction ==
  ASSUME NEW rest, NEW name, NEW scene, NEW type \in {"script", "command"}, NEW path
  PROVE  Goes(InAction(rest, name, scene, type, path), End, InScene(rest, name, scene))
<1>1. End.cmd = "end"
  BY DEF End, Line
<1>2. CASE type = "script"
  BY <1>1, <1>2 DEF Goes, Run, Ends, Leads, InAction, InScene, StandsAt, Made
<1>3. CASE type = "command"
  BY <1>1, <1>3 DEF Goes, Run, Ends, Leads, InAction, InScene, StandsAt, Made
<1> QED
  BY <1>2, <1>3

LEMMA GoesFromScene ==
  ASSUME NEW rest, NEW name, NEW scene
  PROVE  Goes(InScene(rest, name, scene), End, AtRoot(With(rest, name, scene)))
<1>1. End.cmd = "end"
  BY DEF End, Line
<1> QED
  BY <1>1 DEF Goes, Run, Ends, Leads, InScene, StandsAt, Made, AtRoot

\* A list is known by its elements.
LEMMA ListsEqual ==
  ASSUME NEW s, AList(s), NEW t, AList(t), Len(s) = Len(t), \A k \in 1 .. Len(s) : s[k] = t[k]
  PROVE  s = t
<1> DEFINE S == ToSet(s)
           T == ToSet(t)
           n == Len(s)
<1>1. s \in Seq(S) /\ t \in Seq(T)
  BY DEF AList
<1> HIDE DEF S, T
<1>2. s = [k \in 1 .. n |-> s[k]] /\ t = [k \in 1 .. Len(t) |-> t[k]]
  BY <1>1, LenProperties
<1>3. t = [k \in 1 .. n |-> t[k]]
  BY <1>2
<1>4. \A k \in 1 .. n : s[k] = t[k]
  OBVIOUS
<1> HIDE DEF n
<1> QED
  BY <1>2, <1>3, <1>4

IsScene(scene) ==
  /\ scene = [enabled |-> scene.enabled, sources |-> scene.sources,
              conditions |-> scene.conditions, actions |-> scene.actions]
  /\ AList(scene.actions)

EntryCommand(type) == IF type = "script" THEN "environment" ELSE "argument"

\* An entry that takes none of its name away comes to the end of its action.
LEMMA GoesToEntry ==
  ASSUME NEW rest, NEW name, NEW old, IsScene(old), NEW type \in {"script", "command"}, NEW path,
         FreshPath(old, path), NEW list, AList(list), NEW entry,
         \A j \in DOMAIN list : ~SameEntry(type, list[j], entry)
  PROVE  Goes(InAction(rest, name, Longer(old, Action(type, path, list)), type, path),
              Line(EntryCommand(type), entry),
              InAction(rest, name, Longer(old, Action(type, path, Append(list, entry))), type, path))
<1> DEFINE scene == Longer(old, Action(type, path, list))
           next == Longer(old, Action(type, path, Append(list, entry)))
           u == IF type = "script" THEN path ELSE NoContext
           v == IF type = "script" THEN NoContext ELSE path
           made == Made(rest, name, scene, u, v)
           line == Line(EntryCommand(type), entry)
           n == Len(old.actions)
           add == <<entry>>
           Changed(action) ==
             IF action.path # made[type] THEN action
             ELSE [action EXCEPT !.entries = Entries(type, @, entry, add)]
           s == scene.actions
           a == [i \in DOMAIN s |-> Changed(s[i])]
           changed == [scene EXCEPT !.actions = a]
<1>1. Here(made) = scene /\ made.scene \in DOMAIN made.scenes
  <2>1. made.scene = name /\ made.scenes = With(rest, name, scene)
    BY DEF Made
  <2> HIDE DEF made
  <2>2. made.scene \in DOMAIN made.scenes
    BY <2>1 DEF With
  <2> QED
    BY <2>2, HereIs DEF made
<1>2. made[type] = path
  <2>1. made.script = u /\ made.command = v
    BY DEF Made
  <2> HIDE DEF made
  <2>2. CASE type = "script"
    BY <2>1, <2>2
  <2>3. CASE type = "command"
    BY <2>1, <2>3
  <2> QED
    BY <2>2, <2>3
<1>3. s = Append(old.actions, Action(type, path, list))
      /\ next.actions = Append(old.actions, Action(type, path, Append(list, entry)))
  BY DEF IsScene, Longer
<1>4. Entries(type, list, entry, add) = Append(list, entry)
  <2> DEFINE hits == {i \in DOMAIN list : SameEntry(type, list[i], entry)}
  <2>1. hits = {}
    OBVIOUS
  <2> HIDE DEF hits
  <2>2. WithoutFirst(list, hits) = list
    BY <2>1 DEF WithoutFirst
  <2>3. list \o add = Append(list, entry)
    <3> DEFINE S == ToSet(list) \cup {entry}
               T == ToSet(list)
    <3>1. T \subseteq S /\ entry \in S
      OBVIOUS
    <3>2. list \in Seq(T)
      BY DEF AList
    <3> HIDE DEF S, T
    <3>3. list \in Seq(S)
      BY <3>1, <3>2, SeqMonotonic
    <3> QED
      BY <3>1, <3>3, AppendIsConcat
  <2> QED
    BY <2>2, <2>3 DEF Entries, hits
<1>5. Changed(Action(type, path, list)) = Action(type, path, Append(list, entry))
  <2> HIDE DEF made
  <2>1. Action(type, path, list).path = path
        /\ Action(type, path, list).entries = list
    BY DEF Action
  <2>2. [Action(type, path, list) EXCEPT !.entries = Append(list, entry)]
          = Action(type, path, Append(list, entry))
    BY DEF Action
  <2> QED
    BY <1>2, <1>4, <2>1, <2>2
<1>6. a = next.actions
  <2> DEFINE f == old.actions
             x == Action(type, path, list)
             y == Action(type, path, Append(list, entry))
             t == Append(f, y)
  <2>1. AList(f) /\ \A i \in DOMAIN f : f[i].path # path
    BY DEF IsScene, FreshPath
  <2>2. s = Append(f, x) /\ next.actions = t
    BY <1>3
  <2>3. Changed(x) = y
    BY <1>5
  <2>4. \A i \in DOMAIN f : Changed(f[i]) = f[i]
    <3> HIDE DEF made
    <3> QED
      BY <1>2, <2>1
  <2> HIDE DEF f, x, y, s, Changed
  <2>5. /\ AList(s) /\ n \in Nat /\ DOMAIN f = 1 .. n
        /\ DOMAIN s = 1 .. n + 1 /\ s[n + 1] = x /\ \A i \in 1 .. n : s[i] = f[i]
    BY <2>1, <2>2, ListAppended DEF f
  <2>6. AList(t) /\ Len(t) = n + 1 /\ t[n + 1] = y /\ \A i \in 1 .. n : t[i] = f[i]
    BY <2>1, ListAppended DEF f
  <2> HIDE DEF n, t
  <2>7. DOMAIN a = 1 .. n + 1 /\ a = [i \in 1 .. n + 1 |-> a[i]] /\ \A i \in 1 .. n + 1 : a[i] = Changed(s[i])
    BY <2>5
  <2> HIDE DEF a
  <2>8. AList(a) /\ Len(a) = n + 1
    BY <2>5, <2>7, ListMade
  <2>9. \A i \in 1 .. n + 1 : a[i] = t[i]
    <3>1. \A i \in 1 .. n + 1 : i = n + 1 \/ i \in 1 .. n
      BY <2>5
    <3> QED
      BY <2>3, <2>4, <2>5, <2>6, <2>7, <3>1
  <2>10. a = t
    BY <2>6, <2>8, <2>9, ListsEqual
  <2> QED
    BY <2>2, <2>10
<1>7. changed = next
  <2>1. \A p, q : [[old EXCEPT !.actions = p] EXCEPT !.actions = q] = [old EXCEPT !.actions = q]
    BY DEF IsScene
  <2>2. \A p : [old EXCEPT !.actions = p].actions = p
    BY DEF IsScene
  <2> HIDE DEF a
  <2> QED
    BY <1>6, <2>1, <2>2 DEF Longer
<1>8. OnAction(made, type, entry, add) = OnScene(made, type, changed)
  <2>1. \E i \in DOMAIN s : s[i].path = made[type]
    <3> DEFINE f == old.actions
               x == Action(type, path, list)
               t == Append(f, x)
    <3>1. AList(f) /\ x.path = path
      BY DEF IsScene, Action
    <3> HIDE DEF f, x
    <3>2. Len(f) \in Nat /\ DOMAIN t = 1 .. Len(f) + 1 /\ t[Len(f) + 1] = x
      BY <3>1, ListAppended
    <3>3. Len(f) + 1 \in DOMAIN t /\ t[Len(f) + 1].path = path
      BY <3>1, <3>2
    <3> QED
      BY <1>2, <1>3, <3>3 DEF f, x
  <2> HIDE DEF made, scene
  <2> QED
    BY <1>1, <2>1 DEF OnAction
<1>9. Run(made, type, line, OneWord(line)) = OnAction(made, type, entry, add)
  <2>1. line.cmd = EntryCommand(type) /\ line.args = entry /\ OneWord(line)
    BY DEF Line, OneWord, EntryCommand
  <2>2. EntryCommand(type) \in CommandsOf(type) /\ EntryCommand(type) \in {"environment", "argument"}
    BY DEF EntryCommand, CommandsOf
  <2> HIDE DEF line, made
  <2> QED
    BY <2>1, <2>2 DEF Run
<1>10. OnScene(made, type, next) = {InAction(rest, name, next, type, path)}
  <2> HIDE DEF scene, next, u, v
  <2>1. OnScene(made, type, next) = {StandsAt(rest, name, next, u, v, type)}
    BY OnSceneIs
  <2> QED
    BY <2>1 DEF InAction, u, v
<1>11. InAction(rest, name, scene, type, path).made = made
       /\ InAction(rest, name, scene, type, path).node = type
  BY DEF InAction, StandsAt
<1> HIDE DEF made, scene, next, line, changed
<1> QED
  BY <1>7, <1>8, <1>9, <1>10, <1>11 DEF Goes, scene, next, line

LEMMA OneIsList == ASSUME NEW x PROVE AList(<<x>>)
<1> DEFINE s == <<x>>
<1>1. s \in Seq({x})
  OBVIOUS
<1> HIDE DEF s
<1>2. AList(s)
  BY <1>1, ListIs
<1> QED
  BY <1>2 DEF s

LEMMA AppendedLine ==
  ASSUME NEW s, AList(s), NEW x
  PROVE  Append(s, x) = s \o <<x>>
<1> DEFINE S == ToSet(s) \cup {x}
           T == ToSet(s)
<1>1. T \subseteq S /\ x \in S
  OBVIOUS
<1>2. s \in Seq(T)
  BY DEF AList
<1> HIDE DEF S, T
<1>3. s \in Seq(S)
  BY <1>1, <1>2, SeqMonotonic
<1> QED
  BY <1>1, <1>3, AppendIsConcat

\* An action that the scene does not have is read as it was.
LEMMA ActionWalk ==
  ASSUME NEW rest, NEW name, NEW old, IsScene(old), NEW action, ActionSound(action),
         WritableAction(action), FreshPath(old, action.path)
  PROVE  Walk(InScene(rest, name, old), ShownAction(action), InScene(rest, name, Longer(old, action)))
<1> DEFINE type == action.type
           path == action.path
           e == action.entries
           n == Len(e)
           enter == <<ActionLine(action)>>
           in == InScene(rest, name, old)
           out == InScene(rest, name, Longer(old, action))
<1>1. /\ action = Action(type, path, e) /\ type \in ActionTypes /\ AList(e)
      /\ \A i \in DOMAIN e : EntrySound(e[i])
  BY DEF ActionSound, Action, ToSet
<1>2. n \in Nat /\ DOMAIN e = 1 .. n
  <2> HIDE DEF e
  <2> QED
    BY <1>1, ListAppended
<1>3. ActionLine(action) = Line(ActionCommands[type], path)
  BY DEF ActionLine, ActionCommands
<1>4. CASE type \in {"script", "command"}
  <2> DEFINE lines == [i \in DOMAIN e |-> EntryLine(type, e[i])]
             InsideOf(list) == InAction(rest, name, Longer(old, Action(type, path, list)), type, path)
             st == [k \in 0 .. n |-> InsideOf(Prefix(e, k))]
             fields == IF type = "script" THEN 2 ELSE 3
  <2>1. type = "script" => Len(path) = 1
    BY DEF WritableAction
  <2>2. \A j \in 1 .. n : Len(e[j]) = fields
    <3> USE <1>2
    <3>1. CASE type = "script"
      BY <3>1 DEF WritableAction
    <3>2. CASE type = "command"
      BY <3>2 DEF WritableAction
    <3> QED
      BY <1>4, <3>1, <3>2
  <2>3. \A j, k \in 1 .. n : SameEntry(type, e[j], e[k]) => j = k
    BY <1>2 DEF WritableAction
  <2>4. ShownAction(action) = enter \o Append(lines, End)
    BY <1>4 DEF ShownAction
  <2>5. AList(lines) /\ Len(lines) = n /\ \A k \in 1 .. n : lines[k] = EntryLine(type, e[k])
    <3>1. DOMAIN lines = 1 .. n /\ lines = [k \in 1 .. n |-> lines[k]]
          /\ \A k \in 1 .. n : lines[k] = EntryLine(type, e[k])
      BY <1>2
    <3> HIDE DEF lines, n
    <3> QED
      BY <1>2, <3>1, ListMade
  <2> HIDE DEF type, path, e, lines, fields
  <2>6. ASSUME NEW k \in 1 .. n PROVE EntryLine(type, e[k]) = Line(EntryCommand(type), e[k])
    <3> DEFINE x == e[k]
    <3>1. EntrySound(x) /\ Len(x) = fields
      BY <1>1, <1>2, <2>2
    <3> HIDE DEF x
    <3>2. CASE type = "script"
      <4>1. x = <<x[1], x[2]>>
        <5>1. Len(<<x[1], x[2], x[3]>>) = 3
          OBVIOUS
        <5> QED
          BY <3>1, <3>2, <5>1 DEF EntrySound, fields
      <4> QED
        BY <3>2, <4>1 DEF EntryLine, EntryCommand, x
    <3>3. CASE type = "command"
      BY <3>1, <3>3 DEF EntryLine, EntryCommand, x, fields
    <3> QED
      BY <1>4, <3>2, <3>3
  <2>7. /\ Prefix(e, 0) = << >> /\ Prefix(e, n) = e
        /\ \A k \in 0 .. n : AList(Prefix(e, k)) /\ Len(Prefix(e, k)) = k
        /\ \A k \in 1 .. n : Append(Prefix(e, k - 1), e[k]) = Prefix(e, k)
    BY <1>1, PrefixIs
  <2>8. ASSUME NEW k \in 1 .. n PROVE Goes(st[k - 1], lines[k], st[k])
    <3> DEFINE list == Prefix(e, k - 1)
    <3>1. k - 1 \in 0 .. n /\ k \in 0 .. n
      BY <1>2
    <3>2. AList(list)
      BY <2>7, <3>1
    <3>3. \A j \in DOMAIN list : ~SameEntry(type, list[j], e[k])
      <4> SUFFICES ASSUME NEW j \in 1 .. k - 1 PROVE ~SameEntry(type, e[j], e[k])
        BY DEF Prefix
      <4>1. j \in 1 .. n /\ j # k
        BY <1>2
      <4> QED
        BY <2>3, <4>1
    <3>4. Append(list, e[k]) = Prefix(e, k)
      BY <2>7
    <3> HIDE DEF list
    <3>5. Goes(InsideOf(list), Line(EntryCommand(type), e[k]), InsideOf(Append(list, e[k])))
      <4>1. FreshPath(old, path)
        BY DEF path
      <4> QED
        BY <1>4, <3>2, <3>3, <4>1, GoesToEntry
    <3>6. st[k - 1] = InsideOf(list) /\ st[k] = InsideOf(Append(list, e[k]))
      <4> HIDE DEF InsideOf
      <4> QED
        BY <3>1, <3>4 DEF list
    <3>7. lines[k] = Line(EntryCommand(type), e[k])
      BY <2>5, <2>6
    <3> HIDE DEF st, InsideOf
    <3> QED
      BY <3>5, <3>6, <3>7
  <2>9. st[0] = InsideOf(<< >>) /\ st[n] = InsideOf(e)
    <3> HIDE DEF InsideOf
    <3>1. 0 \in 0 .. n /\ n \in 0 .. n
      BY <1>2
    <3> QED
      BY <2>7, <3>1
  <2>10. Goes(in, ActionLine(action), InsideOf(<< >>))
    <3>1. FreshPath(old, path)
      BY DEF path
    <3>2. Goes(in, Line(ActionCommands[type], path), InsideOf(<< >>))
      BY <1>4, <2>1, <3>1, GoesToAction
    <3> HIDE DEF InsideOf, in
    <3> QED
      BY <1>3, <3>2
  <2>11. Goes(InsideOf(e), End, out)
    <3>1. Goes(InsideOf(e), End, InScene(rest, name, Longer(old, Action(type, path, e))))
      BY <1>4, GoesFromAction
    <3> HIDE DEF InsideOf
    <3> QED
      BY <1>1, <3>1
  <2> DEFINE first == InsideOf(<< >>)
             last == InsideOf(e)
             line == ActionLine(action)
             tail == Append(lines, End)
  <2> HIDE DEF in, out, first, last, n, st, line
  <2>12. Walk(first, lines, last)
    BY <2>5, <2>8, <2>9 DEF Walk, first, last
  <2>13. Walk(last, <<End>>, out)
    BY <2>11, WalkOne DEF last
  <2>14. Walk(in, enter, first)
    BY <2>10, WalkOne DEF first, line
  <2>15. tail = lines \o <<End>> /\ AList(<<End>>) /\ AList(enter) /\ AList(tail)
    BY <2>5, AppendedLine, OneIsList, ListAppended
  <2>16. Walk(first, tail, out)
    <3> DEFINE ends == <<End>>
    <3> HIDE DEF ends, tail
    <3> QED
      BY <2>5, <2>12, <2>13, <2>15, WalkConcat DEF ends
  <2> HIDE DEF enter, tail
  <2>17. Walk(in, enter \o tail, out)
    BY <2>14, <2>15, <2>16, WalkConcat
  <2> QED
    BY <2>4, <2>17 DEF in, out, tail
<1>5. CASE type \in {"scene", "enable", "disable"}
  <2>1. e = << >>
    <3>1. \A j \in 1 .. n : Len(e[j]) = 0
      <4>1. \A j \in DOMAIN e : Len(e[j]) = 0
        BY <1>5 DEF WritableAction
      <4> QED
        BY <1>2, <4>1
    <3>2. ASSUME NEW j \in 1 .. n PROVE FALSE
      <4> DEFINE x == e[j]
      <4>1. EntrySound(x) /\ Len(x) = 0
        BY <1>1, <1>2, <3>1
      <4> HIDE DEF x
      <4>2. Len(<<x[1], x[2]>>) = 2 /\ Len(<<x[1], x[2], x[3]>>) = 3
        OBVIOUS
      <4> QED
        BY <4>1, <4>2 DEF EntrySound
    <3>3. n = 0
      BY <1>2, <3>2
    <3> DEFINE T == ToSet(e)
    <3>4. e \in Seq(T)
      BY <1>1 DEF AList
    <3> HIDE DEF T, e
    <3> QED
      BY <3>3, <3>4, EmptySeq DEF n
  <2>2. ShownAction(action) = enter \o << >>
    BY <1>5 DEF ShownAction
  <2>3. Goes(in, ActionLine(action), out)
    <3>1. Goes(in, Line(ActionCommands[type], path), InScene(rest, name, Longer(old, Action(type, path, << >>))))
      BY <1>5, GoesToPlainAction
    <3> HIDE DEF in, type, path, e
    <3> QED
      BY <1>1, <1>3, <2>1, <3>1
  <2> DEFINE none == << >>
             line == ActionLine(action)
  <2> HIDE DEF in, out, line
  <2>4. Walk(in, enter, out) /\ AList(enter)
    BY <2>3, WalkOne, OneIsList DEF line
  <2>5. Walk(out, none, out) /\ AList(none)
    BY WalkEmpty, EmptyAList
  <2> HIDE DEF enter, none
  <2>6. Walk(in, enter \o none, out)
    BY <2>4, <2>5, WalkConcat
  <2> QED
    BY <2>2, <2>6 DEF in, out, none
<1> QED
  BY <1>1, <1>4, <1>5 DEF ActionTypes

\* The scene as far as its sources, conditions and actions have been read.
Part(scene, i, j, k) ==
  [enabled |-> scene.enabled, sources |-> Prefix(scene.sources, i),
   conditions |-> Prefix(scene.conditions, j), actions |-> Prefix(scene.actions, k)]

LEMMA PartSource ==
  ASSUME NEW scene, SceneSound(scene), NEW i, NEW j, NEW k, i \in 1 .. Len(scene.sources)
  PROVE  [Part(scene, i - 1, j, k) EXCEPT !.sources = Append(@, scene.sources[i])]
           = Part(scene, i, j, k)
<1> DEFINE s == scene.sources
<1>1. AList(s)
  BY DEF SceneSound
<1>2. Append(Prefix(s, i - 1), s[i]) = Prefix(s, i)
  <2> HIDE DEF s
  <2>1. \A n \in 1 .. Len(s) : Append(Prefix(s, n - 1), s[n]) = Prefix(s, n)
    BY <1>1, PrefixIs
  <2> QED
    BY <2>1 DEF s
<1> DEFINE x == s[i]
           p == Prefix(s, i - 1)
<1>3. Part(scene, i - 1, j, k).sources = p
  BY DEF Part
<1>4. Append(p, x) = Prefix(s, i)
  BY <1>2
<1> HIDE DEF x, p
<1>5. [Part(scene, i - 1, j, k) EXCEPT !.sources = Append(@, x)]
        = [Part(scene, i - 1, j, k) EXCEPT !.sources = Prefix(s, i)]
  BY <1>3, <1>4
<1>6. [Part(scene, i - 1, j, k) EXCEPT !.sources = Prefix(s, i)] = Part(scene, i, j, k)
  BY DEF Part
<1> QED
  BY <1>5, <1>6 DEF x

LEMMA PartCondition ==
  ASSUME NEW scene, SceneSound(scene), NEW i, NEW j, NEW k, j \in 1 .. Len(scene.conditions)
  PROVE  [Part(scene, i, j - 1, k) EXCEPT !.conditions = Append(@, scene.conditions[j])]
           = Part(scene, i, j, k)
<1> DEFINE s == scene.conditions
<1>1. AList(s)
  BY DEF SceneSound
<1>2. Append(Prefix(s, j - 1), s[j]) = Prefix(s, j)
  <2> HIDE DEF s
  <2>1. \A n \in 1 .. Len(s) : Append(Prefix(s, n - 1), s[n]) = Prefix(s, n)
    BY <1>1, PrefixIs
  <2> QED
    BY <2>1 DEF s
<1> DEFINE x == s[j]
           p == Prefix(s, j - 1)
<1>3. Part(scene, i, j - 1, k).conditions = p
  BY DEF Part
<1>4. Append(p, x) = Prefix(s, j)
  BY <1>2
<1> HIDE DEF x, p
<1>5. [Part(scene, i, j - 1, k) EXCEPT !.conditions = Append(@, x)]
        = [Part(scene, i, j - 1, k) EXCEPT !.conditions = Prefix(s, j)]
  BY <1>3, <1>4
<1>6. [Part(scene, i, j - 1, k) EXCEPT !.conditions = Prefix(s, j)] = Part(scene, i, j, k)
  BY DEF Part
<1> QED
  BY <1>5, <1>6 DEF x

LEMMA PartAction ==
  ASSUME NEW scene, SceneSound(scene), NEW i, NEW j, NEW k, k \in 1 .. Len(scene.actions)
  PROVE  [Part(scene, i, j, k - 1) EXCEPT !.actions = Append(@, scene.actions[k])]
           = Part(scene, i, j, k)
<1> DEFINE s == scene.actions
<1>1. AList(s)
  BY DEF SceneSound
<1>2. Append(Prefix(s, k - 1), s[k]) = Prefix(s, k)
  <2> HIDE DEF s
  <2>1. \A n \in 1 .. Len(s) : Append(Prefix(s, n - 1), s[n]) = Prefix(s, n)
    BY <1>1, PrefixIs
  <2> QED
    BY <2>1 DEF s
<1> DEFINE x == s[k]
           p == Prefix(s, k - 1)
<1>3. Part(scene, i, j, k - 1).actions = p
  BY DEF Part
<1>4. Append(p, x) = Prefix(s, k)
  BY <1>2
<1> HIDE DEF x, p
<1>5. [Part(scene, i, j, k - 1) EXCEPT !.actions = Append(@, x)]
        = [Part(scene, i, j, k - 1) EXCEPT !.actions = Prefix(s, k)]
  BY <1>3, <1>4
<1>6. [Part(scene, i, j, k - 1) EXCEPT !.actions = Prefix(s, k)] = Part(scene, i, j, k)
  BY DEF Part
<1> QED
  BY <1>5, <1>6 DEF x

\* What is shown of the sources, conditions and actions of a scene adds them one by one.
LEMMA SourcesWalk ==
  ASSUME NEW rest, NEW name, NEW scene, SceneSound(scene),
         \A i \in DOMAIN scene.sources : Len(scene.sources[i]) = 1
  PROVE  Walk(InScene(rest, name, Part(scene, 0, 0, 0)), Lines("source", scene.sources),
              InScene(rest, name, Part(scene, Len(scene.sources), 0, 0)))
<1> DEFINE s == scene.sources
           n == Len(s)
           lines == Lines("source", s)
           InsideOf(i) == InScene(rest, name, Part(scene, i, 0, 0))
           st == [i \in 0 .. n |-> InsideOf(i)]
<1>1. AList(s) /\ \A i, j \in DOMAIN s : s[i] = s[j] => i = j
  BY DEF SceneSound
<1>2. n \in Nat /\ DOMAIN s = 1 .. n
  <2> HIDE DEF s
  <2> QED
    BY <1>1, ListAppended
<1>3. Len(lines) = n /\ \A k \in 1 .. n : lines[k] = Line("source", s[k])
  <2>1. DOMAIN lines = 1 .. n /\ lines = [k \in 1 .. n |-> lines[k]]
        /\ \A k \in 1 .. n : lines[k] = Line("source", s[k])
    BY <1>2 DEF Lines
  <2> HIDE DEF lines, n
  <2> QED
    BY <1>2, <2>1, ListMade
<1>4. ASSUME NEW k \in 1 .. n PROVE Goes(st[k - 1], lines[k], st[k])
  <2> DEFINE part == Part(scene, k - 1, 0, 0)
             x == s[k]
  <2>1. k - 1 \in 0 .. n /\ k \in 0 .. n
    BY <1>2
  <2>2. Len(x) = 1
    BY <1>2
  <2>3. ~Contains(part.sources, x)
    <3>1. part.sources = Prefix(s, k - 1)
      BY DEF Part
    <3>2. Len(Prefix(s, k - 1)) = k - 1
      <4> HIDE DEF s
      <4> QED
        BY <1>1, <2>1, PrefixIs
    <3>3. \A i \in 1 .. k - 1 : Prefix(s, k - 1)[i] # x
      <4> SUFFICES ASSUME NEW i \in 1 .. k - 1 PROVE s[i] # x
        BY DEF Prefix
      <4>1. i \in 1 .. n /\ i # k
        BY <1>2
      <4> QED
        BY <1>1, <1>2, <4>1
    <3> HIDE DEF part, x, s
    <3> QED
      BY <3>1, <3>2, <3>3 DEF Contains
  <2>4. [part EXCEPT !.sources = Append(@, x)] = Part(scene, k, 0, 0)
    BY PartSource
  <2> HIDE DEF part, x
  <2>5. Goes(InScene(rest, name, part), Line("source", x),
             InScene(rest, name, [part EXCEPT !.sources = Append(@, x)]))
    BY <2>2, <2>3, GoesToSource
  <2>6. st[k - 1] = InScene(rest, name, part) /\ st[k] = InScene(rest, name, Part(scene, k, 0, 0))
        /\ lines[k] = Line("source", x)
    BY <1>3, <2>1 DEF part, x
  <2> HIDE DEF st, lines
  <2> QED
    BY <2>4, <2>5, <2>6
<1>5. st[0] = InsideOf(0) /\ st[n] = InsideOf(n)
  BY <1>2
<1> DEFINE first == InsideOf(0)
           last == InsideOf(n)
<1> HIDE DEF st, lines, first, last
<1>6. Walk(first, lines, last)
  BY <1>3, <1>4, <1>5 DEF Walk, first, last
<1> QED
  BY <1>6 DEF first, last, lines

LEMMA ConditionsWalk ==
  ASSUME NEW rest, NEW name, NEW scene, SceneSound(scene), NEW m
  PROVE  Walk(InScene(rest, name, Part(scene, m, 0, 0)), Lines("condition", scene.conditions),
              InScene(rest, name, Part(scene, m, Len(scene.conditions), 0)))
<1> DEFINE s == scene.conditions
           n == Len(s)
           lines == Lines("condition", s)
           InsideOf(i) == InScene(rest, name, Part(scene, m, i, 0))
           st == [i \in 0 .. n |-> InsideOf(i)]
<1>1. AList(s)
  BY DEF SceneSound
<1>2. n \in Nat /\ DOMAIN s = 1 .. n
  <2> HIDE DEF s
  <2> QED
    BY <1>1, ListAppended
<1>3. Len(lines) = n /\ \A k \in 1 .. n : lines[k] = Line("condition", s[k])
  <2>1. DOMAIN lines = 1 .. n /\ lines = [k \in 1 .. n |-> lines[k]]
        /\ \A k \in 1 .. n : lines[k] = Line("condition", s[k])
    BY <1>2 DEF Lines
  <2> HIDE DEF lines, n
  <2> QED
    BY <1>2, <2>1, ListMade
<1>4. ASSUME NEW k \in 1 .. n PROVE Goes(st[k - 1], lines[k], st[k])
  <2> DEFINE part == Part(scene, m, k - 1, 0)
             x == s[k]
  <2>1. k - 1 \in 0 .. n /\ k \in 0 .. n
    BY <1>2
  <2>2. [part EXCEPT !.conditions = Append(@, x)] = Part(scene, m, k, 0)
    BY PartCondition
  <2> HIDE DEF part, x
  <2>3. Goes(InScene(rest, name, part), Line("condition", x),
             InScene(rest, name, [part EXCEPT !.conditions = Append(@, x)]))
    BY GoesToCondition
  <2>4. st[k - 1] = InScene(rest, name, part) /\ st[k] = InScene(rest, name, Part(scene, m, k, 0))
        /\ lines[k] = Line("condition", x)
    BY <1>3, <2>1 DEF part, x
  <2> HIDE DEF st, lines
  <2> QED
    BY <2>2, <2>3, <2>4
<1>5. st[0] = InsideOf(0) /\ st[n] = InsideOf(n)
  BY <1>2
<1> DEFINE first == InsideOf(0)
           last == InsideOf(n)
<1> HIDE DEF st, lines, first, last
<1>6. Walk(first, lines, last)
  BY <1>3, <1>4, <1>5 DEF Walk, first, last
<1> QED
  BY <1>6 DEF first, last, lines

LEMMA ActionsWalk ==
  ASSUME NEW rest, NEW name, NEW scene, SceneSound(scene),
         \A i \in DOMAIN scene.actions : WritableAction(scene.actions[i]), NEW l, NEW m
  PROVE  Walk(InScene(rest, name, Part(scene, l, m, 0)),
              FlattenSeq([i \in DOMAIN scene.actions |-> ShownAction(scene.actions[i])]),
              InScene(rest, name, Part(scene, l, m, Len(scene.actions))))
<1> DEFINE s == scene.actions
           n == Len(s)
           seqs == [i \in DOMAIN s |-> ShownAction(s[i])]
           InsideOf(k) == InScene(rest, name, Part(scene, l, m, k))
           c == [k \in 0 .. n |-> InsideOf(k)]
<1>1. AList(s) /\ (\A i, j \in DOMAIN s : s[i].path = s[j].path => i = j)
      /\ \A i \in DOMAIN s : ActionSound(s[i])
  BY DEF SceneSound, ToSet
<1>2. n \in Nat /\ DOMAIN s = 1 .. n
  <2> HIDE DEF s
  <2> QED
    BY <1>1, ListAppended
<1>3. DOMAIN seqs = 1 .. n /\ seqs = [k \in 1 .. n |-> seqs[k]]
      /\ \A k \in 1 .. n : seqs[k] = ShownAction(s[k])
  BY <1>2
<1>4. \A k \in 1 .. n : AList(seqs[k])
  <2> HIDE DEF seqs
  <2> QED
    BY <1>1, <1>2, <1>3, ActionShownSound DEF FileSound
<1>5. ASSUME NEW k \in 1 .. n PROVE Walk(c[k - 1], seqs[k], c[k])
  <2> DEFINE part == Part(scene, l, m, k - 1)
             x == s[k]
  <2>1. k - 1 \in 0 .. n /\ k \in 0 .. n
    BY <1>2
  <2>2. ActionSound(x) /\ WritableAction(x)
    BY <1>1, <1>2
  <2>3. Longer(part, x) = Part(scene, l, m, k)
    BY PartAction DEF Longer
  <2>4. IsScene(part) /\ FreshPath(part, x.path)
    <3> DEFINE p == Prefix(s, k - 1)
    <3>1. part.actions = p /\ part = [enabled |-> part.enabled, sources |-> part.sources,
                conditions |-> part.conditions, actions |-> part.actions]
      BY DEF Part
    <3>2. AList(p)
      <4> HIDE DEF s
      <4> QED
        BY <1>1, <2>1, PrefixIs
    <3>3. DOMAIN p = 1 .. k - 1 /\ \A i \in 1 .. k - 1 : p[i] = s[i]
      BY DEF Prefix
    <3>4. \A i \in 1 .. k - 1 : s[i].path # x.path
      <4> SUFFICES ASSUME NEW i \in 1 .. k - 1 PROVE s[i].path # x.path
        OBVIOUS
      <4>1. i \in 1 .. n /\ i # k
        BY <1>2
      <4> QED
        BY <1>1, <1>2, <4>1
    <3> HIDE DEF part, x, s, p
    <3> QED
      BY <3>1, <3>2, <3>3, <3>4 DEF IsScene, FreshPath
  <2> HIDE DEF part, x
  <2>5. Walk(InScene(rest, name, part), ShownAction(x), InScene(rest, name, Longer(part, x)))
    BY <2>2, <2>4, ActionWalk
  <2>6. c[k - 1] = InScene(rest, name, part) /\ c[k] = InScene(rest, name, Part(scene, l, m, k))
        /\ seqs[k] = ShownAction(x)
    BY <1>3, <2>1 DEF part, x
  <2> HIDE DEF c, seqs
  <2> QED
    BY <2>3, <2>5, <2>6
<1>6. c[0] = InsideOf(0) /\ c[n] = InsideOf(n)
  BY <1>2
<1> DEFINE first == InsideOf(0)
           last == InsideOf(n)
<1> HIDE DEF c, seqs, first, last, n
<1>7. Walk(c[0], FlattenSeq(seqs), c[n])
  BY <1>2, <1>3, <1>4, <1>5, WalkFlattened
<1> QED
  BY <1>6, <1>7 DEF first, last, seqs, n

\* Two lines are one and then the other.
LEMMA PairIsConcat ==
  ASSUME NEW p, NEW q
  PROVE  <<p, q>> = <<p>> \o <<q>>
<1> DEFINE S == {p, q}
           s == <<p, q>>
           t == Append(<<p>>, q)
<1>1. s \in Seq(S) /\ Len(s) = 2 /\ s[1] = p /\ s[2] = q
  OBVIOUS
<1>2. <<p>> \in Seq(S) /\ q \in S /\ Len(<<p>>) = 1 /\ <<p>>[1] = p
  OBVIOUS
<1> HIDE DEF S, s
<1>3. t \in Seq(S) /\ Len(t) = 2 /\ t[1] = p /\ t[2] = q
  BY <1>2, AppendProperties
<1>4. t = <<p>> \o <<q>>
  BY AppendedLine, OneIsList
<1> HIDE DEF t
<1>5. s = t
  <2>1. s = [k \in 1 .. 2 |-> s[k]] /\ t = [k \in 1 .. 2 |-> t[k]]
    BY <1>1, <1>3, LenProperties
  <2>2. \A k \in 1 .. 2 : s[k] = t[k]
    BY <1>1, <1>3
  <2> QED
    BY <2>1, <2>2
<1> QED
  BY <1>4, <1>5 DEF s


\* A scene that the start does not have is read as it was.
LEMMA SceneWalk ==
  ASSUME NEW rest, NEW name, name \notin DOMAIN rest, NEW scene, SceneSound(scene),
         \A i \in DOMAIN scene.sources : Len(scene.sources[i]) = 1,
         \A i \in DOMAIN scene.actions : WritableAction(scene.actions[i])
  PROVE  Walk(AtRoot(rest), ShownScene(name, scene), AtRoot(With(rest, name, scene)))
<1> DEFINE m == Len(scene.sources)
           n == Len(scene.conditions)
           p == Line("scene", name)
           q == Line(IF scene.enabled THEN "enable" ELSE "no enable", << >>)
           b == Lines("source", scene.sources)
           c == Lines("condition", scene.conditions)
           d == FlattenSeq([i \in DOMAIN scene.actions |-> ShownAction(scene.actions[i])])
           root == AtRoot(rest)
           fresh == InScene(rest, name, NewScene)
           none == InScene(rest, name, Part(scene, 0, 0, 0))
           some == InScene(rest, name, Part(scene, m, 0, 0))
           most == InScene(rest, name, Part(scene, m, n, 0))
           all == InScene(rest, name, Part(scene, m, n, Len(scene.actions)))
           out == AtRoot(With(rest, name, scene))
<1>1. AList(scene.sources) /\ AList(scene.conditions) /\ AList(scene.actions)
  BY DEF SceneSound
<1>2. Goes(root, p, fresh)
  BY GoesToScene
<1>3. Goes(fresh, q, none)
  <2>1. Part(scene, 0, 0, 0) = [NewScene EXCEPT !.enabled = scene.enabled]
    <3>1. Prefix(scene.sources, 0) = << >> /\ Prefix(scene.conditions, 0) = << >>
          /\ Prefix(scene.actions, 0) = << >>
      BY <1>1, PrefixIs
    <3> QED
      BY <3>1 DEF Part, NewScene
  <2>2. scene.enabled \in BOOLEAN
    BY DEF SceneSound
  <2>3. Goes(InScene(rest, name, NewScene), q,
             InScene(rest, name, [NewScene EXCEPT !.enabled = scene.enabled]))
    BY <2>2, GoesToSwitch
  <2> QED
    BY <2>1, <2>3
<1>4. Walk(none, b, some)
  BY SourcesWalk
<1>5. Walk(some, c, most)
  BY ConditionsWalk
<1>6. Walk(most, d, all)
  BY ActionsWalk
<1>7. Goes(all, End, out)
  <2>1. Prefix(scene.sources, m) = scene.sources /\ Prefix(scene.conditions, n) = scene.conditions
        /\ Prefix(scene.actions, Len(scene.actions)) = scene.actions
    BY <1>1, PrefixIs
  <2>2. Part(scene, m, n, Len(scene.actions)) = scene
    <3>1. scene = [enabled |-> scene.enabled, sources |-> scene.sources,
                   conditions |-> scene.conditions, actions |-> scene.actions]
      BY DEF SceneSound
    <3> QED
      BY <2>1, <3>1 DEF Part
  <2> QED
    BY <2>2, GoesFromScene
<1>8. AList(b) /\ AList(c) /\ AList(d)
  <2>1. FileSound(b) /\ FileSound(c)
    BY <1>1, LinesSound
  <2>2. AList(d)
    <3> DEFINE s == scene.actions
               k == Len(s)
               seqs == [i \in DOMAIN s |-> ShownAction(s[i])]
    <3>1. \A i \in DOMAIN s : ActionSound(s[i])
      BY DEF SceneSound, ToSet
    <3>2. k \in Nat /\ DOMAIN s = 1 .. k
      BY <1>1, ListAppended
    <3> HIDE DEF s, k
    <3>3. DOMAIN seqs = 1 .. k /\ seqs = [i \in 1 .. k |-> seqs[i]]
          /\ \A i \in 1 .. k : seqs[i] = ShownAction(s[i])
      BY <3>2
    <3> HIDE DEF seqs
    <3>4. \A i \in 1 .. k : AList(seqs[i])
      BY <3>1, <3>2, <3>3, ActionShownSound DEF FileSound
    <3>5. AList(FlattenSeq(seqs))
      BY <3>2, <3>3, <3>4, ListFlattened
    <3> QED
      BY <3>5 DEF seqs, s
  <2> QED
    BY <2>1, <2>2 DEF FileSound
<1>9. ShownScene(name, scene) = <<p, q>> \o b \o c \o d \o <<End>>
  BY DEF ShownScene
<1> HIDE DEF p, q, b, c, d, root, fresh, none, some, most, all, out
<1> DEFINE ps == <<p>>
           qs == <<q>>
           es == <<End>>
           a == ps \o qs
<1>10. Walk(root, ps, fresh) /\ Walk(fresh, qs, none) /\ Walk(all, es, out)
  BY <1>2, <1>3, <1>7, WalkOne
<1>11. <<p, q>> = a
  BY PairIsConcat
<1>12. AList(ps) /\ AList(qs) /\ AList(es)
  BY OneIsList
<1> HIDE DEF ps, qs, es
<1>13. Walk(root, a, none) /\ AList(a)
  BY <1>10, <1>12, WalkConcat, ListConcat
<1> HIDE DEF a
<1>14. Walk(root, a \o b, some) /\ AList(a \o b)
  BY <1>4, <1>8, <1>13, WalkConcat, ListConcat
<1>15. Walk(root, a \o b \o c, most) /\ AList(a \o b \o c)
  BY <1>5, <1>8, <1>14, WalkConcat, ListConcat
<1>16. Walk(root, a \o b \o c \o d, all) /\ AList(a \o b \o c \o d)
  BY <1>6, <1>8, <1>15, WalkConcat, ListConcat
<1>17. Walk(root, a \o b \o c \o d \o es, out)
  BY <1>10, <1>12, <1>16, WalkConcat
<1> QED
  BY <1>9, <1>11, <1>17 DEF root, out, es

\* What is shown of scenes is read as those scenes.
LEMMA ShownWalk ==
  ASSUME NEW scenes, ScenesSound(scenes), Writable(scenes)
  PROVE  Walk(AtRoot(<< >>), Shown(scenes), AtRoot(scenes)) /\ AList(Shown(scenes))
<1> DEFINE D == DOMAIN scenes
           n == Cardinality(D)
           names == SetToSeq(D)
           seqs == [i \in DOMAIN names |-> ShownScene(names[i], scenes[names[i]])]
           first(k) == {names[i] : i \in 1 .. k}
           some(k) == [x \in first(k) |-> scenes[x]]
           c == [k \in 0 .. n |-> AtRoot(some(k))]
<1>1. IsFiniteSet(D) /\ scenes = [x \in D |-> scenes[x]] /\ \A x \in D : SceneSound(scenes[x])
  BY DEF ScenesSound
<1>2. Shown(scenes) = FlattenSeq(seqs)
  BY DEF Shown
<1>3. ASSUME NEW x \in D
      PROVE  /\ \A i \in DOMAIN scenes[x].sources : Len(scenes[x].sources[i]) = 1
             /\ \A i \in DOMAIN scenes[x].actions : WritableAction(scenes[x].actions[i])
  BY DEF Writable
<1> HIDE DEF D
<1>4. /\ n \in Nat /\ names \in [1 .. n -> D]
      /\ \A i, j \in 1 .. n : names[i] = names[j] => i = j
      /\ \A x \in D : \E i \in 1 .. n : names[i] = x
  BY <1>1, ListOfSet
<1> HIDE DEF n, names
<1>5. DOMAIN seqs = 1 .. n /\ seqs = [k \in 1 .. n |-> seqs[k]]
      /\ \A k \in 1 .. n : seqs[k] = ShownScene(names[k], scenes[names[k]])
  BY <1>4
<1> HIDE DEF seqs
<1>6. \A k \in 1 .. n : AList(seqs[k])
  <2>1. \A x, scene : SceneSound(scene) => AList(ShownScene(x, scene))
    BY SceneShownSound DEF FileSound
  <2>2. \A k \in 1 .. n : names[k] \in D
    BY <1>4
  <2>3. \A k \in 1 .. n : SceneSound(scenes[names[k]])
    BY <1>1, <2>2
  <2> QED
    BY <1>5, <2>1, <2>3
<1>7. ASSUME NEW k \in 1 .. n PROVE Walk(c[k - 1], seqs[k], c[k])
  <2> DEFINE x == names[k]
             rest == some(k - 1)
  <2>1. k - 1 \in 0 .. n /\ k \in 0 .. n /\ x \in D
    BY <1>4
  <2>2. x \notin DOMAIN rest
    <3>1. \A i \in 1 .. k - 1 : i \in 1 .. n /\ i # k
      BY <1>4
    <3> QED
      BY <1>4, <3>1
  <2>3. With(rest, x, scenes[x]) = some(k)
    <3>1. first(k) = first(k - 1) \cup {x}
      <4>1. \A i : i \in 1 .. k <=> (i \in 1 .. k - 1 \/ i = k)
        BY <1>4
      <4> QED
        BY <4>1
    <3> HIDE DEF first, x
    <3>2. DOMAIN rest = first(k - 1) /\ \A y \in first(k - 1) : rest[y] = scenes[y]
      OBVIOUS
    <3> HIDE DEF rest
    <3> QED
      BY <3>1, <3>2 DEF With
  <2>4. SceneSound(scenes[x])
        /\ (\A i \in DOMAIN scenes[x].sources : Len(scenes[x].sources[i]) = 1)
        /\ \A i \in DOMAIN scenes[x].actions : WritableAction(scenes[x].actions[i])
    BY <1>1, <1>3, <2>1
  <2> HIDE DEF x, rest
  <2> DEFINE scene == scenes[x]
  <2>5. Walk(AtRoot(rest), ShownScene(x, scene), AtRoot(With(rest, x, scene)))
    <3>1. SceneSound(scene)
          /\ (\A i \in DOMAIN scene.sources : Len(scene.sources[i]) = 1)
          /\ \A i \in DOMAIN scene.actions : WritableAction(scene.actions[i])
      BY <2>4
    <3> HIDE DEF scene
    <3> QED
      BY <2>2, <3>1, SceneWalk
  <2>6. c[k - 1] = AtRoot(rest) /\ c[k] = AtRoot(some(k)) /\ seqs[k] = ShownScene(x, scene)
    BY <1>5, <2>1 DEF rest, x
  <2> HIDE DEF c, some
  <2> QED
    BY <2>3, <2>5, <2>6
<1>8. c[0] = AtRoot(<< >>)
  <2>1. some(0) = << >>
    <3>1. first(0) = {}
      OBVIOUS
    <3> HIDE DEF first
    <3> QED
      BY <3>1
  <2>2. c[0] = AtRoot(some(0))
    BY <1>4
  <2> HIDE DEF c, some
  <2> QED
    BY <2>1, <2>2
<1>9. c[n] = AtRoot(scenes)
  <2>1. first(n) = D
    BY <1>4
  <2>2. c[n] = AtRoot(some(n))
    BY <1>4
  <2>3. some(n) = scenes
    <3> HIDE DEF first
    <3> QED
      BY <1>1, <2>1
  <2> HIDE DEF c, some
  <2> QED
    BY <2>2, <2>3
<1> HIDE DEF c
<1>10. Walk(c[0], FlattenSeq(seqs), c[n])
  BY <1>4, <1>5, <1>6, <1>7, WalkFlattened
<1>11. AList(FlattenSeq(seqs))
  BY <1>4, <1>5, <1>6, ListFlattened
<1> QED
  BY <1>2, <1>8, <1>9, <1>10, <1>11

\* A start walks along what a save writes to exactly the scenes that were written.
LEMMA KeptByRestart == CfgInv => RestartKeepsScenes
<1> SUFFICES ASSUME CfgInv, Writable(cfgMade.scenes)
             PROVE  \E n \in Loaded(Shown(cfgMade.scenes)) : n.node = "root" /\ n.made.scenes = cfgMade.scenes
  BY DEF RestartKeepsScenes
<1> DEFINE scenes == cfgMade.scenes
           out == AtRoot(scenes)
           begin == AtRoot(<< >>)
<1>1. ScenesSound(scenes)
  BY DEF CfgInv, MadeSound
<1>2. Walk(begin, Shown(scenes), out) /\ AList(Shown(scenes))
  <2> HIDE DEF scenes
  <2>1. Writable(scenes)
    BY DEF scenes
  <2> QED
    BY <1>1, <2>1, ShownWalk
<1>3. Leads(Blank, "root") = {begin}
  BY DEF Leads, Blank, AtRoot
<1>4. out.node = "root" /\ out.made.scenes = scenes
  BY DEF AtRoot
<1> HIDE DEF out, begin, scenes
<1>5. Loaded(Shown(scenes)) = {out}
  BY <1>2, <1>3, WalkLoads
<1> QED
  BY <1>4, <1>5 DEF scenes

\* Whatever the sessions typed, and however often the program was restarted on whatever part
\* of a file a save left, a start would make of what a save would write now the scenes that
\* are configured (show_scene_helper and the handlers of cli_scene.c), for any sessions,
\* lines, files and numbers of edits and saves.
THEOREM RestartsKeepScenes == CfgSpec => []RestartKeepsScenes
<1>1. CfgSpec => []CfgInv
  BY CfgInitInv, CfgStep, PTL DEF CfgSpec
<1> QED
  BY <1>1, KeptByRestart, PTL
=============================================================================
