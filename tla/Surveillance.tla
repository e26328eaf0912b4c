---------------------------- MODULE Surveillance ----------------------------
(***************************************************************************)
(* vdev/SurveillanceStation: the session with a Synology station           *)
(* (SS_api.c), the table of its cameras, the motion events that are polled *)
(* from it and the timers that end them (SurveillanceStation.c).           *)
(* The station answers a request, refuses it or cannot be reached; without *)
(* a session it refuses everything but the login.                          *)
(***************************************************************************)
EXTENDS Integers, FiniteSetsExt

CONSTANTS
  StationSettings,  \* user, password and base URL
  StationCameras,   \* the cameras the station may speak of: [id, name]
  MaxEvents         \* bound: motion events in one answer

ASSUME StationAssumption ==
  MaxEvents \in Nat /\ \A camera \in StationCameras : camera.id \in Nat \ {0}

VARIABLES
  ssSettings,  \* SS_user, SS_pass, SS_base_url
  ssStarted,   \* SS_device_started
  ssSid,       \* SS_auth_sid: the settings it was given for, if any
  ssAsked,     \* the last step's requests with a session: what for, its settings, where to
  ssCameras,   \* SS_camera_info_table: for each id, [name, timer]
  ssKeepers,   \* SS_event_keeper_table: for each "id-name", [camera, count, old, active]
  ssStranger,  \* a timer of someone else's was started
  ssCrashed    \* a camera that is not in the table was used

ssVars ==
  <<ssSettings, ssStarted, ssSid, ssAsked, ssCameras, ssKeepers, ssStranger, ssCrashed>>

NoCamera == 0     \* camera_id of a new keeper; ids count from 1
Ids == {camera.id : camera \in StationCameras}

SSInit ==
  /\ ssSettings \in StationSettings /\ ssStarted = FALSE /\ ssSid = {} /\ ssAsked = {}
  /\ ssCameras = << >> /\ ssKeepers = << >> /\ ssStranger = FALSE /\ ssCrashed = FALSE

-----------------------------------------------------------------------------
\* A request goes to the station, and for the account, that are configured when it is made,
\* with the session that was kept from the last login.
Asked(what, sid, settings) ==
  IF sid = {} THEN {} ELSE {[what |-> what, sid |-> sid, to |-> settings]}

\* SS_api_get_sid keeps the session it has when the login fails.
LoggedIn(sid, settings) == {sid, {settings}}

\* The cameras of an answer to SS_api_get_camera_list: one of each id.
Lists == {list \in SUBSET StationCameras : \A c, d \in list : c.id = d.id => c = d}

\* process_camera_list_response: known ones are renamed, others are added with a timer_id
\* of zero, and none is ever removed.
Listed(list) ==
  LET ids == {camera.id : camera \in list}
      NameOf(id) == (CHOOSE camera \in list : camera.id = id).name
  IN [id \in DOMAIN ssCameras \cup ids |->
        IF id \notin ids THEN ssCameras[id]
        ELSE [name |-> NameOf(id),
              timer |-> IF id \in DOMAIN ssCameras THEN ssCameras[id].timer ELSE "zero"]]

GetList(sid) == {ssCameras} \cup IF sid = {} THEN {} ELSE {Listed(list) : list \in Lists}

\* cmd_set_auth and cmd_set_url: the new settings are there before SS_api_logout, which sends
\* the session to the new station and forgets it.
Settings_KeepSession(settings) ==
  /\ ssSettings' = settings
  /\ IF ssStarted
     THEN /\ ssSid' \in LoggedIn(ssSid, settings)
          /\ ssAsked' = Asked("info", ssSid', settings)
     ELSE UNCHANGED ssSid /\ ssAsked' = {}

Settings(settings) ==
  /\ ssSettings' = settings
  /\ IF ssStarted
     THEN /\ ssSid' \in LoggedIn({}, settings)
          /\ ssAsked' = Asked("logout", ssSid, settings) \cup Asked("info", ssSid', settings)
     ELSE UNCHANGED ssSid /\ ssAsked' = {}

Configured ==
  /\ ~ssCrashed /\ \E settings \in StationSettings : Settings(settings)
  /\ UNCHANGED <<ssStarted, ssCameras, ssKeepers, ssStranger, ssCrashed>>

\* device_start: only the cameras the station lists by now get a timer, or -1 when the
\* pump is full.
StartDevice ==
  /\ ~ssStarted /\ ssStarted' = TRUE
  /\ ssSid' \in LoggedIn(ssSid, ssSettings)
  /\ ssAsked' = Asked("info", ssSid', ssSettings) \cup Asked("list", ssSid', ssSettings)
  /\ \E cameras \in GetList(ssSid') :
       ssCameras' \in {[id \in DOMAIN cameras |-> [cameras[id] EXCEPT !.timer = timer]] :
                         timer \in {"stopped", "none"}}
  /\ UNCHANGED <<ssSettings, ssKeepers, ssStranger, ssCrashed>>

\* GetCameraList logs in only while the table is empty.
GetCameraList ==
  /\ ssStarted /\ ~ssCrashed
  /\ ssSid' \in IF ssCameras = << >> THEN LoggedIn(ssSid, ssSettings) ELSE {ssSid}
  /\ ssAsked' = Asked("list", ssSid', ssSettings)
  /\ ssCameras' \in GetList(ssSid')
  /\ UNCHANGED <<ssSettings, ssStarted, ssKeepers, ssStranger, ssCrashed>>

-----------------------------------------------------------------------------
\* get_camera_id finds the camera by its name; with several, any may be the last.
KeepersAfter(key, id) ==
  LET hits == {i \in DOMAIN ssCameras : ssCameras[i].name = key.name}
  IN IF id # NoCamera THEN {id} ELSE IF hits = {} THEN {NoCamera} ELSE hits

\* process_motion_events_response, for an answer that counts the events of some cameras.
Counted(counts, finds) ==
  [key \in DOMAIN ssKeepers \cup DOMAIN counts |->
     LET keeper == IF key \in DOMAIN ssKeepers THEN ssKeepers[key]
                   ELSE [camera |-> NoCamera, count |-> 0, old |-> 0, active |-> FALSE]
     IN IF key \in DOMAIN counts
        THEN [keeper EXCEPT !.count = counts[key], !.camera = finds[key]] ELSE keeper]

Camera(key) == IF key \in DOMAIN ssKeepers THEN ssKeepers[key].camera ELSE NoCamera

Replies == {<< >>} \cup IF ssSid = {} THEN {}
                        ELSE UNION {[keys -> 1 .. MaxEvents] : keys \in SUBSET StationCameras}

\* process_motion_event_table starts the timers of the cameras with more events than in the
\* last answer.
TimersStarted(fresh, keepers) ==
  {id \in {keepers[key].camera : key \in fresh} : ssCameras[id].timer \in {"stopped", "runs"}}

\* timer_tick_handler
Poll ==
  /\ ~ssCrashed /\ ssAsked' = Asked("events", ssSid, ssSettings)
  /\ \E counts \in Replies :
     \E finds \in {f \in [DOMAIN counts -> Ids \cup {NoCamera}] :
                     \A key \in DOMAIN counts : f[key] \in KeepersAfter(key, Camera(key))} :
       LET keepers == Counted(counts, finds)
           fresh == {key \in DOMAIN keepers : keepers[key].count > keepers[key].old}
       IN /\ ssCrashed' = \E key \in fresh : keepers[key].camera \notin DOMAIN ssCameras
          /\ ssKeepers' = [key \in DOMAIN keepers |->
                             [keepers[key] EXCEPT !.old = keepers[key].count,
                                                  !.active = @ \/ key \in fresh]]
          /\ IF ssCrashed' THEN UNCHANGED <<ssCameras, ssStranger>>
             ELSE /\ ssCameras' = [id \in DOMAIN ssCameras |->
                                     IF id \in TimersStarted(fresh, keepers)
                                     THEN [ssCameras[id] EXCEPT !.timer = "runs"] ELSE ssCameras[id]]
                  /\ ssStranger' = (ssStranger \/ \E key \in fresh :
                                      ssCameras[keepers[key].camera].timer = "zero")
  /\ UNCHANGED <<ssSettings, ssStarted, ssSid>>

\* reset_active_events_handler
MotionReset_One(id) ==
  /\ ~ssCrashed /\ ssCameras[id].timer = "runs" /\ ssAsked' = {}
  /\ ssCameras' = [ssCameras EXCEPT ![id].timer = "stopped"]
  /\ \E key \in {k \in DOMAIN ssKeepers : ssKeepers[k].camera = id} :
       ssKeepers' = [ssKeepers EXCEPT ![key] = [camera |-> id, count |-> 0, old |-> 0, active |-> FALSE]]
  /\ UNCHANGED <<ssSettings, ssStarted, ssSid, ssStranger, ssCrashed>>

MotionReset(id) ==
  /\ ~ssCrashed /\ ssCameras[id].timer = "runs" /\ ssAsked' = {}
  /\ ssCameras' = [ssCameras EXCEPT ![id].timer = "stopped"]
  /\ ssKeepers' = [key \in DOMAIN ssKeepers |->
       IF ssKeepers[key].camera = id /\ ssKeepers[key].active
       THEN [camera |-> id, count |-> 0, old |-> 0, active |-> FALSE] ELSE ssKeepers[key]]
  /\ UNCHANGED <<ssSettings, ssStarted, ssSid, ssStranger, ssCrashed>>

SSNext == Configured \/ StartDevice \/ GetCameraList \/ Poll \/ \E id \in DOMAIN ssCameras : MotionReset(id)

SSSpec == SSInit /\ [][SSNext]_ssVars

-----------------------------------------------------------------------------
\* No session outlives its settings, although a login may fail at any time and nothing
\* repeats it; and no request but one is made with a session of other settings than those
\* in force.  The one is the logout of a changed account or station: it tells the new
\* station, and the old one is never told.
SessionCurrent ==
  /\ ssSid # {} => ssSid = {ssSettings}
  /\ \A request \in ssAsked : request.sid # {request.to} => request.what = "logout"

\* An active motion belongs to a camera whose timer will end it, whatever was renamed and
\* listed again since, unless the camera was not there when the device started or the
\* pump was full.
StationMotionEnds ==
  ~ssCrashed => \A key \in DOMAIN ssKeepers : ssKeepers[key].active =>
    /\ ssKeepers[key].camera \in DOMAIN ssCameras
    /\ ssCameras[ssKeepers[key].camera].timer # "stopped"
=============================================================================
