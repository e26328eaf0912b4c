--------------------------- MODULE CommandClasses ---------------------------
(***************************************************************************)
(* The Z-Wave command classes (command_class.c).  A method sends a command,*)
(* reads what the library holds, or asks the device and waits: the answer  *)
(* is then read from what the library holds.  The wait is for any          *)
(* CommandDataReadyEvent, which the library's thread posts for each request*)
(* that succeeds or fails (EventDispatcher has the wait in detail).        *)
(* A request is known by its number; the library and the devices are       *)
(* modelled from how they are used.                                        *)
(***************************************************************************)
EXTENDS Integers, Sequences

CONSTANTS
  ZWaveDevices,   \* device_record_t: a command class of an instance of a node
  Called,         \* the methods that are called: <<class, method>>
  MaxRequests,    \* bound: requests
  MaxAsking       \* bound: methods that wait at once

ASSUME RequestsAssumption == MaxRequests \in Nat /\ MaxAsking \in Nat

VARIABLES
  ccHeld,      \* for each device, the last request whose answer the library holds
  ccPending,   \* the requests without an answer: [id, device]
  ccReady,     \* CommandDataReadyEvents posted and not taken
  ccWaits,     \* the methods that wait, innermost last: [id, device, found, alone]
  ccCount,     \* requests so far
  ccFailed,    \* history: the requests that failed
  ccResult     \* what the last method returned: [id, value, found, alone]

ccVars == <<ccHeld, ccPending, ccReady, ccWaits, ccCount, ccFailed, ccResult>>

-----------------------------------------------------------------------------
\* command_class_table
Table == [
  Basic |-> {"Get", "Set"},        SensorBinary |-> {"Get", "GetPath"},
  Battery |-> {"Get"},             Alarm |-> {"Get", "Event", "Set"},
  SwitchBinary |-> {"Get", "Set"}, Configuration |-> {"Get", "Set"},
  Indicator |-> {"Get", "Set"},    ManufacturerSpecific |-> {"Get"},
  SensorMultilevel |-> {"Get"},    Wakeup |-> {"Get", "Capabilities", "Sleep", "Set"},
  Association |-> {"Set", "Remove"}, CentralScene |-> {"CurrentScene", "KeyAttribute"},
  AlarmSensor |-> {"Get"},         NodeNaming |-> {"GetName", "GetLocation", "SetName", "SetLocation"},
  Barrier |-> {"Get", "Set"},      SwitchMultilevel |-> {"Get", "Set"},
  DoorLock |-> {"Get", "Set"},     Meter |-> {"Get", "Reset"}]

Methods == UNION {{<<class, method>> : method \in Table[class]} : class \in DOMAIN Table}

\* The methods that request and wait.
Asking == {<<"SwitchBinary", "Get">>, <<"Indicator", "Get">>,
           <<"NodeNaming", "GetName">>, <<"NodeNaming", "GetLocation">>}

\* The methods that send a command without callbacks, and return whether it was queued.
Sending ==
  {m \in Methods : m[2] \in {"Set", "SetName", "SetLocation", "Sleep", "Remove", "Reset"}}
    \cup {<<"Meter", "Get">>}

\* The others return what the library holds.
Reading == Methods \ (Asking \cup Sending)

NoResult == [id |-> 0, value |-> 0, found |-> FALSE, alone |-> FALSE]

CcInit ==
  /\ ccHeld = [device \in ZWaveDevices |-> 0] /\ ccPending = {} /\ ccReady = 0
  /\ ccWaits = << >> /\ ccCount = 0 /\ ccFailed = {} /\ ccResult = NoResult

-----------------------------------------------------------------------------
\* command_class_read_data
Held(device) == ccHeld[device]

ReadHeld(method, device) ==
  /\ method \in Reading
  /\ ccResult' = [NoResult EXCEPT !.value = Held(device)]
  /\ UNCHANGED <<ccHeld, ccPending, ccReady, ccWaits, ccCount, ccFailed>>

Send(method) ==
  /\ method \in Sending
  /\ ccResult' = NoResult
  /\ UNCHANGED <<ccHeld, ccPending, ccReady, ccWaits, ccCount, ccFailed>>

\* Up to event_dispatcher_wait.  What the loop of another wait runs may ask again.
Ask(method, device) ==
  /\ method \in Asking
  /\ Len(ccWaits) < MaxAsking /\ ccCount < MaxRequests
  /\ ccCount' = ccCount + 1
  /\ ccPending' = ccPending \cup {[id |-> ccCount', device |-> device]}
  /\ ccWaits' = Append([w \in DOMAIN ccWaits |-> [ccWaits[w] EXCEPT !.alone = FALSE]],
       [id |-> ccCount', device |-> device, found |-> FALSE,
        alone |-> ccWaits = << >> /\ ccPending = {} /\ ccReady = 0])
  /\ UNCHANGED <<ccHeld, ccReady, ccFailed, ccResult>>

\* command_class_exec
Exec(device) == \E method \in Called : ReadHeld(method, device) \/ Send(method) \/ Ask(method, device)

-----------------------------------------------------------------------------
\* Mutant: the event is posted when the request has been sent.
Succeeds_OnSend(r) ==
  /\ ccReady' = ccReady + 1
  /\ ccPending' = ccPending \ {r}
  /\ UNCHANGED <<ccHeld, ccWaits, ccCount, ccFailed, ccResult>>

\* zway_data_read_success_cb: called when the answer is in the data the library holds.
Succeeds(r) ==
  /\ ccHeld' = [ccHeld EXCEPT ![r.device] = r.id]
  /\ ccReady' = ccReady + 1
  /\ ccPending' = ccPending \ {r}
  /\ UNCHANGED <<ccWaits, ccCount, ccFailed, ccResult>>

\* zway_data_read_fail_cb posts the same event.
Fails(r) ==
  /\ ccFailed' = ccFailed \cup {r.id}
  /\ ccReady' = ccReady + 1
  /\ ccPending' = ccPending \ {r}
  /\ UNCHANGED <<ccHeld, ccWaits, ccCount, ccResult>>

\* Either callback with a functionId of zero posts nothing.
Ignored(r) ==
  /\ ccPending' = ccPending \ {r}
  /\ UNCHANGED <<ccHeld, ccReady, ccWaits, ccCount, ccFailed, ccResult>>

-----------------------------------------------------------------------------
\* The dispatcher takes the event: every wait has a handler for it.
TakeReady ==
  /\ ccReady > 0 /\ ccReady' = ccReady - 1
  /\ ccWaits' = [w \in DOMAIN ccWaits |-> [ccWaits[w] EXCEPT !.found = TRUE]]
  /\ UNCHANGED <<ccHeld, ccPending, ccCount, ccFailed, ccResult>>

\* The innermost wait ends, when somebody detached or after 2000 ms, and its method reads.
\* Only a log tells the two apart.
WaitOver ==
  LET last == ccWaits[Len(ccWaits)]
  IN /\ ccWaits # << >>
     /\ ccWaits' = SubSeq(ccWaits, 1, Len(ccWaits) - 1)
     /\ ccResult' = [id |-> last.id, value |-> Held(last.device),
                     found |-> last.found, alone |-> last.alone]
     /\ UNCHANGED <<ccHeld, ccPending, ccReady, ccCount, ccFailed>>

CcNext ==
  \/ \E device \in ZWaveDevices : Exec(device)
  \/ \E r \in ccPending : Succeeds(r) \/ Fails(r) \/ Ignored(r)
  \/ TakeReady
  \/ WaitOver

CcSpec == CcInit /\ [][CcNext]_ccVars

-----------------------------------------------------------------------------
\* A method whose wait ended with an event, and that shared it with no other request,
\* earlier or nested, returns what the device answered to it, unless the request failed
\* (command_class.c:405).
LoneAnswerFresh ==
  ccResult.found /\ ccResult.alone =>
    ccResult.value = ccResult.id \/ ccResult.id \in ccFailed
=============================================================================
