--------------------------- MODULE VirtualDevices ---------------------------
(***************************************************************************)
(* The devices under src/vdev that are configured by name and instance     *)
(* (BlinkCamera, Button, Sensor), the security system, and the table of    *)
(* libZaeUtil/resolver.c in which they are found.                          *)
(*                                                                         *)
(* A camera ends a motion with a timer of its own, made for every report   *)
(* and never given back.  The timers are those of TimerPump: here a        *)
(* sequence of entries, each of which may expire at any time while started.*)
(***************************************************************************)
EXTENDS ListWalk

CONSTANTS
  DeviceNames, DeviceInstances,
  UserNames,     \* names that the "resolver" commands give
  PumpEntries,   \* entries of the timer pump left for the cameras
  MaxAdded       \* bound: devices added in a behaviour

ASSUME DeviceAssumption == PumpEntries \in Nat /\ MaxAdded \in Nat

VARIABLES
  devEntries,   \* blink_camera_list, button_list, sensor_list: [serial, name, instance, on, timed]
  devNames,     \* record_table: the id each name stands for
  devTimers,    \* the cameras' timers: [serial, instance] of the context, and if it runs
  devAdded,     \* devices added so far
  devLost       \* a list entry was used after it was freed

devVars == <<devEntries, devNames, devTimers, devAdded, devLost>>

Classes == {"BlinkCamera", "Button", "Sensor"}
Commands == {"level", "model"}   \* 48, 0x25 or 0x30, and 0x72
Id(class, instance, command) == [node |-> class, instance |-> instance, command |-> command]
Name(name, instance, class, command) ==   \* "%s.%d.%d"
  <<name, instance, IF command = "model" THEN command ELSE class>>

-----------------------------------------------------------------------------
\* resolver_remove_entry, and resolver_add_entry: a name stands for one id, an id has one
\* name, and the last to come wins.
RemoveName(table, name) == [n \in DOMAIN table \ {name} |-> table[n]]

AddName_KeepsOld(table, name, id) ==
  [n \in DOMAIN table \cup {name} |-> IF n = name THEN id ELSE table[n]]

AddName(table, name, id) ==
  LET others == {n \in DOMAIN table \ {name} : table[n] # id}
  IN [n \in others \cup {name} |-> IF n = name THEN id ELSE table[n]]

\* device_start of the security system; nothing else is configured yet.
DeviceInit ==
  /\ devEntries = [class \in Classes |-> << >>]
  /\ devNames = [n \in {Name("SecuritySystem", 0, "SecuritySystem", c) : c \in Commands} |->
                   Id("SecuritySystem", 0, IF n[3] = "model" THEN "model" ELSE "level")]
  /\ devTimers = << >> /\ devAdded = 0 /\ devLost = FALSE

Alive(serial) == \E class \in Classes : \E i \in DOMAIN devEntries[class] :
                   devEntries[class][i].serial = serial

\* The first entry with that instance or name.
WithInstance(class, instance) ==
  {i \in DOMAIN devEntries[class] : devEntries[class][i].instance = instance}
OfInstance(class, instance) == FirstOf(devEntries[class], WithInstance(class, instance))
OfName(class, name) ==
  FirstOf(devEntries[class], {i \in DOMAIN devEntries[class] : devEntries[class][i].name = name})

-----------------------------------------------------------------------------
\* "instance INT name WORD": nothing is checked against the entries there are.
AddDevice(class, name, instance) ==
  LET named == AddName(devNames, Name(name, instance, class, "level"), Id(class, instance, "level"))
  IN /\ ~devLost /\ devAdded < MaxAdded /\ devAdded' = devAdded + 1
     /\ devEntries' = [devEntries EXCEPT ![class] =
          Append(@, [serial |-> devAdded', name |-> name, instance |-> instance,
                     on |-> FALSE, timed |-> TRUE])]
     /\ devNames' = AddName(named, Name(name, instance, class, "model"), Id(class, instance, "model"))
     /\ UNCHANGED <<devTimers, devLost>>

\* The names that a deletion takes back: sensor_del removes the first one twice.
NamesOf(class, entry) ==
  {Name(entry.name, entry.instance, class, command) :
     command \in IF class = "Sensor" THEN {"level"} ELSE Commands}

\* "no instance INT"
DelDevice(class, instance) ==
  /\ ~devLost
  /\ devEntries' = [devEntries EXCEPT ![class] = WithoutFirst(@, WithInstance(class, instance))]
  /\ LET gone == UNION {NamesOf(class, e) : e \in OfInstance(class, instance)}
     IN devNames' = [n \in DOMAIN devNames \ gone |-> devNames[n]]
  /\ UNCHANGED <<devTimers, devAdded, devLost>>

\* The "resolver" commands give an id a name of the user's, or take any name back.
NameDevice(name, id) ==
  /\ ~devLost /\ devNames' = AddName(devNames, name, id)
  /\ UNCHANGED <<devEntries, devTimers, devAdded, devLost>>

UnnameDevice(name) ==
  /\ ~devLost /\ devNames' = RemoveName(devNames, name)
  /\ UNCHANGED <<devEntries, devTimers, devAdded, devLost>>

\* A state is written to the first entry with the instance; the events that tell of it,
\* VdevDataChangeEvent and the one of the event log, are left out.
SetOn(class, instance, on) ==
  LET hits == WithInstance(class, instance)
  IN devEntries' = IF hits = {} THEN devEntries
                   ELSE [devEntries EXCEPT ![class][Min(hits)].on = on,
                                           ![class][Min(hits)].timed = @ \/ ~on]

\* "Set" of a button or sensor, through the record of a name.
SetDevice(name, on) ==
  LET id == devNames[name]
  IN /\ ~devLost /\ id.node \in {"Button", "Sensor"} /\ id.command = "level"
     /\ SetOn(id.node, id.instance, on)
     /\ UNCHANGED <<devNames, devTimers, devAdded, devLost>>

\* MotionDetected: a report of an end does nothing.
Timed_NotStarted(entry) ==
  LET timer == [serial |-> entry.serial, instance |-> entry.instance, runs |-> FALSE]
  IN devTimers' = IF Len(devTimers) < PumpEntries THEN Append(devTimers, timer) ELSE devTimers

Timed(entry) ==
  LET timer == [serial |-> entry.serial, instance |-> entry.instance, runs |-> TRUE]
  IN devTimers' = IF Len(devTimers) < PumpEntries THEN Append(devTimers, timer) ELSE devTimers

MotionDetected(name) ==
  /\ ~devLost
  /\ \E entry \in OfName("BlinkCamera", name) :
       LET first == Min(WithInstance("BlinkCamera", entry.instance))
       IN /\ Timed(entry)
          /\ devEntries' = [devEntries EXCEPT
               !["BlinkCamera"][first].on = TRUE,
               !["BlinkCamera"][first].timed = Len(devTimers) < PumpEntries]
  /\ UNCHANGED <<devNames, devAdded, devLost>>

\* on_motion_timeout.  The entry may be freed: then its name is garbage, and its instance
\* may still be there or not.
MotionTimeout(k) ==
  /\ ~devLost /\ devTimers[k].runs
  /\ devTimers' = [devTimers EXCEPT ![k].runs = FALSE]
  /\ \/ SetOn("BlinkCamera", devTimers[k].instance, FALSE) /\ devLost' = FALSE
     \/ ~Alive(devTimers[k].serial) /\ devLost' = TRUE /\ UNCHANGED devEntries
  /\ UNCHANGED <<devNames, devAdded>>

DeviceNext ==
  \/ \E class \in Classes, instance \in DeviceInstances :
       DelDevice(class, instance) \/ \E name \in DeviceNames : AddDevice(class, name, instance)
  \/ \E name \in UserNames, id \in {devNames[n] : n \in DOMAIN devNames} : NameDevice(name, id)
  \/ \E name \in DOMAIN devNames : UnnameDevice(name)
  \/ \E on \in BOOLEAN, name \in DOMAIN devNames : SetDevice(name, on)
  \/ \E name \in DeviceNames : MotionDetected(name)
  \/ \E k \in DOMAIN devTimers : MotionTimeout(k)

DeviceSpec == DeviceInit /\ [][DeviceNext]_devVars

-----------------------------------------------------------------------------
\* What a name resolves to has an entry behind it, whatever was added twice, taken over,
\* renamed and deleted, except the model name that a sensor leaves behind and a name
\* that the user gave; and no id has two names.
NamesResolve ==
  /\ \A n \in DOMAIN devNames :
       \/ n \in UserNames \/ devNames[n].node = "SecuritySystem"
       \/ devNames[n].node = "Sensor" /\ devNames[n].command = "model"
       \/ \E i \in DOMAIN devEntries[devNames[n].node] :
            LET entry == devEntries[devNames[n].node][i]
            IN n = Name(entry.name, entry.instance, devNames[n].node, devNames[n].command)
  /\ \A m, n \in DOMAIN devNames : devNames[m] = devNames[n] => m = n

\* A camera that reports motion has a timer that will end it, with an entry that still
\* exists, unless the pump was full at the last report.
MotionEnds ==
  \A i \in DOMAIN devEntries["BlinkCamera"] :
    LET entry == devEntries["BlinkCamera"][i]
    IN entry.on /\ entry.timed =>
         \E k \in DOMAIN devTimers :
           /\ devTimers[k].runs /\ devTimers[k].instance = entry.instance
           /\ Alive(devTimers[k].serial)
=============================================================================
