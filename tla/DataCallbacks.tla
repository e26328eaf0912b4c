---------------------------- MODULE DataCallbacks ----------------------------
(***************************************************************************)
(* How the engine comes to hear of changes (device_callbacks.c,            *)
(* data_callbacks.c): each time Z-Way reports the command class of a       *)
(* device, a listener is attached to its data holder, and the listener     *)
(* attaches itself to the holder's children as it hears of them.  A change *)
(* of a child is posted only by the listeners attached to it.              *)
(* Z-Way is modelled from how it is used: it calls a listener of a holder  *)
(* when a child is created or updated, and the controller, node 1, is left *)
(* out.                                                                    *)
(***************************************************************************)
EXTENDS Integers, Sequences

CONSTANTS
  HolderChildren,   \* what the data holder may contain
  MaxListeners,     \* bound: sensor_event_data_t of the holder
  MaxMissed         \* bound: changes that are counted as missed

ASSUME ListenersAssumption == MaxListeners \in Nat /\ MaxMissed \in Nat

VARIABLES
  zcHolder,      \* the data holder exists
  zcChildren,    \* its children
  zcNames,       \* the resolver's names: of the "node", of the "command"
  zcListeners    \* [name, added, watched, missed]: device_name, callback_added, the
                 \* children it is attached to, the changes it did not post

zcVars == <<zcHolder, zcChildren, zcNames, zcListeners>>

ZcInit == zcHolder = FALSE /\ zcChildren = {} /\ zcNames = {} /\ zcListeners = << >>

-----------------------------------------------------------------------------
\* device_added_callback names the node unless it, or this command, has a name.
DeviceAdded ==
  /\ zcNames' = IF zcNames = {} THEN {"node"} ELSE zcNames
  /\ UNCHANGED <<zcHolder, zcChildren, zcListeners>>

\* Z-Way creates and deletes holders; command_removed_callback only logs, and what the
\* listeners had is never freed.
HolderCreated ==
  /\ ~zcHolder /\ zcHolder' = TRUE
  /\ zcChildren' \in SUBSET HolderChildren
  /\ UNCHANGED <<zcNames, zcListeners>>

CommandRemoved ==
  /\ zcHolder /\ zcHolder' = FALSE
  /\ zcChildren' = {} /\ zcListeners' = << >>
  /\ UNCHANGED zcNames

\* command_added_callback
CommandAdded ==
  /\ zcHolder /\ Len(zcListeners) < MaxListeners
  /\ zcNames' = IF zcNames = {"node", "command"} THEN zcNames ELSE zcNames \cup {"command"}
  /\ zcListeners' = Append(zcListeners,
       [name |-> IF zcNames = {"node", "command"} THEN "node" ELSE "command",
        added |-> FALSE, watched |-> {}, missed |-> 0])
  /\ UNCHANGED <<zcHolder, zcChildren>>

\* "resolver" and "no resolver" (cli_resolver.c); a listener keeps the name it was given.
Renamed == zcNames' \in SUBSET {"node", "command"} /\ UNCHANGED <<zcHolder, zcChildren, zcListeners>>

-----------------------------------------------------------------------------
\* install_callback
InstallCallback(l, children) == [l EXCEPT !.watched = children, !.added = TRUE]

\* Mutant: callbacks are installed once and for all.
OnCreated_Once(l, children) == IF l.added THEN l ELSE InstallCallback(l, children)

\* data_change_event_callback for ChildCreated: on all children, whatever was installed.
OnCreated(l, children) == InstallCallback(l, children)

\* data_change_event_callback for ChildEvent|Updated
OnUpdated(l, children) == IF l.added THEN l ELSE InstallCallback(l, children)

ChildCreated(child) ==
  /\ zcHolder /\ child \notin zcChildren
  /\ zcChildren' = zcChildren \cup {child}
  /\ zcListeners' = [i \in DOMAIN zcListeners |-> OnCreated(zcListeners[i], zcChildren')]
  /\ UNCHANGED <<zcHolder, zcNames>>

\* value_change_event_callback posts the change for each listener attached to the child.
ValueChanged(l, child) ==
  IF child \in l.watched \/ l.missed = MaxMissed THEN l ELSE [l EXCEPT !.missed = @ + 1]

ChildUpdated(child) ==
  /\ zcHolder /\ child \in zcChildren
  /\ zcListeners' = [i \in DOMAIN zcListeners |->
       OnUpdated(ValueChanged(zcListeners[i], child), zcChildren)]
  /\ UNCHANGED <<zcHolder, zcChildren, zcNames>>

ZcNext ==
  \/ DeviceAdded \/ HolderCreated \/ CommandAdded \/ CommandRemoved \/ Renamed
  \/ \E child \in HolderChildren : ChildCreated(child) \/ ChildUpdated(child)

ZcSpec == ZcInit /\ [][ZcNext]_zcVars

-----------------------------------------------------------------------------
\* Whatever children come when, a listener misses at most one change: the first, if it
\* found the children there and heard of no other before (data_callbacks.c:140).
MissesAtMostOne ==
  \A i \in DOMAIN zcListeners :
    /\ zcListeners[i].missed <= 1
    /\ zcListeners[i].added => zcChildren \subseteq zcListeners[i].watched
=============================================================================
