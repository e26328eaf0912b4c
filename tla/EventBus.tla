------------------------------ MODULE EventBus -------------------------------
(***************************************************************************)
(* What the event pump promises to the code that posts events and to the   *)
(* code that registers handlers: a bounded first-in first-out backlog; the *)
(* event at its head is handed, once, to every handler that is subscribed  *)
(* to its id when the hand-over ends; a post is refused only while at      *)
(* least Capacity events wait.  How the backlog is stored, when            *)
(* subscriptions are purged and how the dispatcher is driven are not       *)
(* visible here.                                                           *)
(***************************************************************************)
EXTENDS Integers, Sequences, FiniteSets

CONSTANTS EventIds, Subscribers, Capacity, None

VARIABLES
  posted,      \* events posted, refused ones included; numbers the events
  backlog,     \* the events that wait, oldest first
  inflight,    \* the event being handed over, or None
  served,      \* the subscribers that got it
  subscribed   \* the live subscribers of each id

busVars == <<posted, backlog, inflight, served, subscribed>>

BusInit ==
  /\ posted = 0
  /\ backlog = <<>>
  /\ inflight = None
  /\ served = {}
  /\ subscribed = [id \in EventIds |-> {}]

Post(id) ==
  /\ posted' = posted + 1
  /\ Len(backlog) < 2 * Capacity
  /\ backlog' = Append(backlog, [id |-> id, data |-> posted + 1])
  /\ UNCHANGED <<inflight, served, subscribed>>

\* The event is lost, and nobody learns of it.
Refuse ==
  /\ posted' = posted + 1
  /\ Len(backlog) >= Capacity
  /\ UNCHANGED <<backlog, inflight, served, subscribed>>

Begin ==
  /\ inflight = None
  /\ backlog # <<>>
  /\ inflight' = Head(backlog)
  /\ backlog' = Tail(backlog)
  /\ UNCHANGED <<posted, served, subscribed>>

\* An event nobody subscribed to is dropped as its turn comes.
Discard ==
  /\ inflight = None
  /\ backlog # <<>>
  /\ subscribed[Head(backlog).id] = {}
  /\ backlog' = Tail(backlog)
  /\ UNCHANGED <<posted, inflight, served, subscribed>>

Deliver(r) ==
  /\ inflight # None
  /\ r \in subscribed[inflight.id] \ served
  /\ served' = served \cup {r}
  /\ UNCHANGED <<posted, backlog, inflight, subscribed>>

Done ==
  /\ inflight # None
  /\ subscribed[inflight.id] \subseteq served
  /\ inflight' = None
  /\ served' = {}
  /\ UNCHANGED <<posted, backlog, subscribed>>

Subscribe(id, r) ==
  /\ \A other \in EventIds : r \notin subscribed[other]
  /\ subscribed' = [subscribed EXCEPT ![id] = @ \cup {r}]
  /\ UNCHANGED <<posted, backlog, inflight, served>>

Unsubscribe(id, r) ==
  /\ r \in subscribed[id]
  /\ subscribed' = [subscribed EXCEPT ![id] = @ \ {r}]
  /\ UNCHANGED <<posted, backlog, inflight, served>>

BusNext ==
  \/ \E id \in EventIds : Post(id)
  \/ Refuse
  \/ Begin
  \/ Discard
  \/ \E r \in Subscribers : Deliver(r)
  \/ Done
  \/ \E id \in EventIds, r \in Subscribers : Subscribe(id, r) \/ Unsubscribe(id, r)

Bus == BusInit /\ [][BusNext]_busVars
=============================================================================
