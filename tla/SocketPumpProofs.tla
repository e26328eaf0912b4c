-------------------------- MODULE SocketPumpProofs ---------------------------
(***************************************************************************)
(* Proofs about SocketPump, for tables of any size, any number of          *)
(* descriptors and sessions, and polls nested to any depth.                *)
(***************************************************************************)
EXTENDS SocketPump, TLAPS

USE LimitsAssumption DEF LimitsAssumption

TypeOK ==
  /\ table \in [Index -> Entry]
  /\ free \in Index
  /\ vty \in [Sessions -> Vty]
  /\ peer \in [Sessions -> {"quiet", "talking", "gone"}]
  /\ again \in BOOLEAN
  /\ refused \in SUBSET Sessions
  /\ frame \in [1 .. MaxDepth -> Frame]
  /\ depth \in 0 .. MaxDepth
  /\ dangling \in BOOLEAN

\* Who has which descriptor, and whose entry is where.
OwnDescriptors ==
  /\ \A s \in Alive : vty[s].fd # Server
  /\ \A s, t \in Alive : s # t /\ vty[s].fd = vty[t].fd => vty[s].fd = NoFd

ServerFirst == table[1].fd = Server /\ table[1].sess = Server

EntriesUsed ==
  \A k \in InUse \ {1} :
    /\ table[k].sess \in Sessions /\ vty[table[k].sess].state # "none"
    /\ table[k].fd = NoFd /\ table[k].sess \in Alive => vty[table[k].sess].fd = NoFd

Structure == OwnDescriptors /\ ServerFirst /\ EntriesUsed /\ EntriesMatch /\ NoneForgotten

\* What is noted in the entries: the session an entry will free is its own, unless
\* neither has a descriptor, and poll() reports nothing for those.
Drops ==
  \A k \in Index : table[k].drop # Server =>
    /\ k \in InUse \ {1} /\ vty[table[k].drop].state # "none"
    /\ Open(k) => table[k].drop = table[k].sess
    /\ ~Open(k) /\ table[k].drop \in Alive => vty[table[k].drop].fd = NoFd

Unopened == \A k \in Index : k # 1 /\ ~Open(k) => table[k].revents = {}

Marks == Drops /\ Unopened /\ WriteInterest

\* Where the active polls are.  All but the innermost wait inside a command.
Frames ==
  /\ \A k \in 1 .. depth : frame[k].at # "scan" => frame[k].i \in Index
  /\ \A k \in 1 .. depth - 1 : frame[k].at = "command" /\ frame[k].nested

Handling ==
  /\ Running("greet") => Top.sess \in Alive
  /\ Running("read") => Top.sess \in Alive \cup {Server}
  /\ Running("command") => Top.nested \/ Top.sess \in Alive

Lost ==
  \/ Running("command") /\ Top.sess \notin Alive
  \/ Leaving /\ Here.drop # Server /\ Here.drop \notin Alive

Stopped == dangling => Lost

IInv == TypeOK /\ Structure /\ Marks /\ Frames /\ Handling /\ Stopped

-----------------------------------------------------------------------------
LEMMA Numbers ==
  /\ 1 \in Index /\ Server \in Fds /\ NoFd \in Fds /\ NoFd # Server
  /\ Server \notin Sessions
  /\ \A n \in 1 .. MaxFds : n \in Fds /\ n # NoFd /\ n # Server
  BY DEF Index, Server, Fds, NoFd, Sessions

LEMMA InitInv == Init => IInv
<1> SUFFICES ASSUME Init PROVE IInv
  OBVIOUS
<1>1. Zeroed \in Entry /\ NoVty \in Vty /\ NewFrame \in Frame
  BY Numbers DEF Zeroed, NoVty, NewFrame, Entry, Vty, Frame
<1>2. TypeOK
  <2>1. table \in [Index -> Entry] /\ vty \in [Sessions -> Vty]
    BY <1>1 DEF Init
  <2>2. frame \in [1 .. MaxDepth -> Frame] /\ depth \in 0 .. MaxDepth
    BY <1>1 DEF Init
  <2>3. free \in Index /\ peer \in [Sessions -> {"quiet", "talking", "gone"}]
    BY Numbers DEF Init
  <2> QED
    BY <2>1, <2>2, <2>3 DEF Init, TypeOK
<1>3. Alive = {} /\ InUse = {1}
  BY DEF Init, Alive, InUse, NoVty
<1>4. Structure /\ Marks
  BY <1>3, Numbers DEF Init, Structure, OwnDescriptors, ServerFirst, EntriesUsed, EntriesMatch,
     NoneForgotten, Marks, Drops, Unopened, WriteInterest, Open, Zeroed
<1>5. Frames /\ Handling /\ Stopped
  BY DEF Init, Frames, Handling, Stopped, Running
<1> QED
  BY <1>2, <1>4, <1>5 DEF IInv

\* An alive session with a descriptor is found under it, and no other is.
LEMMA FoundIsOwn ==
  ASSUME TypeOK, Structure, NEW s \in Alive, NEW k \in Index
  PROVE  /\ k \in FirstWith(vty[s].fd) => k \in InUse \ {1} /\ table[k].fd = vty[s].fd
         /\ Open(k) /\ table[k].sess = s => k \in FirstWith(vty[s].fd)
         /\ vty[s].fd # NoFd /\ k \in FirstWith(vty[s].fd) => Open(k) /\ table[k].sess = s
<1> DEFINE n == vty[s].fd
<1>1. n # Server /\ s \in Sessions
  BY DEF Structure, OwnDescriptors, Alive
<1>2. ASSUME k \in FirstWith(n)
      PROVE  /\ k \in InUse \ {1} /\ table[k].fd = n
             /\ n # NoFd => Open(k) /\ table[k].sess = s
  <2>1. k \in InUse \ {1} /\ table[k].fd = n
    BY <1>1, <1>2 DEF FirstWith, Structure, ServerFirst
  <2>2. ASSUME n # NoFd PROVE Open(k) /\ table[k].sess = s
    BY <2>1, <2>2 DEF Open, Structure, EntriesMatch, OwnDescriptors
  <2> QED
    BY <2>1, <2>2
<1>3. ASSUME Open(k), table[k].sess = s PROVE k \in FirstWith(n)
  <2>1. k \in InUse /\ table[k].fd = n /\ n # NoFd
    BY <1>3 DEF Open, Structure, EntriesMatch
  <2>2. ASSUME NEW j \in 1 .. k - 1 PROVE table[j].fd # n
    <3>1. j \in InUse /\ j # k
      BY <2>1 DEF InUse, TypeOK, Index
    <3> QED
      BY <2>1, <3>1 DEF Structure, EntriesMatch
  <2> QED
    BY <2>1, <2>2 DEF FirstWith
<1> QED
  BY <1>2, <1>3

-----------------------------------------------------------------------------
\* A step that leaves every entry its descriptor and its session, every session its
\* descriptor, and nobody's subscription forgotten.
SessionsKept ==
  \A s \in Sessions : /\ vty'[s].state = vty[s].state /\ vty'[s].fd = vty[s].fd
                      /\ vty'[s].sse = "no" => vty[s].sse = "no"

Kept ==
  /\ free' = free /\ refused' = refused
  /\ \A k \in Index : table'[k].fd = table[k].fd /\ table'[k].sess = table[k].sess
  /\ SessionsKept

LEMMA KeptShape ==
  ASSUME TypeOK, Kept
  PROVE  /\ Alive' = Alive /\ InUse' = InUse
         /\ \A k \in Index : Open(k)' = Open(k)
<1>1. Alive' = Alive /\ InUse' = InUse
  BY DEF Kept, SessionsKept, Alive, InUse
<1> QED
  BY <1>1 DEF Kept, SessionsKept, Open

LEMMA KeptStructure ==
  ASSUME TypeOK, Structure, Kept
  PROVE  Structure'
<1>1. /\ Alive' = Alive /\ InUse' = InUse /\ InUse \subseteq Index /\ Alive \subseteq Sessions
      /\ \A k \in Index : Open(k)' = Open(k)
  BY KeptShape DEF InUse, Index, TypeOK, Alive
<1>2. OwnDescriptors'
  BY <1>1 DEF Kept, SessionsKept, Structure, OwnDescriptors
<1>3. ServerFirst'
  BY Numbers DEF Kept, SessionsKept, Structure, ServerFirst
<1>4. EntriesUsed'
  BY <1>1 DEF Kept, SessionsKept, Structure, EntriesUsed
<1>5. EntriesMatch'
  BY <1>1 DEF Kept, SessionsKept, Structure, EntriesMatch
<1>6. NoneForgotten'
  BY <1>1 DEF Kept, SessionsKept, Structure, NoneForgotten, Listed
<1> QED
  BY <1>2, <1>3, <1>4, <1>5, <1>6 DEF Structure

\* Entries and sessions change in what is noted in them only.
Types == table' \in [Index -> Entry] /\ vty' \in [Sessions -> Vty] /\ again' \in BOOLEAN

SamePending == \A s \in Sessions : vty'[s].pending = vty[s].pending

LEMMA AliveVty ==
  ASSUME TypeOK, NEW s \in Alive
  PROVE  s \in Sessions /\ vty[s] \in Vty /\ s # Server /\ vty[s].state = "live"
  BY Numbers DEF TypeOK, Alive

\* What a marked entry's drop must satisfy, spelled out for one entry.
DropFits(k, s) ==
  /\ k \in InUse \ {1} /\ vty[s].state # "none"
  /\ Open(k) => s = table[k].sess
  /\ ~Open(k) /\ s \in Alive => vty[s].fd = NoFd

LEMMA FoundFits ==
  ASSUME TypeOK, Structure, NEW s \in Alive, NEW k \in Index, k \in FirstWith(vty[s].fd)
  PROVE  DropFits(k, s)
<1>1. k \in InUse \ {1} /\ table[k].fd = vty[s].fd
  BY FoundIsOwn
<1>2. CASE vty[s].fd = NoFd
  BY <1>1, <1>2, AliveVty DEF DropFits, Open
<1>3. CASE vty[s].fd # NoFd
  BY <1>1, <1>3, AliveVty, FoundIsOwn DEF DropFits
<1> QED
  BY <1>2, <1>3

LEMMA DropsKept ==
  ASSUME TypeOK, Structure, Drops, Kept,
         \A k \in Index : \/ table'[k].drop = table[k].drop
                         \/ \E s \in Alive : k \in FirstWith(vty[s].fd) /\ table'[k].drop = s
  PROVE  Drops'
<1> SUFFICES ASSUME NEW k \in Index, table'[k].drop # Server
             PROVE  DropFits(k, table[k].drop)'
  BY DEF Drops, DropFits
<1> DEFINE d == table'[k].drop
<1>1. DropFits(k, d) /\ d \in Sessions \cup {Server}
  <2>1. CASE d = table[k].drop
    BY <2>1 DEF Drops, DropFits, TypeOK, Entry
  <2>2. CASE \E s \in Alive : k \in FirstWith(vty[s].fd) /\ d = s
    BY <2>2, FoundFits, AliveVty
  <2> QED
    BY <2>1, <2>2
<1>2. d \in Sessions
  BY <1>1
<1> HIDE DEF d
<1>3. /\ k \in (InUse \ {1})' /\ vty'[d].state # "none"
      /\ Open(k)' => d = table'[k].sess
      /\ ~Open(k)' /\ d \in Alive' => vty'[d].fd = NoFd
  BY <1>1, <1>2, KeptShape DEF DropFits, Kept, SessionsKept
<1> QED
  BY <1>3 DEF DropFits, d

LEMMA UnopenedKept ==
  ASSUME TypeOK, Unopened, Kept, \A k \in Index : table'[k].revents = table[k].revents
  PROVE  Unopened'
  BY KeptShape DEF Unopened

LEMMA SilentMarks ==
  ASSUME TypeOK, Structure, Marks, Kept, SamePending, UNCHANGED table
  PROVE  Marks'
<1>1. Drops'
  BY DropsKept DEF Marks
<1>2. Unopened'
  BY UnopenedKept DEF Marks
<1>3. WriteInterest'
  <2> SUFFICES ASSUME NEW k \in Index, Open(k)
               PROVE  /\ table[k].out => vty'[table[k].sess].pending
                      /\ vty'[table[k].sess].pending /\ table[k].drop = Server => table[k].out
    BY KeptShape DEF WriteInterest
  <2>1. table[k].sess \in Sessions
    BY DEF Open, Structure, EntriesMatch, Alive
  <2> QED
    BY <2>1 DEF Marks, WriteInterest, SamePending
<1> QED
  BY <1>1, <1>2, <1>3 DEF Marks

LEMMA UnregisterMarks ==
  ASSUME TypeOK, Structure, Marks, UNCHANGED <<free, refused>>, NEW s \in Alive,
         SamePending, SessionsKept, table' = Unregistered(s)
  PROVE  Kept /\ Marks' /\ table' \in [Index -> Entry]
<1>1. /\ s \in Sessions /\ s # Server
      /\ \A k \in Index : table[k] \in Entry
  BY AliveVty DEF TypeOK
<1>2. \A k \in Index :
        /\ table'[k].fd = table[k].fd /\ table'[k].sess = table[k].sess
        /\ table'[k].revents = table[k].revents /\ table'[k].out = table[k].out
        /\ k \in FirstWith(vty[s].fd) => table'[k].drop = s
        /\ k \notin FirstWith(vty[s].fd) => table'[k] = table[k]
  BY <1>1 DEF Unregistered, Entry
<1>6. table' \in [Index -> Entry]
  BY <1>1 DEF Unregistered, Entry
<1>3. Kept
  <2>1. \A k \in Index : table'[k].fd = table[k].fd /\ table'[k].sess = table[k].sess
    BY <1>2
  <2>2. free' = free /\ refused' = refused
    OBVIOUS
  <2> QED
    BY <2>1, <2>2 DEF Kept
<1>4. Drops' /\ Unopened'
  <2>1. \A k \in Index : \/ table'[k].drop = table[k].drop
                         \/ k \in FirstWith(vty[s].fd) /\ table'[k].drop = s
    BY <1>2
  <2> QED
    BY <1>2, <1>3, <2>1, DropsKept, UnopenedKept DEF Marks
<1>5. WriteInterest'
  <2> SUFFICES ASSUME NEW k \in Index, Open(k)
               PROVE  /\ table[k].out => vty'[table[k].sess].pending
                      /\ vty'[table[k].sess].pending /\ table'[k].drop = Server => table[k].out
    BY <1>2, <1>3, KeptShape DEF WriteInterest
  <2>1. /\ table'[k].drop = Server => table[k].drop = Server
        /\ table[k].sess \in Sessions
    BY <1>1, <1>2 DEF Open, Structure, EntriesMatch, Alive
  <2> QED
    BY <2>1 DEF Marks, WriteInterest, SamePending
<1> QED
  BY <1>3, <1>4, <1>5, <1>6 DEF Marks

\* One of the outcomes of a send.
Sends(s, ends, sse) == SendAll(s, ends, sse) \/ SendPart(s, ends, sse) \/ SendFails(s, sse)

LEMMA SendMarks ==
  ASSUME TypeOK, Structure, Marks, UNCHANGED <<free, refused>>, NEW s \in Alive,
         NEW ends \in BOOLEAN, NEW sse \in {"no", "on", "off"}, sse = "no" => vty[s].sse = "no",
         Sends(s, ends, sse)
  PROVE  Kept /\ Marks' /\ Types
<1> DEFINE found == FirstWith(vty[s].fd)
<1>1. /\ s \in Sessions /\ s # Server /\ vty[s] \in Vty
      /\ \A k \in Index : table[k] \in Entry
  BY AliveVty DEF TypeOK
<1>2. PICK rest \in BOOLEAN, out \in BOOLEAN, gone \in BOOLEAN :
        /\ vty' = [vty EXCEPT ![s].pending = rest, ![s].sse = sse]
        /\ table' = Flushed(s, out, gone)
        /\ out => rest
        /\ gone \/ (out = rest /\ vty[s].fd # NoFd)
  <2>1. CASE SendAll(s, ends, sse)
    BY <2>1 DEF SendAll
  <2>2. CASE SendPart(s, ends, sse)
    BY <2>2 DEF SendPart
  <2>3. CASE SendFails(s, sse)
    <3>1. /\ vty' = [vty EXCEPT ![s].pending = TRUE, ![s].sse = sse]
          /\ table' = Flushed(s, FALSE, TRUE)
      BY <2>3 DEF SendFails
    <3> QED
      BY <3>1
  <2> QED
    BY <2>1, <2>2, <2>3 DEF Sends
<1>3. /\ vty' \in [Sessions -> Vty]
      /\ \A t \in Sessions : /\ vty'[t].state = vty[t].state /\ vty'[t].fd = vty[t].fd
                             /\ vty'[t].sse = IF t = s THEN sse ELSE vty[t].sse
                             /\ vty'[t].pending = IF t = s THEN rest ELSE vty[t].pending
  BY <1>1, <1>2 DEF TypeOK, Vty
<1> DEFINE Noted(k) ==
             /\ table'[k] \in Entry
             /\ table'[k].fd = table[k].fd /\ table'[k].sess = table[k].sess
             /\ table'[k].revents = table[k].revents
             /\ k \notin found => table'[k] = table[k]
             /\ k \in found => /\ table'[k].out = out
                               /\ table'[k].drop = IF gone THEN s ELSE table[k].drop
<1>4. (\A k \in Index : Noted(k)) /\ table' \in [Index -> Entry]
  <2>1. table' = [k \in Index |->
                    IF k \in found
                      THEN [table[k] EXCEPT !.out = out, !.drop = IF gone THEN s ELSE @]
                      ELSE table[k]]
    BY <1>2 DEF Flushed
  <2>2. \A k \in Index : Noted(k)
    BY <1>1, <2>1 DEF Entry
  <2> QED
    BY <2>1, <2>2
<1>5. again' \in BOOLEAN
  BY DEF Sends, SendAll, SendPart, SendFails, TypeOK
<1>6. Kept
  BY <1>1, <1>3, <1>4 DEF Kept, SessionsKept
<1>7. Drops' /\ Unopened'
  BY <1>4, <1>6, DropsKept, UnopenedKept DEF Marks
<1>8. WriteInterest'
  <2> SUFFICES ASSUME NEW k \in Index, Open(k)
               PROVE  /\ table'[k].out => vty'[table[k].sess].pending
                      /\ vty'[table[k].sess].pending /\ table'[k].drop = Server => table'[k].out
    BY <1>4, <1>6, KeptShape DEF WriteInterest
  <2>1. CASE k \in found
    <3>1. CASE vty[s].fd = NoFd
      BY <2>1, <3>1 DEF FirstWith, Open
    <3>2. CASE vty[s].fd # NoFd
      <4>1. table[k].sess = s
        BY <2>1, <3>2, FoundIsOwn
      <4> QED
        BY <1>1, <1>2, <1>3, <1>4, <2>1, <4>1
    <3> QED
      BY <3>1, <3>2
  <2>2. CASE k \notin found
    <3>1. table[k].sess # s /\ table[k].sess \in Sessions
      BY <2>2, FoundIsOwn DEF Open, Structure, EntriesMatch, Alive
    <3> QED
      BY <1>3, <1>4, <2>2, <3>1 DEF Marks, WriteInterest
  <2> QED
    BY <2>1, <2>2
<1> QED
  BY <1>3, <1>4, <1>5, <1>6, <1>7, <1>8 DEF Marks, Types

LEMMA FlushMarks ==
  ASSUME TypeOK, Structure, Marks, UNCHANGED <<free, refused>>, NEW s \in Alive,
         NEW ends \in BOOLEAN, Send(s, ends)
  PROVE  Kept /\ Marks' /\ Types
<1> DEFINE sse == vty[s].sse
<1>1. sse \in {"no", "on", "off"} /\ Sends(s, ends, sse)
  BY AliveVty DEF Send, Sends, Vty
<1> HIDE DEF sse
<1> QED
  BY <1>1, SendMarks DEF sse

-----------------------------------------------------------------------------
\* No code runs on once the program is lost.
LEMMA ClientNotLost ==
  ASSUME InClient
  PROVE  ~Lost
  BY DEF InClient, Lost, Leaving, Running

LEMMA FramesKept ==
  ASSUME Frames, Handling, Alive' = Alive, UNCHANGED <<frame, depth>>
  PROVE  Frames' /\ Handling'
  BY DEF Frames, Handling, Running, Top

\* The handler of the innermost poll goes from one place to the next.
LEMMA FramesGoto ==
  ASSUME TypeOK, Frames, Handling, Alive' = Alive, UNCHANGED depth, depth > 0,
         Top.at \in {"greet", "read", "command", "write"},
         NEW at \in {"command", "write", "purge"}, Goto(at),
         at = "command" => Top.sess \in Alive
  PROVE  frame' \in [1 .. MaxDepth -> Frame] /\ Frames' /\ Handling'
<1>1. depth \in 1 .. MaxDepth /\ Top \in Frame /\ Top.i \in Index
  BY DEF TypeOK, Frames, Top
<1>2. /\ frame' \in [1 .. MaxDepth -> Frame]
      /\ \A k \in 1 .. depth - 1 : frame'[k] = frame[k]
      /\ Top' = [Top EXCEPT !.at = at]
  <2> DEFINE f == [Top EXCEPT !.at = at]
  <2>1. f \in Frame /\ frame' = [frame EXCEPT ![depth] = f]
    BY <1>1 DEF Goto, Top, Frame
  <2> HIDE DEF f
  <2>2. /\ frame' \in [1 .. MaxDepth -> Frame] /\ frame'[depth] = f
        /\ \A k \in 1 .. depth - 1 : frame'[k] = frame[k]
    BY <1>1, <2>1 DEF TypeOK
  <2> QED
    BY <2>2 DEF f, Top
<1>3. Top'.at = at /\ Top'.i = Top.i /\ Top'.sess = Top.sess
  BY <1>1, <1>2 DEF Frame
<1>4. Frames'
  <2>1. ASSUME NEW k \in 1 .. depth, frame'[k].at # "scan" PROVE frame'[k].i \in Index
    <3>1. CASE k = depth
      BY <1>1, <1>3, <3>1 DEF Top
    <3>2. CASE k # depth
      BY <1>1, <1>2, <2>1, <3>2 DEF Frames
    <3> QED
      BY <3>1, <3>2
  <2> QED
    BY <1>2, <2>1 DEF Frames
<1>5. Handling'
  BY <1>3 DEF Handling, Running
<1> QED
  BY <1>2, <1>4, <1>5

\* The innermost poll goes on to another entry, or begins with the handler of one.
LEMMA FramesMove ==
  ASSUME TypeOK, Frames, UNCHANGED depth, depth > 0, NEW f \in Frame,
         frame' = [frame EXCEPT ![depth] = f],
         f.at # "scan" => f.i \in Index,
         f.at \in {"scan", "write"} \/ (f.at = "read" /\ f.sess \in Alive' \cup {Server})
  PROVE  frame' \in [1 .. MaxDepth -> Frame] /\ Frames' /\ Handling'
<1>1. depth \in 1 .. MaxDepth
  BY DEF TypeOK
<1>2. /\ frame' \in [1 .. MaxDepth -> Frame]
      /\ \A k \in 1 .. depth - 1 : frame'[k] = frame[k]
      /\ Top' = f /\ frame'[depth] = f
  BY <1>1 DEF TypeOK, Top
<1>3. Frames'
  BY <1>1, <1>2 DEF Frames
<1>4. Handling'
  BY <1>2 DEF Handling, Running
<1> QED
  BY <1>2, <1>3, <1>4

\* What the actions have to show, the rest following from Kept.
Kind == TypeOK' /\ Kept /\ Marks' /\ Frames' /\ Handling' /\ Stopped'

LEMMA KindKeepsInv ==
  ASSUME IInv, Kind
  PROVE  IInv'
  BY KeptStructure DEF IInv, Kind

LEMMA SilentKept ==
  ASSUME TypeOK, Structure, Marks, UNCHANGED <<table, free, vty, refused>>
  PROVE  Kept /\ Marks' /\ Alive' = Alive
<1>1. Kept /\ SamePending
  BY DEF Kept, SessionsKept, SamePending
<1> QED
  BY <1>1, SilentMarks, KeptShape

LEMMA PeerActsInv ==
  ASSUME IInv, NEW s \in Sessions, PeerActs(s)
  PROVE  IInv'
<1>1. UNCHANGED <<table, free, vty, again, refused, frame, depth, dangling>>
  BY DEF PeerActs
<1>2. Kept /\ Marks' /\ Alive' = Alive
  BY <1>1, SilentKept DEF IInv
<1>3. TypeOK'
  BY <1>1 DEF PeerActs, IInv, TypeOK
<1>4. Stopped'
  BY <1>1, <1>2 DEF IInv, Stopped, Lost, Running, Leaving, Top, Here
<1> QED
  BY <1>1, <1>2, <1>3, <1>4, FramesKept, KindKeepsInv DEF Kind, IInv

LEMMA DangleInv ==
  ASSUME IInv, Dangle
  PROVE  IInv'
<1>1. UNCHANGED <<table, free, vty, peer, again, refused, frame, depth>>
  BY DEF Dangle
<1>2. Kept /\ Marks' /\ Alive' = Alive
  BY <1>1, SilentKept DEF IInv
<1>3. TypeOK'
  BY <1>1 DEF Dangle, IInv, TypeOK
<1>4. Stopped'
  BY <1>1, <1>2 DEF Dangle, Stopped, Lost, Running, Top
<1> QED
  BY <1>1, <1>2, <1>3, <1>4, FramesKept, KindKeepsInv DEF Kind, IInv

LEMMA HereEntry ==
  ASSUME TypeOK, Frames, depth > 0, Top.at # "scan" \/ Top.i <= free
  PROVE  Top.i \in Index /\ Here \in Entry
<1>1. depth \in 1 .. MaxDepth /\ Top \in Frame
  BY DEF TypeOK, Top
<1>2. Top.i \in Index
  BY <1>1 DEF TypeOK, Frames, Top, Frame, Index
<1> QED
  BY <1>2 DEF TypeOK, Here

LEMMA VisitInv ==
  ASSUME IInv, Visit
  PROVE  IInv'
<1> USE DEF IInv
<1>1. /\ UNCHANGED <<table, free, vty, peer, again, refused, depth, dangling>>
      /\ depth > 0 /\ Top.at = "scan" /\ Top.i <= free /\ Here.revents # {}
  BY DEF Visit, Running
<1>2. Kept /\ Marks' /\ Alive' = Alive
  BY <1>1, SilentKept
<1>3. Top.i \in Index /\ Here \in Entry
  BY <1>1, HereEntry
<1>4. Here.sess \in Alive \cup {Server}
  <2>1. CASE Top.i = 1
    BY <2>1 DEF Structure, ServerFirst, Here
  <2>2. CASE Top.i # 1
    <3>1. Open(Top.i)
      BY <1>1, <1>3, <2>2 DEF Marks, Unopened, Here
    <3> QED
      BY <1>3, <3>1 DEF Structure, EntriesMatch, Here
  <2> QED
    BY <2>1, <2>2
<1> DEFINE f == [at |-> IF "in" \in Here.revents THEN "read" ELSE "write",
                 i |-> Top.i, sess |-> Here.sess, nested |-> FALSE]
<1>5. f \in Frame /\ frame' = [frame EXCEPT ![depth] = f]
  BY <1>3 DEF Visit, Frame, Entry, Index
<1>6. frame' \in [1 .. MaxDepth -> Frame] /\ Frames' /\ Handling'
  <2>1. /\ f.at # "scan" => f.i \in Index
        /\ f.at \in {"scan", "write"} \/ (f.at = "read" /\ f.sess \in Alive' \cup {Server})
    BY <1>2, <1>3, <1>4
  <2> HIDE DEF f
  <2> QED
    BY <1>1, <1>5, <2>1, FramesMove
<1>7. TypeOK'
  BY <1>1, <1>6 DEF TypeOK
<1>8. ~Lost
  BY <1>1 DEF Lost, Running, Leaving
<1>9. Stopped'
  BY <1>1, <1>8 DEF Stopped
<1> QED
  BY <1>2, <1>6, <1>7, <1>9, KindKeepsInv DEF Kind

LEMMA NextEntryFrames ==
  ASSUME TypeOK, Frames, depth > 0, UNCHANGED depth, NextEntry
  PROVE  frame' \in [1 .. MaxDepth -> Frame] /\ Frames' /\ Handling'
<1>1. Top \in Frame
  BY DEF TypeOK, Top
<1>2. Top.i + 1 \in Nat \ {0}
  BY <1>1 DEF Frame
<1> DEFINE f == [NewFrame EXCEPT !.i = Top.i + 1]
<1>3. NewFrame \in Frame /\ NewFrame.at = "scan"
  BY Numbers DEF NewFrame, Frame
<1>4. f \in Frame /\ f.at = "scan"
  BY <1>2, <1>3 DEF Frame
<1>5. /\ f.at # "scan" => f.i \in Index
      /\ f.at \in {"scan", "write"} \/ (f.at = "read" /\ f.sess \in Alive' \cup {Server})
  BY <1>4
<1>6. frame' = [frame EXCEPT ![depth] = f]
  BY DEF NextEntry
<1> HIDE DEF f
<1> QED
  BY <1>4, <1>5, <1>6, FramesMove

LEMMA KeepInv ==
  ASSUME IInv, Keep
  PROVE  IInv'
<1> USE DEF IInv
<1>1. /\ UNCHANGED <<table, free, vty, peer, again, refused, depth, dangling>>
      /\ depth > 0 /\ NextEntry /\ Leaving /\ Here.drop = Server
  BY DEF Keep, Leaving
<1>2. Kept /\ Marks' /\ Alive' = Alive
  BY <1>1, SilentKept
<1>3. frame' \in [1 .. MaxDepth -> Frame] /\ Frames' /\ Handling'
  BY <1>1, NextEntryFrames
<1>4. TypeOK'
  BY <1>1, <1>3 DEF TypeOK
<1>5. Stopped'
  BY <1>1 DEF Stopped, Lost, Running, Leaving
<1> QED
  BY <1>2, <1>3, <1>4, <1>5, KindKeepsInv DEF Kind

\* What poll() reports is noted in the entries, and for open ones only.
LEMMA ReportMarks ==
  ASSUME TypeOK, Structure, Marks, Kept, UNCHANGED vty,
         \A k \in Index : table'[k].drop = table[k].drop /\ table'[k].out = table[k].out,
         \A k \in Index : k # 1 /\ ~Open(k) => table'[k].revents = {}
  PROVE  Marks'
<1>1. Drops'
  BY DropsKept DEF Marks
<1>2. Unopened'
  BY KeptShape DEF Unopened
<1>3. WriteInterest'
  BY KeptShape DEF Kept, Marks, WriteInterest
<1> QED
  BY <1>1, <1>2, <1>3 DEF Marks

LEMMA PollBeginInv ==
  ASSUME IInv, PollBegin
  PROVE  IInv'
<1> USE DEF IInv
<1>1. /\ UNCHANGED <<free, vty, peer, again, refused, dangling>>
      /\ depth < MaxDepth /\ depth' = depth + 1 /\ depth \in Nat
      /\ InClient
  BY DEF PollBegin, TypeOK
<1>2. PICK out \in SUBSET {k \in InUse : Writable(k)},
           connect \in SUBSET {k \in InUse : Connects(k)} :
        table' = [k \in Index |->
          IF k \in InUse
            THEN [table[k] EXCEPT
                    !.revents = Reported(k, {j \in InUse : Readable(j)} \cup connect, out)]
            ELSE table[k]]
  BY DEF PollBegin
<1> DEFINE in == {j \in InUse : Readable(j)} \cup connect
<1>3. \A k \in Index : Reported(k, in, out) \in SUBSET {"in", "out"}
  BY DEF Reported
<1> HIDE DEF in
<1>4. \A k \in Index : table[k] \in Entry
  BY DEF TypeOK
<1>5. \A k \in Index :
        /\ table'[k] \in Entry
        /\ table'[k].fd = table[k].fd /\ table'[k].sess = table[k].sess
        /\ table'[k].drop = table[k].drop /\ table'[k].out = table[k].out
        /\ k \in InUse => table'[k].revents = Reported(k, in, out)
        /\ k \notin InUse => table'[k] = table[k]
  BY <1>2, <1>3, <1>4 DEF Entry, in
<1>6. table' \in [Index -> Entry]
  BY <1>2, <1>5
<1>7. Kept /\ Alive' = Alive
  BY <1>1, <1>5, KeptShape DEF Kept, SessionsKept
<1>8. ASSUME NEW k \in Index, k # 1, ~Open(k)
      PROVE  table'[k].revents = {}
  <2>1. CASE k \notin InUse
    BY <1>5, <1>8, <2>1 DEF Marks, Unopened
  <2>2. CASE k \in InUse
    <3>1. table[k].fd = NoFd /\ table[k].sess \in Sessions
      BY <1>8, <2>2 DEF Open, Structure, EntriesUsed
    <3>2. k \notin in /\ k \notin out
      BY <3>1, Numbers DEF in, Readable, Writable, Connects
    <3> QED
      BY <1>5, <2>2, <3>2 DEF Reported
  <2> QED
    BY <2>1, <2>2
<1>9. Marks'
  BY <1>1, <1>5, <1>7, <1>8, ReportMarks
<1>10. NewFrame \in Frame /\ NewFrame.at = "scan"
  BY Numbers DEF NewFrame, Frame
<1>11. /\ frame' \in [1 .. MaxDepth -> Frame]
       /\ \A k \in 1 .. depth : frame'[k].at = frame[k].at /\ frame'[k].i = frame[k].i
                                /\ frame'[k].nested
       /\ Top' = NewFrame
  <2>1. frame' = [k \in 1 .. MaxDepth |->
                    IF k <= depth THEN [frame[k] EXCEPT !.nested = TRUE]
                    ELSE IF k = depth + 1 THEN NewFrame ELSE frame[k]]
    BY DEF PollBegin
  <2>2. ASSUME NEW k \in 1 .. MaxDepth, k <= depth
        PROVE  /\ frame'[k] \in Frame /\ frame'[k].at = frame[k].at
               /\ frame'[k].i = frame[k].i /\ frame'[k].nested
    BY <2>1, <2>2 DEF TypeOK, Frame
  <2>3. ASSUME NEW k \in 1 .. MaxDepth, ~(k <= depth)
        PROVE  frame'[k] \in Frame /\ (k = depth + 1 => frame'[k] = NewFrame)
    BY <1>10, <2>1, <2>3 DEF TypeOK
  <2>4. frame' \in [1 .. MaxDepth -> Frame]
    <3>1. \A k \in 1 .. MaxDepth : frame'[k] \in Frame
      BY <2>2, <2>3
    <3> QED
      BY <2>1, <3>1
  <2>5. Top' = NewFrame
    BY <1>1, <2>3 DEF Top
  <2> QED
    BY <1>1, <2>2, <2>4, <2>5
<1>12. Frames'
  <2>1. \A k \in 1 .. depth : frame[k].at = "command"
    BY <1>1 DEF Frames, InClient, Top
  <2>2. \A k \in 1 .. depth : frame'[k].at = "command" /\ frame'[k].nested
                               /\ frame'[k].i \in Index
    BY <1>11, <2>1 DEF Frames
  <2>3. \A k \in 1 .. depth' : k \in 1 .. depth \/ frame'[k].at = "scan"
    BY <1>1, <1>10, <1>11 DEF Top
  <2>4. 1 .. depth' - 1 = 1 .. depth
    BY <1>1
  <2> QED
    BY <2>2, <2>3, <2>4 DEF Frames
<1>13. Handling'
  BY <1>10, <1>11 DEF Handling, Running
<1>14. depth' \in 0 .. MaxDepth
  BY <1>1
<1>15. TypeOK'
  BY <1>1, <1>6, <1>11, <1>14 DEF TypeOK
<1>16. Stopped'
  BY <1>1, ClientNotLost DEF Stopped
<1> QED
  BY <1>7, <1>9, <1>12, <1>13, <1>15, <1>16, KindKeepsInv DEF Kind

LEMMA PollEndInv ==
  ASSUME IInv, PollEnd
  PROVE  IInv'
<1> USE DEF IInv
<1>1. /\ UNCHANGED <<free, vty, peer, again, refused, dangling>>
      /\ depth \in 1 .. MaxDepth /\ depth' = depth - 1
      /\ Top.at = "scan" /\ Top.i > free
  BY DEF PollEnd, Running, TypeOK
<1>2. \A k \in Index : table[k] \in Entry
  BY DEF TypeOK
<1>3. /\ table' \in [Index -> Entry]
      /\ \A k \in Index :
           /\ table'[k].fd = table[k].fd /\ table'[k].sess = table[k].sess
           /\ table'[k].drop = table[k].drop /\ table'[k].out = table[k].out
           /\ table'[k].revents \in {table[k].revents, {}}
  <2>1. CASE table' = Unreported
    BY <1>2, <2>1 DEF Unreported, Entry
  <2>2. CASE table' = table
    BY <1>2, <2>2 DEF TypeOK
  <2> QED
    BY <2>1, <2>2 DEF PollEnd
<1>4. Kept /\ Alive' = Alive
  BY <1>1, <1>3, KeptShape DEF Kept, SessionsKept
<1>5. Marks'
  BY <1>1, <1>3, <1>4, ReportMarks DEF Marks, Unopened
<1>6. NewFrame \in Frame
  BY Numbers DEF NewFrame, Frame
<1>7. /\ frame' \in [1 .. MaxDepth -> Frame]
      /\ \A k \in 1 .. depth' : frame'[k] = frame[k]
  BY <1>1, <1>6 DEF PollEnd, TypeOK
<1>8. Frames'
  BY <1>1, <1>7 DEF Frames
<1>9. Handling'
  <2>1. depth' > 0 => Top'.at = "command" /\ Top'.nested
    BY <1>1, <1>7 DEF Frames, Top
  <2> QED
    BY <2>1 DEF Handling, Running
<1>10. TypeOK'
  BY <1>1, <1>3, <1>7 DEF TypeOK
<1>11. Stopped'
  <2>1. Top \in Frame /\ free \in Nat
    BY <1>1 DEF TypeOK, Top, Index
  <2>2. ~(Top.i <= free)
    BY <1>1, <2>1 DEF Frame
  <2> QED
    BY <1>1, <2>2 DEF Stopped, Lost, Running, Leaving
<1> QED
  BY <1>4, <1>5, <1>8, <1>9, <1>10, <1>11, KindKeepsInv DEF Kind

-----------------------------------------------------------------------------
LEMMA OutputInv ==
  ASSUME IInv, NEW s \in Sessions, Output(s)
  PROVE  IInv'
<1> USE DEF IInv
<1>1. /\ UNCHANGED <<free, peer, refused, frame, depth, dangling>>
      /\ InClient /\ s \in Alive /\ Send(s, FALSE)
  BY DEF Output
<1>2. Kept /\ Marks' /\ Types
  BY <1>1, FlushMarks
<1>3. Frames' /\ Handling'
  BY <1>1, <1>2, KeptShape, FramesKept
<1>4. TypeOK'
  BY <1>1, <1>2 DEF TypeOK, Types
<1>5. Stopped'
  BY <1>1, ClientNotLost DEF Stopped
<1> QED
  BY <1>2, <1>3, <1>4, <1>5, KindKeepsInv DEF Kind

LEMMA SseEventInv ==
  ASSUME IInv, NEW s \in Sessions, SseEvent(s)
  PROVE  IInv'
<1> USE DEF IInv
<1>1. /\ UNCHANGED <<free, peer, refused, frame, depth, dangling>>
      /\ InClient /\ s \in Alive /\ vty[s].sse = "on"
  BY DEF SseEvent
<1>2. Kept /\ Marks' /\ Types
  <2>1. Sends(s, FALSE, "on") \/ Sends(s, FALSE, "off")
    BY DEF SseEvent, Sends
  <2> QED
    BY <1>1, <2>1, SendMarks
<1>3. Frames' /\ Handling'
  BY <1>1, <1>2, KeptShape, FramesKept
<1>4. TypeOK'
  BY <1>1, <1>2 DEF TypeOK, Types
<1>5. Stopped'
  BY <1>1, ClientNotLost DEF Stopped
<1> QED
  BY <1>2, <1>3, <1>4, <1>5, KindKeepsInv DEF Kind

LEMMA GreetInv ==
  ASSUME IInv, Greet
  PROVE  IInv'
<1> USE DEF IInv
<1>1. /\ UNCHANGED <<free, peer, refused, depth, dangling>>
      /\ depth > 0 /\ Top.at = "greet" /\ Goto("purge") /\ Send(Top.sess, FALSE)
      /\ Top.sess \in Alive
  BY DEF Greet, Handling, Running
<1>2. Kept /\ Marks' /\ Types
  BY <1>1, FlushMarks
<1>3. frame' \in [1 .. MaxDepth -> Frame] /\ Frames' /\ Handling'
  BY <1>1, <1>2, KeptShape, FramesGoto
<1>4. TypeOK'
  BY <1>1, <1>2, <1>3 DEF TypeOK, Types
<1>5. Stopped'
  BY <1>1 DEF Stopped, Lost, Running, Leaving
<1> QED
  BY <1>2, <1>3, <1>4, <1>5, KindKeepsInv DEF Kind

LEMMA UnregisterKept ==
  ASSUME TypeOK, Structure, Marks, UNCHANGED <<free, refused, vty>>, NEW s \in Alive,
         table' \in {table, Unregistered(s)}
  PROVE  Kept /\ Marks' /\ table' \in [Index -> Entry] /\ Alive' = Alive
<1>1. CASE table' = table
  BY <1>1, SilentKept DEF TypeOK
<1>2. CASE table' = Unregistered(s)
  <2>1. SessionsKept /\ SamePending
    BY DEF SessionsKept, SamePending
  <2> QED
    BY <1>2, <2>1, UnregisterMarks, KeptShape
<1> QED
  BY <1>1, <1>2

LEMMA ReceiveInv ==
  ASSUME IInv, Receive
  PROVE  IInv'
<1> USE DEF IInv
<1>1. /\ UNCHANGED <<free, vty, refused, depth, dangling>>
      /\ depth > 0 /\ Top.at = "read" /\ Top.sess \in Alive
  BY DEF Receive, Handling, Running
<1>2. /\ table' \in {table, Unregistered(Top.sess)}
      /\ Goto("command") \/ Goto("write")
  BY DEF Receive
<1>3. again' \in BOOLEAN /\ peer' \in [Sessions -> {"quiet", "talking", "gone"}]
  BY <1>1 DEF Receive, TypeOK
<1>4. Kept /\ Marks' /\ table' \in [Index -> Entry] /\ Alive' = Alive
  BY <1>1, <1>2, UnregisterKept
<1>5. frame' \in [1 .. MaxDepth -> Frame] /\ Frames' /\ Handling'
  BY <1>1, <1>2, <1>4, FramesGoto
<1>6. TypeOK'
  BY <1>1, <1>3, <1>4, <1>5 DEF TypeOK
<1>7. Stopped'
  BY <1>1 DEF Stopped, Lost, Running, Leaving
<1> QED
  BY <1>4, <1>5, <1>6, <1>7, KindKeepsInv DEF Kind

LEMMA SubscribeInv ==
  ASSUME IInv, Subscribe
  PROVE  IInv'
<1> USE DEF IInv
<1>1. /\ UNCHANGED <<free, peer, refused, frame, depth, dangling>>
      /\ depth > 0 /\ Top.at = "command" /\ Top.sess \in Alive
      /\ Sends(Top.sess, FALSE, "on")
  BY DEF Subscribe, Running, Sends
<1>2. Kept /\ Marks' /\ Types
  BY <1>1, SendMarks
<1>3. Alive' = Alive
  BY <1>2, KeptShape
<1>4. Frames' /\ Handling'
  BY <1>1, <1>3, FramesKept
<1>5. TypeOK'
  BY <1>1, <1>2 DEF TypeOK, Types
<1>6. Stopped'
  BY <1>1 DEF Stopped, Lost, Running, Leaving
<1> QED
  BY <1>2, <1>3, <1>4, <1>5, <1>6, KindKeepsInv DEF Kind

LEMMA CommandDoneInv ==
  ASSUME IInv, CommandDone
  PROVE  IInv'
<1> USE DEF IInv
<1>1. /\ UNCHANGED <<free, peer, refused, depth, dangling>>
      /\ depth > 0 /\ Top.at = "command" /\ Top.sess \in Alive
      /\ \/ \E ends \in BOOLEAN : Send(Top.sess, ends)
         \/ UNCHANGED <<table, vty, again>>
      /\ Goto("write")
  BY DEF CommandDone, Running
<1>2. Kept /\ Marks' /\ Types
  <2>1. CASE \E ends \in BOOLEAN : Send(Top.sess, ends)
    BY <1>1, <2>1, FlushMarks
  <2>2. CASE UNCHANGED <<table, vty, again>>
    BY <1>1, <2>2, SilentKept DEF Types, TypeOK
  <2> QED
    BY <1>1, <2>1, <2>2
<1>3. frame' \in [1 .. MaxDepth -> Frame] /\ Frames' /\ Handling'
  BY <1>1, <1>2, KeptShape, FramesGoto
<1>4. TypeOK'
  BY <1>1, <1>2, <1>3 DEF TypeOK, Types
<1>5. Stopped'
  BY <1>1 DEF Stopped, Lost, Running, Leaving
<1> QED
  BY <1>2, <1>3, <1>4, <1>5, KindKeepsInv DEF Kind

LEMMA WriteInv ==
  ASSUME IInv, Write
  PROVE  IInv'
<1> USE DEF IInv
<1>1. /\ UNCHANGED <<free, peer, refused, depth, dangling>>
      /\ depth > 0 /\ Top.at = "write" /\ "out" \in Here.revents /\ Here.sess \in Alive
      /\ Send(Here.sess, FALSE) \/ UNCHANGED <<table, vty, again>>
      /\ Goto("purge")
  BY DEF Write, Running
<1>2. Kept /\ Marks' /\ Types
  <2>1. CASE Send(Here.sess, FALSE)
    BY <1>1, <2>1, FlushMarks
  <2>2. CASE UNCHANGED <<table, vty, again>>
    BY <1>1, <2>2, SilentKept DEF Types, TypeOK
  <2> QED
    BY <1>1, <2>1, <2>2
<1>3. frame' \in [1 .. MaxDepth -> Frame] /\ Frames' /\ Handling'
  BY <1>1, <1>2, KeptShape, FramesGoto
<1>4. TypeOK'
  BY <1>1, <1>2, <1>3 DEF TypeOK, Types
<1>5. Stopped'
  BY <1>1 DEF Stopped, Lost, Running, Leaving
<1> QED
  BY <1>2, <1>3, <1>4, <1>5, KindKeepsInv DEF Kind

-----------------------------------------------------------------------------
\* A connection: session s, not used before, with descriptor n, nobody's.
LEMMA AcceptInv ==
  ASSUME IInv, NEW kind \in {"telnet", "http"}, Accept(kind)
  PROVE  IInv'
<1> USE DEF IInv
<1> DEFINE new(n) == [state |-> "live", kind |-> kind, fd |-> n, pending |-> FALSE, sse |-> "no"]
<1>1. PICK s \in Least(Unused), n \in IF FreeFds = {} THEN {NoFd} ELSE Least(FreeFds) :
        /\ vty' = [vty EXCEPT ![s] = new(n)]
        /\ IF HasRoom
             THEN /\ table' = Added(n, s)
                  /\ free' = free + 1
                  /\ UNCHANGED refused
             ELSE refused' = refused \cup {s} /\ UNCHANGED <<table, free>>
        /\ frame' = [frame EXCEPT ![depth].at = IF kind = "telnet" THEN "greet" ELSE "purge",
                                  ![depth].sess = s]
  BY DEF Accept
<1>2. /\ UNCHANGED <<peer, again, depth, dangling>>
      /\ depth \in 1 .. MaxDepth /\ Top.at = "read"
  BY DEF Accept, Running, TypeOK
<1>3. s \in Sessions /\ vty[s].state = "none" /\ s \notin Alive /\ s # Server
  BY Numbers DEF Least, Unused, Alive
<1>4. n \in Fds /\ n # Server /\ (n = NoFd \/ \A t \in Alive : vty[t].fd # n)
  BY Numbers DEF Least, FreeFds
<1>5. /\ new(n) \in Vty
      /\ new(n).state = "live" /\ new(n).fd = n /\ ~new(n).pending
  BY <1>4 DEF Vty
<1> HIDE DEF new
<1>6. /\ vty' \in [Sessions -> Vty]
      /\ vty'[s].state = "live" /\ vty'[s].fd = n /\ ~vty'[s].pending
      /\ \A t \in Sessions : t # s => vty'[t] = vty[t]
  BY <1>1, <1>3, <1>5 DEF TypeOK
<1>7. Alive' = Alive \cup {s} /\ Alive \subseteq Sessions
  BY <1>3, <1>6 DEF Alive
<1>8. \A k \in Index :
        /\ table[k] \in Entry
        /\ k \in InUse => table[k].sess # s
        /\ table[k].drop # Server => table[k].drop # s /\ table[k].drop \in Sessions
  <2>1. ASSUME NEW k \in InUse PROVE table[k].sess # s
    BY <1>3 DEF Structure, ServerFirst, EntriesUsed
  <2>2. ASSUME NEW k \in Index PROVE table[k] \in Entry
    BY DEF TypeOK
  <2>3. ASSUME NEW k \in Index, table[k].drop # Server
        PROVE  table[k].drop # s /\ table[k].drop \in Sessions
    BY <1>3, <2>2, <2>3 DEF Marks, Drops, Entry
  <2> QED
    BY <2>1, <2>2, <2>3
<1>9. OwnDescriptors'
  BY <1>3, <1>4, <1>6, <1>7 DEF Structure, OwnDescriptors
<1>10. ASSUME HasRoom
       PROVE  /\ table' \in [Index -> Entry] /\ free' \in Index /\ refused' \in SUBSET Sessions
              /\ ServerFirst' /\ EntriesUsed' /\ EntriesMatch' /\ NoneForgotten'
              /\ Marks'
  <2> DEFINE m == free + 1
             added == [fd |-> n, sess |-> s, out |-> FALSE, revents |-> table[m].revents,
                       drop |-> Server]
  <2>1. /\ free \in Nat \ {0} /\ free' = m /\ m \in Index \ {1} /\ m \notin InUse
        /\ InUse' = InUse \cup {m} /\ InUse \subseteq Index
    BY <1>1, <1>10 DEF HasRoom, TypeOK, Index, InUse
  <2>2. table' = [table EXCEPT ![m] = added] /\ UNCHANGED refused
    BY <1>1, <1>10 DEF Added
  <2>3. added \in Entry
    BY <1>3, <1>4, <1>8, <2>1 DEF Entry
  <2>4. added.fd = n /\ added.sess = s /\ ~added.out /\ added.drop = Server
        /\ added.revents = table[m].revents
    OBVIOUS
  <2> HIDE DEF m, added
  <2>5. /\ table' \in [Index -> Entry] /\ table'[m] = added
        /\ \A k \in Index : k # m => table'[k] = table[k]
    BY <2>1, <2>2, <2>3 DEF TypeOK
  <2>6. \A k \in Index : /\ k = m => (Open(k)' <=> n # NoFd)
                        /\ k # m => (Open(k)' <=> Open(k))
    <3>1. ASSUME NEW k \in Index, k = m PROVE Open(k)' <=> n # NoFd
      BY <2>1, <2>4, <2>5, <3>1 DEF Open
    <3>2. ASSUME NEW k \in Index, k # m PROVE Open(k)' <=> Open(k)
      BY <2>1, <2>5, <3>2 DEF Open
    <3> QED
      BY <3>1, <3>2
  <2>7. ServerFirst'
    BY <2>1, <2>5, Numbers DEF Structure, ServerFirst
  <2>8. EntriesUsed'
    <3> SUFFICES ASSUME NEW k \in (InUse \ {1})'
                 PROVE  /\ table'[k].sess \in Sessions /\ vty'[table'[k].sess].state # "none"
                        /\ table'[k].fd = NoFd /\ table'[k].sess \in Alive'
                              => vty'[table'[k].sess].fd = NoFd
      BY DEF EntriesUsed
    <3>1. CASE k = m
      BY <1>3, <1>6, <2>4, <2>5, <3>1
    <3>2. CASE k # m
      <4>1. k \in InUse \ {1} /\ table'[k] = table[k] /\ table[k].sess # s
        BY <1>8, <2>1, <2>5, <3>2
      <4> QED
        BY <1>6, <1>7, <4>1 DEF Structure, EntriesUsed
    <3> QED
      BY <3>1, <3>2
  <2>9. EntriesMatch'
    <3>1. ASSUME NEW k \in Index, Open(k)'
          PROVE  table'[k].sess \in Alive' /\ table'[k].fd = vty'[table'[k].sess].fd
      <4>1. CASE k = m
        BY <1>6, <1>7, <2>4, <2>5, <4>1
      <4>2. CASE k # m
        BY <1>3, <1>6, <1>7, <2>5, <2>6, <3>1, <4>2 DEF Structure, EntriesMatch
      <4> QED
        BY <4>1, <4>2
    <3>2. ASSUME NEW k \in InUse
          PROVE  table[k].sess # s /\ (table[k].fd # n \/ n = NoFd)
      <4>1. CASE k = 1
        BY <1>3, <1>4, <4>1 DEF Structure, ServerFirst
      <4>2. CASE k # 1
        <5>1. table[k].fd = NoFd \/ Open(k)
          BY <4>2 DEF Open
        <5> QED
          BY <1>4, <1>8, <2>1, <5>1 DEF Structure, EntriesMatch
      <4> QED
        BY <4>1, <4>2
    <3>3. ASSUME NEW j \in InUse', NEW k \in InUse', j # k
          PROVE  /\ table'[j].sess # table'[k].sess
                 /\ table'[j].fd # table'[k].fd \/ table'[j].fd = NoFd
      <4>1. CASE j = m
        BY <2>1, <2>4, <2>5, <3>2, <3>3, <4>1
      <4>2. CASE k = m
        BY <2>1, <2>4, <2>5, <3>2, <3>3, <4>2
      <4>3. CASE j # m /\ k # m
        <5>1. j \in InUse /\ k \in InUse /\ table'[j] = table[j] /\ table'[k] = table[k]
          BY <2>1, <2>5, <4>3
        <5> QED
          BY <3>3, <5>1 DEF Structure, EntriesMatch
      <4> QED
        BY <4>1, <4>2, <4>3
    <3> QED
      BY <3>1, <3>3 DEF EntriesMatch
  <2>10. NoneForgotten'
    <3> SUFFICES ASSUME NEW t \in Alive', ~(vty'[t].sse # "no" \/ t \in refused' \/ vty'[t].fd = NoFd)
                 PROVE  Listed(t)'
      BY DEF NoneForgotten
    <3>1. CASE t = s
      BY <2>1, <2>4, <2>5, <3>1 DEF Listed
    <3>2. CASE t # s
      <4>1. PICK k \in InUse : table[k].sess = t
        BY <1>6, <1>7, <2>2, <3>2 DEF Structure, NoneForgotten, Listed
      <4>2. k \in InUse' /\ table'[k] = table[k]
        BY <2>1, <2>5
      <4> QED
        BY <4>1, <4>2 DEF Listed
    <3> QED
      BY <3>1, <3>2
  <2>11. Drops'
    <3> SUFFICES ASSUME NEW k \in Index, table'[k].drop # Server
                 PROVE  DropFits(k, table[k].drop)' /\ table'[k] = table[k]
      BY DEF Drops, DropFits
    <3>1. k # m /\ table'[k] = table[k]
      BY <2>4, <2>5
    <3>2. /\ k \in InUse \ {1} /\ vty[table[k].drop].state # "none"
          /\ Open(k) => table[k].drop = table[k].sess
          /\ ~Open(k) /\ table[k].drop \in Alive => vty[table[k].drop].fd = NoFd
      BY <3>1 DEF Marks, Drops
    <3>3. table[k].drop # s /\ table[k].drop \in Sessions
      BY <1>8, <3>1
    <3> QED
      BY <1>6, <1>7, <2>1, <2>6, <3>1, <3>2, <3>3 DEF DropFits
  <2>12. Unopened'
    <3> SUFFICES ASSUME NEW k \in Index, k # 1, ~Open(k)' PROVE table'[k].revents = {}
      BY DEF Unopened
    <3>1. CASE k = m
      BY <2>1, <2>4, <2>5, <3>1 DEF Marks, Unopened, Open
    <3>2. CASE k # m
      BY <2>5, <2>6, <3>2 DEF Marks, Unopened
    <3> QED
      BY <3>1, <3>2
  <2>13. WriteInterest'
    <3> SUFFICES ASSUME NEW k \in Index, Open(k)'
                 PROVE  /\ table'[k].out => vty'[table'[k].sess].pending
                        /\ vty'[table'[k].sess].pending /\ table'[k].drop = Server
                             => table'[k].out
      BY DEF WriteInterest
    <3>1. CASE k = m
      BY <1>6, <2>4, <2>5, <3>1
    <3>2. CASE k # m
      <4>1. table'[k] = table[k] /\ Open(k) /\ k \in InUse
        BY <2>5, <2>6, <3>2 DEF Open
      <4>2. table[k].sess \in Sessions /\ table[k].sess # s
        BY <1>7, <1>8, <4>1 DEF Structure, EntriesMatch
      <4> QED
        BY <1>6, <4>1, <4>2 DEF Marks, WriteInterest
    <3> QED
      BY <3>1, <3>2
  <2>14. refused' \in SUBSET Sessions /\ free' \in Index
    BY <2>1, <2>2 DEF TypeOK
  <2> QED
    BY <2>5, <2>7, <2>8, <2>9, <2>10, <2>11, <2>12, <2>13, <2>14 DEF Marks
<1>11. ASSUME ~HasRoom
       PROVE  /\ table' \in [Index -> Entry] /\ free' \in Index /\ refused' \in SUBSET Sessions
              /\ ServerFirst' /\ EntriesUsed' /\ EntriesMatch' /\ NoneForgotten'
              /\ Marks'
  <2>1. UNCHANGED <<table, free>> /\ refused' = refused \cup {s} /\ InUse' = InUse
        /\ InUse \subseteq Index
    BY <1>1, <1>11 DEF InUse, TypeOK, Index
  <2>2. \A k \in Index : Open(k)' <=> Open(k)
    BY <2>1 DEF Open
  <2>3. table' \in [Index -> Entry] /\ free' \in Index /\ refused' \in SUBSET Sessions
    BY <1>3, <2>1 DEF TypeOK
  <2>4. ServerFirst'
    BY <2>1 DEF Structure, ServerFirst
  <2>5. EntriesUsed'
    BY <1>6, <1>7, <1>8, <2>1 DEF Structure, EntriesUsed
  <2>6. EntriesMatch'
    BY <1>6, <1>7, <1>8, <2>1, <2>2 DEF Structure, EntriesMatch, Open
  <2>7. NoneForgotten'
    BY <1>6, <1>7, <2>1 DEF Structure, NoneForgotten, Listed
  <2>8. Drops'
    BY <1>6, <1>7, <1>8, <2>1, <2>2 DEF Marks, Drops
  <2>9. Unopened'
    BY <2>1, <2>2 DEF Marks, Unopened
  <2>10. WriteInterest'
    <3> SUFFICES ASSUME NEW k \in Index, Open(k)
                 PROVE  /\ table[k].out => vty'[table[k].sess].pending
                        /\ vty'[table[k].sess].pending /\ table[k].drop = Server => table[k].out
      BY <2>1, <2>2 DEF WriteInterest
    <3>1. table[k].sess \in Sessions /\ table[k].sess # s
      BY <1>7, <1>8 DEF Structure, EntriesMatch, Open
    <3> QED
      BY <1>6, <3>1 DEF Marks, WriteInterest
  <2> QED
    BY <2>3, <2>4, <2>5, <2>6, <2>7, <2>8, <2>9, <2>10 DEF Marks
<1>12. frame' \in [1 .. MaxDepth -> Frame] /\ Frames' /\ Handling'
  <2> DEFINE at == IF kind = "telnet" THEN "greet" ELSE "purge"
             f == [Top EXCEPT !.at = at, !.sess = s]
  <2>1. Top \in Frame /\ Top.i \in Index
    BY <1>2 DEF TypeOK, Frames, Top
  <2>2. at \in {"greet", "purge"}
    OBVIOUS
  <2> HIDE DEF at
  <2>3. f \in Frame /\ f.at = at /\ f.sess = s /\ f.i \in Index
    BY <1>3, <2>1, <2>2 DEF Frame
  <2>4. frame' = [frame EXCEPT ![depth] = f]
    BY <1>1 DEF Top, at
  <2> HIDE DEF f
  <2>5. /\ frame' \in [1 .. MaxDepth -> Frame] /\ frame'[depth] = f /\ Top' = f
        /\ \A k \in 1 .. depth - 1 : frame'[k] = frame[k]
    BY <1>2, <2>3, <2>4 DEF TypeOK, Top
  <2>6. Frames'
    BY <1>2, <2>3, <2>5 DEF Frames
  <2>7. Handling'
    BY <1>7, <2>2, <2>3, <2>5 DEF Handling, Running
  <2> QED
    BY <2>5, <2>6, <2>7
<1>13. Stopped'
  BY <1>2 DEF Stopped, Lost, Running, Leaving
<1>14. TypeOK'
  BY <1>2, <1>6, <1>10, <1>11, <1>12 DEF TypeOK
<1> QED
  BY <1>9, <1>10, <1>11, <1>12, <1>13, <1>14 DEF Structure

\* The entry of Purge goes, the last one takes its place: place k has entry From(k).
LEMMA CompactedShape ==
  ASSUME TypeOK, NEW p \in InUse \ {1}, table' = Compacted(p), free' = free - 1
  PROVE  /\ table' \in [Index -> Entry] /\ free' \in Index
         /\ InUse' = InUse \ {free} /\ InUse \subseteq Index /\ p \in Index /\ free \in InUse
         /\ table'[free].drop = Server /\ table'[free].revents = {}
         /\ \A k \in Index \ InUse : table'[k] = table[k]
         /\ p # free => table'[p] = table[free]
         /\ \A k \in InUse : k # p /\ k # free => table'[k] = table[k]
<1>1. free \in Nat \ {0} /\ p \in 2 .. free /\ free \in Index
  BY DEF TypeOK, InUse, Index
<1>2. Zeroed \in Entry /\ Zeroed.drop = Server /\ Zeroed.revents = {}
  BY Numbers DEF Zeroed, Entry
<1>3. table[free] \in Entry /\ p \in Index
  BY <1>1 DEF TypeOK, Index
<1> DEFINE moved == [table EXCEPT ![p] = table[free]]
<1>4. /\ moved \in [Index -> Entry] /\ moved[p] = table[free]
      /\ \A k \in Index : k # p => moved[k] = table[k]
  BY <1>3 DEF TypeOK
<1>5. table' = [moved EXCEPT ![free] = Zeroed]
  BY DEF Compacted
<1> HIDE DEF moved
<1>6. /\ table' \in [Index -> Entry] /\ table'[free] = Zeroed
      /\ \A k \in Index : k # free => table'[k] = moved[k]
  BY <1>1, <1>2, <1>4, <1>5
<1>7. InUse' = InUse \ {free} /\ InUse \subseteq Index /\ free \in InUse /\ free' \in Index
  BY <1>1 DEF InUse, Index
<1> QED
  BY <1>1, <1>2, <1>3, <1>4, <1>6, <1>7 DEF InUse

LEMMA PurgeInv ==
  ASSUME IInv, Purge
  PROVE  IInv'
<1> USE DEF IInv
<1>1. /\ UNCHANGED <<again, refused, depth>>
      /\ Leaving /\ depth \in 1 .. MaxDepth /\ Here.drop # Server
  BY DEF Purge, Leaving, TypeOK
<1>2. CASE Here.drop \notin Alive
  <2>1. UNCHANGED <<vty, table, free, peer, frame>> /\ dangling' = TRUE
    BY <1>2 DEF Purge
  <2>2. Kept /\ Marks' /\ Alive' = Alive
    BY <1>1, <2>1, SilentKept
  <2>3. TypeOK'
    BY <1>1, <2>1 DEF TypeOK
  <2>4. Stopped'
    BY <1>1, <1>2, <2>1, <2>2 DEF Stopped, Lost, Leaving, Top, Here
  <2> QED
    BY <1>1, <2>1, <2>2, <2>3, <2>4, FramesKept, KindKeepsInv DEF Kind
<1>3. CASE Here.drop \in Alive
  <2> DEFINE p == Top.i
             d == Here.drop
             closed == vty[d].sse = "no"
  <2>1. /\ vty' = [vty EXCEPT ![d] = Closed(@)]
        /\ table' = Compacted(p) /\ free' = free - 1
        /\ peer' = [peer EXCEPT ![d] = IF vty[d].sse = "no" THEN "quiet" ELSE @]
        /\ NextEntry /\ UNCHANGED dangling
    BY <1>3 DEF Purge
  <2>2. /\ p \in InUse \ {1} /\ table[p].drop = d /\ d \in Sessions
        /\ Open(p) => d = table[p].sess
        /\ ~Open(p) => vty[d].fd = NoFd /\ table[p].fd = NoFd
    <3>1. p \in Index /\ Here = table[p]
      BY <1>1, HereEntry DEF Leaving, Here
    <3>2. d \in Sessions /\ table[p].drop = d
      BY <1>3, <3>1, AliveVty
    <3> QED
      BY <1>1, <1>3, <3>1, <3>2 DEF Marks, Drops, Open
  <2>3. vty[d] \in Vty
    BY <2>2 DEF TypeOK
  <2> HIDE DEF p, d
  <2>4. /\ vty' \in [Sessions -> Vty]
        /\ \A t \in Sessions : t # d \/ ~closed => vty'[t] = vty[t]
        /\ closed => vty'[d].state = "freed"
    <3>1. [NoVty EXCEPT !.state = "freed"] \in Vty
          /\ [NoVty EXCEPT !.state = "freed"].state = "freed"
      BY Numbers DEF NoVty, Vty
    <3> QED
      BY <2>1, <2>2, <2>3, <3>1 DEF Closed, TypeOK
  <2>5. /\ Alive' = IF closed THEN Alive \ {d} ELSE Alive
        /\ \A t \in Sessions : vty[t].state # "none" => vty'[t].state # "none"
    BY <2>2, <2>4 DEF Alive
  <2>6. Alive' \subseteq Alive /\ Alive \subseteq Sessions /\ \A t \in Alive' : vty'[t] = vty[t]
    BY <2>4, <2>5 DEF Alive
  <2> HIDE DEF closed
  <2>7. /\ table' \in [Index -> Entry] /\ free' \in Index
        /\ InUse' = InUse \ {free} /\ InUse \subseteq Index /\ p \in Index /\ free \in InUse
        /\ table'[free].drop = Server /\ table'[free].revents = {}
        /\ \A k \in Index \ InUse : table'[k] = table[k]
        /\ p # free => table'[p] = table[free]
        /\ \A k \in InUse : k # p /\ k # free => table'[k] = table[k]
    BY <2>1, <2>2, CompactedShape
  <2> DEFINE From(k) == IF k = p THEN free ELSE k
  <2>8. /\ \A k \in InUse' : /\ From(k) \in InUse \ {p} /\ table'[k] = table[From(k)]
                             /\ k # 1 => From(k) # 1
        /\ \A j, k \in InUse' : j # k => From(j) # From(k)
        /\ \A j \in InUse \ {p} : \E k \in InUse' : From(k) = j
    <3>1. free # 1
      BY <2>2, <2>7 DEF InUse, TypeOK, Index
    <3> QED
      BY <2>2, <2>7, <3>1
  <2> HIDE DEF From
  <2>9. ASSUME NEW k \in InUse', k # 1
        PROVE  /\ Open(k)' <=> Open(From(k))
               /\ From(k) \in InUse \ {1} /\ From(k) \in Index /\ From(k) # p
               /\ table'[k] = table[From(k)] /\ k \in Index
    BY <2>7, <2>8, <2>9 DEF Open
  <2>10. OwnDescriptors'
    BY <2>6 DEF Structure, OwnDescriptors
  <2>11. ServerFirst'
    <3>1. 1 \in Index /\ 1 # p /\ 1 # free /\ 1 \in InUse
      BY <2>2, <2>7, Numbers DEF InUse, TypeOK, Index
    <3> QED
      BY <2>7, <3>1 DEF Structure, ServerFirst
  <2>12. EntriesUsed'
    <3> SUFFICES ASSUME NEW k \in InUse', k # 1
                 PROVE  /\ table'[k].sess \in Sessions /\ vty'[table'[k].sess].state # "none"
                        /\ table'[k].fd = NoFd /\ table'[k].sess \in Alive'
                              => vty'[table'[k].sess].fd = NoFd
      BY DEF EntriesUsed
    <3> QED
      BY <2>5, <2>6, <2>9 DEF Structure, EntriesUsed
  \* The entry of another session, or of none with a descriptor: it does not lose its own.
  <2>13. ASSUME NEW j \in Index, Open(j), j # p
         PROVE  /\ table[j].sess \in Alive' /\ table[j].fd = vty[table[j].sess].fd
                /\ vty'[table[j].sess] = vty[table[j].sess]
    <3>1. table[j].sess \in Alive /\ table[j].fd = vty[table[j].sess].fd /\ table[j].fd # NoFd
          /\ j \in InUse
      BY <2>13 DEF Structure, EntriesMatch, Open
    <3>2. table[j].sess # d
      BY <2>2, <2>13, <3>1 DEF Structure, EntriesMatch
    <3> QED
      BY <2>5, <2>6, <3>1, <3>2
  <2>14. EntriesMatch'
    <3>1. ASSUME NEW k \in Index, Open(k)'
          PROVE  table'[k].sess \in Alive' /\ table'[k].fd = vty'[table'[k].sess].fd
      <4>1. k \in InUse' /\ k # 1
        BY <3>1 DEF Open
      <4> QED
        BY <2>9, <2>13, <3>1, <4>1
    <3>2. ASSUME NEW j \in InUse', NEW k \in InUse', j # k
          PROVE  /\ table'[j].sess # table'[k].sess
                 /\ table'[j].fd # table'[k].fd \/ table'[j].fd = NoFd
      <4>1. /\ From(j) \in InUse /\ From(k) \in InUse /\ From(j) # From(k)
            /\ table'[j] = table[From(j)] /\ table'[k] = table[From(k)]
        BY <2>8, <3>2
      <4> QED
        BY <4>1 DEF Structure, EntriesMatch
    <3> QED
      BY <3>1, <3>2 DEF EntriesMatch
  <2>15. NoneForgotten'
    <3> SUFFICES ASSUME NEW t \in Alive', ~(vty'[t].sse # "no" \/ t \in refused' \/ vty'[t].fd = NoFd)
                 PROVE  Listed(t)'
      BY DEF NoneForgotten
    <3>1. PICK j \in InUse : table[j].sess = t
      BY <1>1, <2>6 DEF Structure, NoneForgotten, Listed
    <3>2. j # p
      <4> SUFFICES ASSUME j = p PROVE FALSE
        OBVIOUS
      <4>1. CASE Open(p)
        BY <2>2, <2>5, <2>6, <3>1, <4>1 DEF closed
      <4>2. CASE ~Open(p)
        BY <2>2, <2>6, <3>1, <4>2 DEF Structure, EntriesUsed
      <4> QED
        BY <4>1, <4>2
    <3>3. PICK k \in InUse' : table'[k] = table[j]
      BY <2>8, <3>2
    <3> QED
      BY <3>1, <3>3 DEF Listed
  <2>16. ASSUME NEW k \in Index, k \notin InUse'
         PROVE  /\ table'[k].drop = Server
                /\ k # 1 => table'[k].revents = {}
    <3>1. CASE k = free
      BY <2>7, <3>1
    <3>2. CASE k # free
      <4>1. k \notin InUse /\ ~Open(k) /\ table'[k] = table[k]
        BY <2>7, <2>16, <3>2 DEF Open
      <4> QED
        BY <4>1 DEF Marks, Drops, Unopened
    <3> QED
      BY <3>1, <3>2
  <2>17. Drops'
    <3> SUFFICES ASSUME NEW k \in Index, table'[k].drop # Server
                 PROVE  /\ k \in (InUse \ {1})' /\ vty'[table'[k].drop].state # "none"
                        /\ Open(k)' => table'[k].drop = table'[k].sess
                        /\ ~Open(k)' /\ table'[k].drop \in Alive' => vty'[table'[k].drop].fd = NoFd
      BY DEF Drops
    <3>1. k \in InUse'
      BY <2>16
    <3>2. k # 1
      <4>1. 1 \in Index /\ 1 # p /\ 1 # free /\ 1 \in InUse /\ table'[1] = table[1]
        BY <2>2, <2>7, Numbers DEF InUse, TypeOK, Index
      <4> QED
        BY <4>1 DEF Marks, Drops
    <3>3. table[From(k)] = table'[k] /\ table'[k].drop \in Sessions
      BY <2>7, <2>9, <3>1, <3>2 DEF Entry
    <3> QED
      BY <2>5, <2>6, <2>9, <3>1, <3>2, <3>3 DEF Marks, Drops
  <2>18. Unopened'
    <3> SUFFICES ASSUME NEW k \in Index, k # 1, ~Open(k)' PROVE table'[k].revents = {}
      BY DEF Unopened
    <3>1. CASE k \in InUse'
      BY <2>9, <3>1 DEF Marks, Unopened
    <3>2. CASE k \notin InUse'
      BY <2>16, <3>2
    <3> QED
      BY <3>1, <3>2
  <2>19. WriteInterest'
    <3> SUFFICES ASSUME NEW k \in Index, Open(k)'
                 PROVE  /\ table'[k].out => vty'[table'[k].sess].pending
                        /\ vty'[table'[k].sess].pending /\ table'[k].drop = Server
                             => table'[k].out
      BY DEF WriteInterest
    <3>1. k \in InUse' /\ k # 1
      BY DEF Open
    <3>2. Open(From(k)) /\ From(k) \in Index /\ From(k) # p /\ table'[k] = table[From(k)]
      BY <2>9, <3>1
    <3> QED
      BY <2>13, <3>2 DEF Marks, WriteInterest
  <2>20. frame' \in [1 .. MaxDepth -> Frame] /\ Frames' /\ Handling'
    BY <1>1, <2>1, NextEntryFrames
  <2>21. TypeOK'
    <3>1. peer' \in [Sessions -> {"quiet", "talking", "gone"}]
      BY <2>1, <2>2 DEF TypeOK
    <3> QED
      BY <1>1, <2>1, <2>4, <2>7, <2>20, <3>1 DEF TypeOK
  <2>22. Stopped'
    BY <1>1, <1>3, <2>1 DEF Stopped, Lost, Running, Leaving
  <2> QED
    BY <2>10, <2>11, <2>12, <2>14, <2>15, <2>17, <2>18, <2>19, <2>20, <2>21, <2>22
    DEF Structure, Marks
<1> QED
  BY <1>2, <1>3

-----------------------------------------------------------------------------
LEMMA StutterInv ==
  ASSUME IInv, UNCHANGED vars
  PROVE  IInv'
<1>1. UNCHANGED <<table, free, vty, peer, again, refused, frame, depth, dangling>>
  BY DEF vars
<1>2. Kept /\ Marks' /\ Alive' = Alive
  BY <1>1, SilentKept DEF IInv
<1>3. TypeOK'
  BY <1>1 DEF IInv, TypeOK
<1>4. Stopped'
  BY <1>1, <1>2 DEF IInv, Stopped, Lost, Running, Leaving, Top, Here
<1> QED
  BY <1>1, <1>2, <1>3, <1>4, FramesKept, KindKeepsInv DEF Kind, IInv

LEMMA NextInv == IInv /\ [Next]_vars => IInv'
<1> SUFFICES ASSUME IInv, [Next]_vars PROVE IInv'
  OBVIOUS
<1>1. ASSUME NEW s \in Sessions, PeerActs(s) \/ Output(s) \/ SseEvent(s) PROVE IInv'
  BY <1>1, PeerActsInv, OutputInv, SseEventInv
<1>2. CASE Subscribe \/ CommandDone
  BY <1>2, SubscribeInv, CommandDoneInv
<1>3. CASE Step
  <2>1. ASSUME NEW kind \in {"telnet", "http"}, Accept(kind) PROVE IInv'
    BY <2>1, AcceptInv
  <2>2. CASE PollBegin \/ Visit \/ PollEnd
    BY <2>2, PollBeginInv, VisitInv, PollEndInv
  <2>3. CASE Greet \/ Receive \/ Dangle \/ Write
    BY <2>3, GreetInv, ReceiveInv, DangleInv, WriteInv
  <2>4. CASE Purge \/ Keep
    BY <2>4, PurgeInv, KeepInv
  <2> QED
    BY <1>3, <2>1, <2>2, <2>3, <2>4 DEF Step
<1>4. CASE UNCHANGED vars
  BY <1>4, StutterInv
<1> QED
  BY <1>1, <1>2, <1>3, <1>4 DEF Next

\* The invariant holds in every reachable state, with tables, descriptors, sessions and
\* nesting of any number.
THEOREM Invariance == Spec => []IInv
BY InitInv, NextInv, PTL DEF Spec

\* Every variable keeps its type: indices into the table and the array of descriptors
\* stay inside them, and the polls nest no deeper than they may.
THEOREM TypeCorrect == Spec => []TypeOK
<1>1. IInv => TypeOK
  BY DEF IInv
<1> QED
  BY <1>1, Invariance, PTL

\* Every open entry of the table is that of a session that exists, with that
\* session's descriptor, and no two entries are for one session or one descriptor:
\* although descriptors are reused and socket_purge_sockets moves entries, a callback
\* gets the session of its connection.
THEOREM CallbacksMatch == Spec => []EntriesMatch
<1>1. IInv => EntriesMatch
  BY DEF IInv, Structure
<1> QED
  BY <1>1, Invariance, PTL

\* Every session that is not in the table any more has been freed, but for the ones
\* that subscribed to events, found the table full or never had a descriptor.
THEOREM SessionsFreed == Spec => []NoneForgotten
<1>1. IInv => NoneForgotten
  BY DEF IInv, Structure
<1> QED
  BY <1>1, Invariance, PTL

\* POLLOUT is set in an entry for nothing but what a flush of its session left behind,
\* and is set for that unless the entry is to go, so that the write handler neither
\* misses the rest of a telnet line, an answer or an event, nor runs for ever.
THEOREM WritesAsked == Spec => []WriteInterest
<1>1. IInv => WriteInterest
  BY DEF IInv, Marks
<1> QED
  BY <1>1, Invariance, PTL

\* The program goes on with a freed session only after a command that polled the
\* sockets while it waited, or at the entry of a session without a descriptor.
LEMMA LostNested == IInv => DanglesOnlyNested
<1> SUFFICES ASSUME IInv, dangling, ~Top.nested PROVE Here.fd = NoFd
  BY DEF DanglesOnlyNested
<1> USE DEF IInv
<1>1. Leaving /\ Here.drop # Server /\ Here.drop \notin Alive
  BY DEF Stopped, Lost, Handling, Running
<1>2. Top.i \in Index /\ Here = table[Top.i]
  BY <1>1, HereEntry DEF Leaving, Here
<1>3. Top.i \in InUse \ {1}
  BY <1>1, <1>2 DEF Marks, Drops
<1>4. ~Open(Top.i)
  BY <1>1, <1>2 DEF Marks, Drops, Structure, EntriesMatch
<1> QED
  BY <1>2, <1>3, <1>4 DEF Open

THEOREM DanglingIsNested == Spec => []DanglesOnlyNested
BY LostNested, Invariance, PTL
=============================================================================
