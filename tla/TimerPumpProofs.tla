--------------------------- MODULE TimerPumpProofs ---------------------------
(***************************************************************************)
(* Proofs about TimerPump, for every size of the table, every number of    *)
(* timers and polls nested to any depth.                                   *)
(***************************************************************************)
EXTENDS TimerPump, FiniteSetTheorems, TLAPS

USE TimersAssumption DEF TimersAssumption

-----------------------------------------------------------------------------
\* Where the active polls are: a callback was called from an entry of the table.
InTable ==
  \A k \in 1 .. depth :
    frame[k].i >= 1 /\ (frame[k].at = "callback" => frame[k].i \in Index)

\* The ids in use were given out, each to one entry.
IdsFresh == \A k \in InUse : table[k].id < maxId

\* A running timer is not due before the time its owner was promised.
Promise(k) ==
  table[k].started /\ ~table[k].removed =>
    /\ due[table[k].id] # Never
    /\ due[table[k].id] <= table[k].last + table[k].left

KeepsPromises == \A k \in InUse : Promise(k)

TInv ==
  /\ TypeOK
  /\ InTable
  /\ IdsFresh
  /\ TableMatchesHandles
  /\ FreeSlotsClean
  /\ KeepsPromises

-----------------------------------------------------------------------------
\* The entries the actions write.
LEMMA ZeroedType == Zeroed \in Timer /\ NewFrame \in Frame
  BY DEF Zeroed, Timer, NewFrame, Frame

LEMMA AddedType ==
  ASSUME NEW t \in Timer, NEW id \in Nat, NEW timeout \in Nat, NEW single \in BOOLEAN
  PROVE  [t EXCEPT !.id = id, !.timeout = timeout, !.last = 0,
                   !.started = FALSE, !.single = single] \in Timer
<1> DEFINE t1 == [t EXCEPT !.id = id, !.timeout = timeout]
           t2 == [t1 EXCEPT !.last = 0, !.started = FALSE]
           t3 == [t2 EXCEPT !.single = single]
<1>1. t1 \in Timer
  BY DEF Timer
<1> HIDE DEF t1
<1>2. t2 \in Timer
  BY <1>1 DEF Timer
<1> HIDE DEF t2
<1>3. t3 \in Timer
  BY <1>2 DEF Timer
<1>4. t3 = [t EXCEPT !.id = id, !.timeout = timeout, !.last = 0,
                     !.started = FALSE, !.single = single]
  BY DEF t1, t2
<1> QED
  BY <1>3, <1>4

LEMMA ArmedType ==
  ASSUME NEW t \in Timer, now \in Nat
  PROVE  Armed(t) \in Timer
<1> DEFINE t1 == [t EXCEPT !.started = TRUE, !.last = now]
           t2 == [t1 EXCEPT !.left = t.timeout]
<1>1. t1 \in Timer
  BY DEF Timer
<1>2. t.timeout \in Int
  BY DEF Timer
<1> HIDE DEF t1
<1>3. t2 \in Timer
  BY <1>1, <1>2 DEF Timer
<1> QED
  BY <1>3 DEF t1, Armed

LEMMA CountedType ==
  ASSUME Here \in Timer, Top.ts \in Nat
  PROVE  /\ Counted \in Timer
         /\ Counted.id = Here.id
         /\ Counted.started = Here.started
         /\ Counted.removed = Here.removed
         /\ Counted.last + Counted.left = Here.last + Here.left
<1>1. Here.left \in Int /\ Here.last \in Nat
  BY DEF Timer
<1>2. Remaining \in Int /\ Top.ts + Remaining = Here.last + Here.left
  BY <1>1 DEF Remaining
<1> HIDE DEF Here
<1>3. Counted \in Timer
  BY <1>2 DEF Counted, Timer
<1>4. Counted.id = Here.id /\ Counted.last = Top.ts /\ Counted.left = Remaining
  BY DEF Counted, Timer
<1>5. Counted.started = Here.started /\ Counted.removed = Here.removed
  BY DEF Counted, Timer
<1> QED
  BY <1>2, <1>3, <1>4, <1>5

LEMMA RearmedType ==
  ASSUME Here \in Timer
  PROVE  /\ Rearmed \in Timer
         /\ Rearmed.id = Here.id
         /\ Rearmed.removed = Here.removed
         /\ Rearmed.last = Here.last
         /\ Here.single => ~Rearmed.started
         /\ ~Here.single => Rearmed.started = Here.started /\ Rearmed.left = Here.timeout
<1>1. CASE Here.single
  BY <1>1 DEF Rearmed, Timer
<1>2. CASE ~Here.single
  <2>1. Rearmed = [Here EXCEPT !.left = Here.timeout] /\ Here.timeout \in Int
    BY <1>2 DEF Rearmed, Timer
  <2> QED
    BY <1>2, <2>1 DEF Timer
<1> QED
  BY <1>1, <1>2

LEMMA TopFrame ==
  ASSUME TypeOK, depth > 0
  PROVE  depth \in 1 .. MaxDepth /\ Top \in Frame
  BY DEF TypeOK, Top

\* The table is searched to the one entry that has a held id.
LEMMA FirstWithHeld ==
  ASSUME TInv, NEW id \in held, NEW last \in {next, MaxTimers}
  PROVE  \E k \in InUse : /\ table[k].id = id
                          /\ ~table[k].removed
                          /\ FirstWith(id, last) = {k}
<1>1. PICK k \in InUse : table[k].id = id /\ ~table[k].removed
  BY DEF TInv, TableMatchesHandles
<1>2. next \in 0 .. MaxTimers /\ k \in 1 .. next /\ k \in 1 .. last
  BY DEF TInv, TypeOK, InUse
<1>3. \A j \in 1 .. k - 1 : j \in InUse /\ j # k
  BY <1>2 DEF InUse
<1>4. \A j \in 1 .. k - 1 : table[j].id # id
  BY <1>1, <1>3 DEF TInv, TableMatchesHandles
<1>5. k \in FirstWith(id, last)
  BY <1>1, <1>2, <1>4 DEF FirstWith
<1>6. ASSUME NEW j \in FirstWith(id, last) PROVE j = k
  <2>1. j \in 1 .. last /\ table[j].id = id /\ \A m \in 1 .. j - 1 : table[m].id # id
    BY DEF FirstWith
  <2>2. ~(k < j)
    BY <1>1, <1>2, <2>1
  <2>3. ~(j < k)
    BY <1>2, <1>4, <2>1
  <2> QED
    BY <1>2, <2>1, <2>2, <2>3
<1> QED
  BY <1>1, <1>5, <1>6

-----------------------------------------------------------------------------
\* What the invariant says of a table t with n entries in use, when clients hold h.
Sound(t, n, h) ==
  /\ \A j, k \in 1 .. n : t[j].id = t[k].id => j = k
  /\ \A k \in 1 .. n : ~t[k].removed => t[k].id \in h
  /\ \A id \in h : \E k \in 1 .. n : t[k].id = id /\ ~t[k].removed
  /\ \A k \in Index \ (1 .. n) : ~t[k].removed /\ ~t[k].started

LEMMA SoundNow == Sound(table, next, held) <=> TableMatchesHandles /\ FreeSlotsClean
  BY DEF Sound, TableMatchesHandles, FreeSlotsClean, InUse

\* Compaction: the last entry takes the place of a removed one.
LEMMA PurgeSound ==
  ASSUME NEW t \in [Index -> Timer], NEW k \in Index, NEW h,
         next \in 0 .. MaxTimers, Sound(t, next, h)
  PROVE  LET n == IF t[k].removed THEN next - 1 ELSE next
         IN  /\ Purge(t, k) \in [Index -> Timer]
             /\ n \in 0 .. MaxTimers
             /\ Sound(Purge(t, k), n, h)
             /\ \A j \in 1 .. n : \E m \in 1 .. next : Purge(t, k)[j] = t[m]
<1>1. CASE ~t[k].removed
  BY <1>1 DEF Purge
<1>2. CASE t[k].removed
  <2> DEFINE u == Purge(t, k)
             n == next - 1
  <2>1. k \in 1 .. next /\ next \in Index
    BY <1>2 DEF Sound, Index
  <2>2. u = [[t EXCEPT ![k] = t[next]] EXCEPT ![next] = Zeroed]
    BY <1>2 DEF Purge
  <2>3. u \in [Index -> Timer]
    BY <2>1, <2>2, ZeroedType
  <2>4. \A j \in Index : u[j] = IF j = next THEN Zeroed ELSE IF j = k THEN t[next] ELSE t[j]
    BY <2>1, <2>2
  <2>5. n \in 0 .. MaxTimers /\ \A j \in 1 .. n : j \in Index /\ j \in 1 .. next /\ j # next
    BY <2>1 DEF Index
  <2> HIDE DEF u
  <2>6. \A j \in 1 .. n : \E m \in 1 .. next : u[j] = t[m]
    BY <2>1, <2>4, <2>5
  <2>7. \A j, m \in 1 .. n : u[j].id = u[m].id => j = m
    BY <2>1, <2>4, <2>5 DEF Sound
  <2>8. \A j \in 1 .. n : ~u[j].removed => u[j].id \in h
    BY <2>1, <2>4, <2>5 DEF Sound
  <2>9. ASSUME NEW id \in h PROVE \E j \in 1 .. n : u[j].id = id /\ ~u[j].removed
    <3>1. PICK m \in 1 .. next : t[m].id = id /\ ~t[m].removed
      BY DEF Sound
    <3>2. m # k
      BY <1>2, <3>1
    <3>3. CASE m = next
      <4>1. k \in 1 .. n /\ u[k] = t[next]
        BY <2>1, <2>4, <3>2, <3>3
      <4> QED
        BY <3>1, <3>3, <4>1
    <3>4. CASE m # next
      <4>1. m \in 1 .. n
        BY <2>1, <3>4 DEF Index
      <4>2. u[m] = t[m]
        BY <2>4, <2>5, <3>2, <3>4, <4>1
      <4> QED
        BY <3>1, <4>1, <4>2
    <3> QED
      BY <3>3, <3>4
  <2>10. \A j \in Index \ (1 .. n) : ~u[j].removed /\ ~u[j].started
    <3> SUFFICES ASSUME NEW j \in Index \ (1 .. n) PROVE ~u[j].removed /\ ~u[j].started
      OBVIOUS
    <3>1. CASE j = next
      BY <2>4, <3>1 DEF Zeroed
    <3>2. CASE j # next
      <4>1. j \in Index \ (1 .. next) /\ j # k
        BY <2>1, <3>2 DEF Index
      <4>2. u[j] = t[j]
        BY <2>4, <3>2, <4>1
      <4> QED
        BY <4>1, <4>2 DEF Sound
    <3> QED
      BY <3>1, <3>2
  <2>11. Sound(u, n, h)
    BY <2>7, <2>8, <2>9, <2>10 DEF Sound
  <2> QED
    BY <1>2, <2>3, <2>5, <2>6, <2>11 DEF u
<1> QED
  BY <1>1, <1>2

-----------------------------------------------------------------------------
LEMMA InitTInv == Init => TInv
<1> SUFFICES ASSUME Init PROVE TInv
  OBVIOUS
<1>1. TypeOK
  BY ZeroedType DEF Init, TypeOK, Instants
<1>2. InTable /\ IdsFresh /\ KeepsPromises
  BY DEF Init, InTable, IdsFresh, KeepsPromises, InUse
<1>3. TableMatchesHandles /\ FreeSlotsClean
  BY DEF Init, TableMatchesHandles, FreeSlotsClean, InUse, Zeroed
<1> QED
  BY <1>1, <1>2, <1>3 DEF TInv

\* The facts of the invariant, as the proofs of the actions use them.
LEMMA Facts ==
  ASSUME TInv
  PROVE  /\ table \in [Index -> Timer]
         /\ next \in 0 .. MaxTimers /\ maxId \in 0 .. MaxIds
         /\ now \in Instants /\ since \in Instants /\ Instants \subseteq Nat
         /\ frame \in [1 .. MaxDepth -> Frame] /\ depth \in 0 .. MaxDepth
         /\ held \in SUBSET Ids /\ due \in [Ids -> Nat \cup {Never}]
         /\ Ids \subseteq Nat /\ InUse = 1 .. next /\ InUse \subseteq Index
         /\ Sound(table, next, held)
  BY SoundNow DEF TInv, TypeOK, Instants, Ids, InUse, Index

LEMMA AddTimeoutInv ==
  ASSUME TInv, NEW timeout \in Timeouts, NEW single \in BOOLEAN,
         AddTimeout(timeout, single)
  PROVE  TInv'
<1> DEFINE k == next + 1
           new == [table[k] EXCEPT !.id = maxId, !.timeout = timeout, !.last = 0,
                                   !.started = FALSE, !.single = single]
<1>1. k \in Index /\ maxId \in Ids /\ next \in Nat /\ k \notin InUse /\ maxId \in Nat
  BY Facts DEF AddTimeout, HasRoom, Index, Ids, InUse
<1>2. table[k] \in Timer
  BY <1>1, Facts
<1>3. new \in Timer
  BY <1>1, <1>2, AddedType
<1>4. new.id = maxId /\ ~new.started /\ new.removed = table[k].removed
  BY <1>2 DEF Timer
<1>5. ~table[k].removed
  BY <1>1, Facts DEF Sound, InUse
<1>6. /\ table' = [table EXCEPT ![k] = new]
      /\ next' = k /\ maxId' = maxId + 1 /\ held' = held \cup {maxId}
      /\ UNCHANGED <<now, since, frame, depth, due>>
  BY DEF AddTimeout
<1>7. maxId' \in 0 .. MaxIds
  BY <1>1, <1>6 DEF Ids
<1> HIDE DEF new
<1>8. TypeOK'
  BY <1>1, <1>3, <1>6, <1>7, Facts DEF TypeOK, Index
<1>9. \A j \in Index : table'[j] = IF j = k THEN new ELSE table[j]
  BY <1>6, Facts
<1>10. InUse' = InUse \cup {k} /\ \A j \in InUse : j \in Index /\ j # k
  BY <1>1, <1>6, Facts DEF InUse
<1>11. \A j \in InUse : table[j].id < maxId /\ table[j].id # maxId
  <2>1. ASSUME NEW j \in InUse PROVE table[j].id \in Nat /\ table[j].id < maxId
    BY Facts DEF TInv, IdsFresh, Timer
  <2> QED
    BY <1>1, <2>1
<1> HIDE DEF k
<1>12. IdsFresh'
  <2>1. \A j \in InUse : table[j].id \in Nat
    BY Facts DEF Timer
  <2> QED
    BY <1>1, <1>4, <1>6, <1>9, <1>10, <1>11, <2>1 DEF IdsFresh
<1>13. TableMatchesHandles'
  <2>1. \A i, j \in InUse' : table'[i].id = table'[j].id => i = j
    BY <1>1, <1>4, <1>9, <1>10, <1>11 DEF TInv, TableMatchesHandles
  <2>2. \A j \in InUse' : ~table'[j].removed => table'[j].id \in held'
    BY <1>1, <1>4, <1>6, <1>9, <1>10 DEF TInv, TableMatchesHandles
  <2>3. ASSUME NEW id \in held'
        PROVE  \E j \in InUse' : table'[j].id = id /\ ~table'[j].removed
    <3>1. CASE id = maxId
      BY <1>1, <1>4, <1>5, <1>9, <1>10, <3>1
    <3>2. CASE id \in held
      <4>1. PICK j \in InUse : table[j].id = id /\ ~table[j].removed
        BY <3>2 DEF TInv, TableMatchesHandles
      <4> QED
        BY <1>9, <1>10, <4>1
    <3> QED
      BY <1>6, <3>1, <3>2
  <2> QED
    BY <2>1, <2>2, <2>3 DEF TableMatchesHandles
<1>14. FreeSlotsClean'
  BY <1>9, <1>10 DEF TInv, FreeSlotsClean
<1>15. KeepsPromises'
  BY <1>1, <1>4, <1>6, <1>9, <1>10 DEF TInv, KeepsPromises, Promise
<1>16. InTable'
  BY <1>6 DEF TInv, InTable
<1> QED
  BY <1>8, <1>12, <1>13, <1>14, <1>15, <1>16 DEF TInv

LEMMA FramesKept ==
  ASSUME TInv, UNCHANGED <<frame, depth>>
  PROVE  frame' \in [1 .. MaxDepth -> Frame] /\ depth' \in 0 .. MaxDepth /\ InTable'
  BY DEF TInv, TypeOK, InTable

\* A step that writes one entry in use and keeps its id.
LEMMA OneEntry ==
  ASSUME TInv, NEW k \in InUse, NEW new \in Timer, NEW id,
         id = table[k].id, new.id = id,
         table' = [j \in Index |-> IF j = k THEN new ELSE table[j]],
         UNCHANGED <<next, maxId, now, since>>,
         frame' \in [1 .. MaxDepth -> Frame], depth' \in 0 .. MaxDepth, InTable',
         IF new.removed /\ ~table[k].removed
           THEN held' = held \ {id}
           ELSE held' = held /\ (new.removed <=> table[k].removed),
         due' \in [Ids -> Nat \cup {Never}],
         \A other \in Ids : other # id => due'[other] = due[other],
         new.started /\ ~new.removed =>
           due'[id] # Never /\ due'[id] <= new.last + new.left
  PROVE  TInv'
<1>1. InUse' = InUse /\ InUse \subseteq Index /\ k \in Index
  BY Facts DEF InUse
<1>2. \A j \in Index : table'[j] = IF j = k THEN new ELSE table[j]
  OBVIOUS
<1>3. \A j \in InUse : j # k => table[j].id # id
  BY DEF TInv, TableMatchesHandles
<1>4. \A j \in Index : table'[j].id = table[j].id
  BY <1>2
<1>5. TypeOK'
  <2>1. table' \in [Index -> Timer] /\ held' \in SUBSET Ids
    BY Facts
  <2> QED
    BY <2>1 DEF TInv, TypeOK
<1>6. IdsFresh'
  BY <1>1, <1>4 DEF TInv, IdsFresh
<1>7. TableMatchesHandles'
  <2>1. \A i, j \in InUse' : table'[i].id = table'[j].id => i = j
    BY <1>1, <1>4 DEF TInv, TableMatchesHandles
  <2>2. \A j \in InUse' : ~table'[j].removed => table'[j].id \in held'
    <3> SUFFICES ASSUME NEW j \in InUse, ~table'[j].removed PROVE table'[j].id \in held'
      BY <1>1
    <3>1. CASE j = k
      BY <1>1, <1>2, <3>1 DEF TInv, TableMatchesHandles
    <3>2. CASE j # k
      BY <1>1, <1>2, <1>3, <3>2 DEF TInv, TableMatchesHandles
    <3> QED
      BY <3>1, <3>2
  <2>3. ASSUME NEW other \in held'
        PROVE  \E j \in InUse' : table'[j].id = other /\ ~table'[j].removed
    <3>1. PICK j \in InUse : table[j].id = other /\ ~table[j].removed
      BY DEF TInv, TableMatchesHandles
    <3>2. CASE j = k
      <4>1. ~new.removed
        BY <3>1, <3>2
      <4> QED
        BY <1>1, <1>2, <3>1, <3>2, <4>1
    <3>3. CASE j # k
      BY <1>1, <1>2, <3>1, <3>3
    <3> QED
      BY <3>2, <3>3
  <2>4. {table'[j].id : j \in {j \in InUse' : ~table'[j].removed}} \subseteq held'
    BY <2>2
  <2>5. ASSUME NEW other \in held'
        PROVE  other \in {table'[j].id : j \in {j \in InUse' : ~table'[j].removed}}
    <3>1. PICK j \in InUse' : table'[j].id = other /\ ~table'[j].removed
      BY <2>3
    <3>2. j \in {m \in InUse' : ~table'[m].removed}
      BY <3>1
    <3> QED
      BY <3>1, <3>2
  <2> QED
    BY <2>1, <2>4, <2>5 DEF TableMatchesHandles
<1>8. FreeSlotsClean'
  BY <1>1, <1>2 DEF TInv, FreeSlotsClean
<1>9. KeepsPromises'
  <2> SUFFICES ASSUME NEW j \in InUse PROVE Promise(j)'
    BY <1>1 DEF KeepsPromises
  <2>1. CASE j = k
    BY <1>1, <1>2, <2>1 DEF Promise
  <2>2. CASE j # k /\ ~table[j].removed
    <3>1. table[j].id \in Ids /\ table[j].id # id
      BY <1>3, <2>2, Facts DEF TInv, TableMatchesHandles
    <3> QED
      BY <1>1, <1>2, <2>2, <3>1 DEF TInv, KeepsPromises, Promise
  <2>3. CASE j # k /\ table[j].removed
    BY <1>1, <1>2, <2>3 DEF Promise
  <2> QED
    BY <2>1, <2>2, <2>3
<1> QED
  BY <1>5, <1>6, <1>7, <1>8, <1>9 DEF TInv

LEMMA RemoveTimeoutInv ==
  ASSUME TInv, NEW id \in Ids, RemoveTimeout(id)
  PROVE  TInv'
<1>1. PICK k \in InUse : /\ table[k].id = id
                         /\ ~table[k].removed
                         /\ FirstWith(id, MaxTimers) = {k}
  BY FirstWithHeld DEF RemoveTimeout
<1> DEFINE new == [table[k] EXCEPT !.removed = TRUE]
<1>2. table[k] \in Timer
  BY Facts
<1>3. new \in Timer /\ new.id = id /\ new.removed
  BY <1>1, <1>2 DEF Timer
<1>4. table' = [j \in Index |-> IF j = k THEN new ELSE table[j]]
  BY <1>1 DEF RemoveTimeout
<1>5. due' \in [Ids -> Nat \cup {Never}] /\ \A other \in Ids : other # id => due'[other] = due[other]
  BY Facts DEF RemoveTimeout
<1>6. held' = held \ {id} /\ UNCHANGED <<next, maxId, now, since, frame, depth>>
  BY DEF RemoveTimeout
<1> HIDE DEF new
<1> QED
  BY <1>1, <1>3, <1>4, <1>5, <1>6, FramesKept, OneEntry

LEMMA StartTimerInv ==
  ASSUME TInv, NEW id \in Ids, StartTimer(id)
  PROVE  TInv'
<1>1. PICK k \in InUse : /\ table[k].id = id
                         /\ ~table[k].removed
                         /\ FirstWith(id, next) = {k}
  BY FirstWithHeld DEF StartTimer
<1> DEFINE new == Armed(table[k])
<1>2. table[k] \in Timer /\ now \in Nat /\ table[k].timeout \in Nat
  BY Facts DEF Timer
<1>3. new \in Timer
  BY <1>2, ArmedType
<1>4. /\ new.id = id /\ ~new.removed
      /\ new.last = now /\ new.left = table[k].timeout
  BY <1>1, <1>2 DEF Timer, Armed
<1>5. table' = [j \in Index |-> IF j = k THEN new ELSE table[j]]
  BY <1>1 DEF StartTimer
<1>6. due' = [due EXCEPT ![id] = now + table[k].timeout]
  BY <1>1 DEF StartTimer
<1>7. /\ due' \in [Ids -> Nat \cup {Never}]
      /\ \A other \in Ids : other # id => due'[other] = due[other]
      /\ due'[id] = now + table[k].timeout
  BY <1>2, <1>6, Facts
<1>8. due'[id] # Never /\ due'[id] <= new.last + new.left
  BY <1>2, <1>4, <1>7 DEF Never
<1>9. held' = held /\ UNCHANGED <<next, maxId, now, since, frame, depth>>
  BY DEF StartTimer
<1> HIDE DEF new
<1> QED
  BY <1>1, <1>3, <1>4, <1>5, <1>7, <1>8, <1>9, FramesKept, OneEntry

LEMMA StopTimerInv ==
  ASSUME TInv, NEW id \in Ids, StopTimer(id)
  PROVE  TInv'
<1>1. PICK k \in InUse : /\ table[k].id = id
                         /\ ~table[k].removed
                         /\ FirstWith(id, next) = {k}
  BY FirstWithHeld DEF StopTimer
<1> DEFINE new == [table[k] EXCEPT !.started = FALSE]
<1>2. table[k] \in Timer
  BY Facts
<1>3. new \in Timer /\ new.id = id /\ ~new.removed /\ ~new.started
  BY <1>1, <1>2 DEF Timer
<1>4. table' = [j \in Index |-> IF j = k THEN new ELSE table[j]]
  BY <1>1 DEF StopTimer
<1>5. due' \in [Ids -> Nat \cup {Never}] /\ \A other \in Ids : other # id => due'[other] = due[other]
  BY Facts DEF StopTimer
<1>6. held' = held /\ UNCHANGED <<next, maxId, now, since, frame, depth>>
  BY DEF StopTimer
<1> HIDE DEF new
<1> QED
  BY <1>1, <1>3, <1>4, <1>5, <1>6, FramesKept, OneEntry

-----------------------------------------------------------------------------
\* The steps of a poll.  A scan that has not ended looks at an entry in use.
LEMMA ScanFacts ==
  ASSUME TInv, Scanning
  PROVE  /\ depth \in 1 .. MaxDepth /\ Top \in Frame /\ Top = frame[depth]
         /\ Top.i \in InUse /\ Top.i \in Index
         /\ Here \in Timer /\ Here = table[Top.i] /\ Top.ts \in Nat
<1>1. depth \in 1 .. MaxDepth /\ Top \in Frame
  BY TopFrame DEF TInv, Scanning
<1>2. Top.i \in Nat /\ Top.ts \in Nat
  BY <1>1 DEF Frame
<1>3. Top.i >= 1
  BY <1>1 DEF TInv, InTable, Top
<1>4. Top.i \in InUse
  BY <1>2, <1>3, Facts DEF Scanning, InUse
<1> QED
  BY <1>1, <1>2, <1>4, Facts DEF Here, Top

\* The innermost scan moves on, and the other frames stay as they are.
LEMMA Moves ==
  ASSUME TInv, depth \in 1 .. MaxDepth, NEW f \in Frame,
         frame' = [frame EXCEPT ![depth] = f], depth' = depth,
         f.i >= 1, f.at = "callback" => f.i \in Index
  PROVE  frame' \in [1 .. MaxDepth -> Frame] /\ depth' \in 0 .. MaxDepth /\ InTable'
<1>1. frame' \in [1 .. MaxDepth -> Frame]
  BY Facts
<1>2. \A k \in 1 .. depth : k \in 1 .. MaxDepth /\ frame'[k] = IF k = depth THEN f ELSE frame[k]
  BY Facts
<1> QED
  BY <1>1, <1>2 DEF TInv, InTable

LEMMA StepType ==
  ASSUME NEW f \in Frame
  PROVE  [f EXCEPT !.i = @ + 1] \in Frame
  BY DEF Frame

LEMMA SkipIdleInv ==
  ASSUME TInv, SkipIdle
  PROVE  TInv'
<1> DEFINE f == [frame[depth] EXCEPT !.i = @ + 1]
<1>1. Scanning /\ frame' = [frame EXCEPT ![depth] = f] /\ depth' = depth
      /\ UNCHANGED <<table, next, maxId, now, since, held, due>>
  BY DEF SkipIdle
<1>2. f \in Frame /\ f.i >= 1 /\ f.at = "scan"
  BY <1>1, ScanFacts, StepType DEF Frame, Scanning, InUse
<1> HIDE DEF f
<1>3. frame' \in [1 .. MaxDepth -> Frame] /\ depth' \in 0 .. MaxDepth /\ InTable'
  BY <1>1, <1>2, ScanFacts, Moves
<1>4. TypeOK'
  BY <1>1, <1>3 DEF TInv, TypeOK
<1>5. IdsFresh' /\ FreeSlotsClean' /\ KeepsPromises'
  BY <1>1 DEF TInv, IdsFresh, FreeSlotsClean, KeepsPromises, Promise, InUse
<1>6. TableMatchesHandles'
  BY <1>1 DEF TInv, TableMatchesHandles, InUse
<1> QED
  BY <1>3, <1>4, <1>5, <1>6 DEF TInv

\* Counting an entry down leaves its id, its marks and the time it is due.
LEMMA CountsHere ==
  ASSUME TInv, Scanning, table' = [table EXCEPT ![Top.i] = Counted],
         UNCHANGED <<next, maxId, now, since, held, due>>,
         frame' \in [1 .. MaxDepth -> Frame], depth' \in 0 .. MaxDepth, InTable'
  PROVE  TInv'
<1> DEFINE k == Top.i
           new == Counted
<1>1. k \in InUse /\ k \in Index /\ Here = table[k] /\ Here \in Timer
  BY ScanFacts
<1>2. /\ new \in Timer /\ new.id = table[k].id
      /\ new.started = table[k].started /\ new.removed = table[k].removed
      /\ new.last + new.left = table[k].last + table[k].left
  BY <1>1, ScanFacts, CountedType
<1>3. table' = [j \in Index |-> IF j = k THEN new ELSE table[j]]
  BY <1>1, Facts
<1> HIDE DEF new, k
<1>4. new.started /\ ~new.removed =>
        due'[table[k].id] # Never /\ due'[table[k].id] <= new.last + new.left
  BY <1>1, <1>2 DEF TInv, KeepsPromises, Promise
<1>5. /\ due' \in [Ids -> Nat \cup {Never}]
      /\ \A other \in Ids : other # table[k].id => due'[other] = due[other]
  BY Facts
<1>6. held' = held /\ (new.removed <=> table[k].removed)
  BY <1>2
<1>7. IF new.removed /\ ~table[k].removed
        THEN held' = held \ {table[k].id}
        ELSE held' = held /\ (new.removed <=> table[k].removed)
  BY <1>6
<1>8. UNCHANGED <<next, maxId, now, since>>
  OBVIOUS
<1> DEFINE id == table[k].id
<1>9. new.id = id
  BY <1>2
<1> QED
  BY <1>1, <1>2, <1>3, <1>4, <1>5, <1>7, <1>8, <1>9, OneEntry

LEMMA CountDownInv ==
  ASSUME TInv, CountDown
  PROVE  TInv'
<1> DEFINE f == [frame[depth] EXCEPT !.i = @ + 1]
<1>1. Scanning /\ frame' = [frame EXCEPT ![depth] = f] /\ depth' = depth
      /\ table' = [table EXCEPT ![Top.i] = Counted]
      /\ UNCHANGED <<next, maxId, now, since, held, due>>
  BY DEF CountDown
<1>2. f \in Frame /\ f.i >= 1 /\ f.at = "scan"
  BY <1>1, ScanFacts, StepType DEF Frame, Scanning, InUse
<1> HIDE DEF f
<1> QED
  BY <1>1, <1>2, ScanFacts, Moves, CountsHere

\* A callback runs only for a held timer that is due.
LEMMA FireInv ==
  ASSUME TInv, Fire
  PROVE  /\ TInv'
         /\ Here.id \in held /\ due[Here.id] # Never /\ due[Here.id] <= Top.ts
<1> DEFINE f == [frame[depth] EXCEPT !.at = "callback", !.called = now]
           f1 == [frame[depth] EXCEPT !.at = "callback"]
           f2 == [f1 EXCEPT !.called = now]
<1>1. Scanning /\ frame' = [frame EXCEPT ![depth] = f] /\ depth' = depth
      /\ table' = [table EXCEPT ![Top.i] = Counted]
      /\ UNCHANGED <<next, maxId, now, since, held, due>>
  BY DEF Fire
<1>2. f1 \in Frame /\ f1.i = Top.i /\ now \in Nat
  BY <1>1, ScanFacts, Facts DEF Frame
<1>3. f \in Frame /\ f.i = Top.i
  <2> HIDE DEF f1
  <2>1. f2 \in Frame /\ f2.i = Top.i
    BY <1>2 DEF Frame
  <2> QED
    BY <2>1 DEF f1
<1>4. Top.i >= 1 /\ Top.i \in Index
  BY <1>1, ScanFacts DEF Index
<1> HIDE DEF f, f1
<1>5. TInv'
  BY <1>1, <1>3, <1>4, ScanFacts, Moves, CountsHere
<1>6. Here.id \in held /\ Promise(Top.i) /\ Here.started /\ ~Here.removed
  BY <1>1, ScanFacts DEF Fire, Counts, TInv, TableMatchesHandles, KeepsPromises
<1>7. due[Here.id] # Never /\ due[Here.id] <= Here.last + Here.left
  BY <1>1, <1>6, ScanFacts DEF Promise
<1>8. Here.last + Here.left <= Top.ts
  <2>1. Here.last \in Nat /\ Here.left \in Int /\ Top.ts \in Nat /\ Here.left - (Top.ts - Here.last) <= 0
    BY <1>1, ScanFacts DEF Fire, Remaining, Timer
  <2> QED
    BY <2>1
<1>9. due[Here.id] \in Nat /\ Here.last + Here.left \in Int /\ Top.ts \in Nat
  <2>1. Here.id \in Ids
    BY <1>6, Facts
  <2> QED
    BY <1>1, <1>7, <2>1, ScanFacts, Facts DEF Timer
<1> QED
  BY <1>5, <1>6, <1>7, <1>8, <1>9

\* Dropping an entry, or not, and moving on: t is the table before the purge.
LEMMA PurgeStep ==
  ASSUME TInv, depth \in 1 .. MaxDepth, Top.i \in Index,
         NEW t \in [Index -> Timer], Sound(t, next, held), PurgeAndStep(t),
         UNCHANGED <<maxId, now, since, depth, held>>,
         due' \in [Ids -> Nat \cup {Never}],
         \A k \in InUse :
           /\ t[k].id < maxId
           /\ t[k].started /\ ~t[k].removed =>
                /\ due'[t[k].id] # Never
                /\ due'[t[k].id] <= t[k].last + t[k].left
  PROVE  TInv'
<1> DEFINE n == IF t[Top.i].removed THEN next - 1 ELSE next
           u == Purge(t, Top.i)
           drop == IF t[Top.i].removed THEN Top.dropped + 1 ELSE Top.dropped
           f == [at |-> "scan", i |-> Following, ts |-> Top.ts, called |-> 0,
                 dropped |-> drop, nested |-> Top.nested]
<1>1. table' = u /\ next' = n
  BY DEF PurgeAndStep
<1>2. /\ u \in [Index -> Timer] /\ n \in 0 .. MaxTimers /\ Sound(u, n, held)
      /\ \A j \in 1 .. n : \E m \in 1 .. next : u[j] = t[m]
  BY Facts, PurgeSound
<1>3. Top \in Frame /\ Top = frame[depth] /\ Top.i \in Nat /\ Top.i >= 1
  BY Facts DEF Top, Index
<1>4. Top.dropped \in Nat /\ drop \in Nat /\ Following \in Nat /\ Following >= 1
  BY <1>3 DEF Frame, Following
<1>5. frame' = [frame EXCEPT ![depth] = f]
  BY DEF PurgeAndStep
<1>6. f \in Frame /\ f.at = "scan" /\ f.i = Following
  BY <1>3, <1>4 DEF Frame
<1> HIDE DEF f, u, n, drop
<1>8. frame' \in [1 .. MaxDepth -> Frame] /\ depth' \in 0 .. MaxDepth /\ InTable'
  BY <1>4, <1>5, <1>6, Moves
<1>9. TypeOK'
  BY <1>1, <1>2, <1>8 DEF TInv, TypeOK
<1>10. InUse' = 1 .. n /\ InUse = 1 .. next
  BY <1>1 DEF InUse
<1>11. IdsFresh'
  BY <1>1, <1>2, <1>10 DEF IdsFresh
<1>12. KeepsPromises'
  BY <1>1, <1>2, <1>10 DEF KeepsPromises, Promise
<1>13. (TableMatchesHandles /\ FreeSlotsClean)'
  <2>1. Sound(table', next', held')
    BY <1>1, <1>2
  <2> QED
    BY <2>1, <1>10 DEF Sound, TableMatchesHandles, FreeSlotsClean, InUse
<1> QED
  BY <1>8, <1>9, <1>11, <1>12, <1>13 DEF TInv

\* Writing an entry without touching its id and its mark of removal.
LEMMA WriteSound ==
  ASSUME NEW k \in Index, NEW new \in Timer, table \in [Index -> Timer],
         Sound(table, next, held),
         new.id = table[k].id, new.removed = table[k].removed,
         ~table[k].started => ~new.started
  PROVE  LET t == [table EXCEPT ![k] = new]
         IN  t \in [Index -> Timer] /\ Sound(t, next, held)
<1> DEFINE t == [table EXCEPT ![k] = new]
<1>1. t \in [Index -> Timer] /\ \A j \in Index : t[j] = IF j = k THEN new ELSE table[j]
  OBVIOUS
<1> HIDE DEF t
<1>2. \A j \in Index : /\ t[j].id = table[j].id
                       /\ t[j].removed = table[j].removed
                       /\ ~table[j].started => ~t[j].started
  BY <1>1
<1>3. next \in 0 .. MaxTimers => \A j \in 1 .. next : j \in Index
  BY DEF Index
<1> QED
  BY <1>1, <1>2 DEF Sound, t

LEMMA DropDueInv ==
  ASSUME TInv, DropDue
  PROVE  TInv'
<1> DEFINE k == Top.i
           t == [table EXCEPT ![k] = Counted]
<1>1. Scanning /\ PurgeAndStep(t) /\ UNCHANGED <<maxId, now, since, depth, held, due>>
  BY DEF DropDue
<1>2. /\ Counted \in Timer /\ Counted.id = table[k].id
      /\ Counted.started = table[k].started /\ Counted.removed = table[k].removed
      /\ Counted.last + Counted.left = table[k].last + table[k].left
  BY <1>1, ScanFacts, CountedType
<1>3. k \in Index /\ depth \in 1 .. MaxDepth /\ table \in [Index -> Timer]
  BY <1>1, ScanFacts, Facts
<1>4. t \in [Index -> Timer] /\ Sound(t, next, held)
  BY <1>2, <1>3, Facts, WriteSound
<1>5. ASSUME NEW j \in InUse
      PROVE  /\ t[j].id < maxId
             /\ t[j].started /\ ~t[j].removed =>
                  due'[t[j].id] # Never /\ due'[t[j].id] <= t[j].last + t[j].left
  <2>1. t[j] = IF j = k THEN Counted ELSE table[j]
    BY <1>3, Facts
  <2> HIDE DEF t, k
  <2> QED
    BY <1>1, <1>2, <2>1 DEF TInv, IdsFresh, KeepsPromises, Promise
<1>6. due' \in [Ids -> Nat \cup {Never}]
  BY <1>1, Facts
<1> QED
  BY <1>1, <1>3, <1>4, <1>5, <1>6, PurgeStep

LEMMA CallbackReturnsInv ==
  ASSUME TInv, CallbackReturns
  PROVE  TInv'
<1> DEFINE k == Top.i
           t == [table EXCEPT ![k] = Rearmed]
<1>1. PurgeAndStep(t) /\ UNCHANGED <<maxId, now, since, depth, held>>
  BY DEF CallbackReturns
<1>2. /\ depth \in 1 .. MaxDepth /\ k \in Index
      /\ table \in [Index -> Timer] /\ Here = table[k] /\ Here \in Timer
  <2>1. depth \in 1 .. MaxDepth
    BY TopFrame DEF TInv, CallbackReturns
  <2>2. k \in Index
    BY <2>1 DEF TInv, InTable, Top, CallbackReturns
  <2> QED
    BY <2>1, <2>2, Facts DEF Here
<1>3. /\ Rearmed \in Timer /\ Rearmed.id = Here.id
      /\ Rearmed.removed = Here.removed /\ Rearmed.last = Here.last
      /\ Here.single => ~Rearmed.started
      /\ ~Here.single => Rearmed.started = Here.started /\ Rearmed.left = Here.timeout
  BY <1>2, RearmedType
<1>4. t \in [Index -> Timer] /\ Sound(t, next, held)
  BY <1>2, <1>3, Facts, WriteSound
<1> DEFINE rearm == Here.id \in held /\ Here.started
           then == IF Here.single THEN Never ELSE Here.last + Here.timeout
<1>5. due' = IF rearm THEN [due EXCEPT ![Here.id] = then] ELSE due
  BY DEF CallbackReturns
<1>6. then \in Nat \cup {Never} /\ (~Here.single => then \in Nat)
  BY <1>2 DEF Timer
<1>7. due' \in [Ids -> Nat \cup {Never}]
  BY <1>5, <1>6, Facts
<1>8. ASSUME NEW j \in InUse
      PROVE  /\ t[j].id < maxId
             /\ t[j].started /\ ~t[j].removed =>
                  due'[t[j].id] # Never /\ due'[t[j].id] <= t[j].last + t[j].left
  <2>1. t[j] = IF j = k THEN Rearmed ELSE table[j]
    BY <1>2, Facts
  <2> HIDE DEF t, k, then
  <2>2. CASE j = k
    <3>1. t[j] = Rearmed /\ Here = table[j]
      BY <1>2, <2>1, <2>2
    <3>2. t[j].id < maxId
      BY <1>3, <3>1 DEF TInv, IdsFresh
    <3>3. ASSUME Rearmed.started, ~Rearmed.removed
          PROVE  due'[Rearmed.id] # Never /\ due'[Rearmed.id] <= Rearmed.last + Rearmed.left
      <4>1. ~Here.single /\ Here.started /\ ~Here.removed
        BY <1>3, <3>3
      <4>2. Here.id \in held /\ Here.id \in Ids
        BY <3>1, <4>1, Facts DEF TInv, TableMatchesHandles
      <4>3. due'[Here.id] = then /\ then = Here.last + Here.timeout
        BY <1>5, <4>1, <4>2, Facts DEF then
      <4>4. due'[Rearmed.id] = Rearmed.last + Rearmed.left
        BY <1>3, <4>1, <4>3
      <4>5. Rearmed.last + Rearmed.left \in Nat
        BY <1>3, <1>6, <4>1, <4>3
      <4> QED
        BY <4>4, <4>5 DEF Never
    <3> QED
      BY <3>1, <3>2, <3>3
  <2>3. CASE j # k
    <3>1. t[j] = table[j]
      BY <2>1, <2>3
    <3>2. t[j].started /\ ~t[j].removed =>
            due[t[j].id] # Never /\ due[t[j].id] <= t[j].last + t[j].left
      BY <3>1 DEF TInv, KeepsPromises, Promise
    <3>3. ASSUME ~t[j].removed PROVE due'[t[j].id] = due[t[j].id]
      <4>1. t[j].id \in held /\ t[j].id \in Ids
        BY <3>1, <3>3, Facts DEF TInv, TableMatchesHandles
      <4>2. rearm => t[j].id # Here.id
        <5>1. k \in InUse => table[j].id # table[k].id
          BY <2>3 DEF TInv, TableMatchesHandles
        <5>2. k \notin InUse => ~Here.started
          BY <1>2 DEF TInv, FreeSlotsClean
        <5> QED
          BY <1>2, <3>1, <5>1, <5>2
      <4> QED
        BY <1>5, <4>1, <4>2, Facts
    <3>4. t[j].id < maxId
      BY <3>1 DEF TInv, IdsFresh
    <3> QED
      BY <3>2, <3>3, <3>4
  <2> QED
    BY <2>2, <2>3
<1> QED
  BY <1>1, <1>2, <1>4, <1>7, <1>8, PurgeStep

LEMMA BoundariesInv ==
  ASSUME TInv, Tick \/ PollBegin \/ PollEnd \/ UNCHANGED vars
  PROVE  TInv'
<1>1. UNCHANGED <<table, next, maxId, held, due>>
  BY DEF Tick, PollBegin, PollEnd, vars
<1>2. IdsFresh' /\ FreeSlotsClean' /\ KeepsPromises' /\ InUse' = InUse
  BY <1>1 DEF TInv, IdsFresh, FreeSlotsClean, KeepsPromises, Promise, InUse
<1>3. TableMatchesHandles'
  BY <1>1, <1>2 DEF TInv, TableMatchesHandles
<1>4. now' \in Instants /\ since' \in Instants
  BY Facts DEF Tick, PollBegin, PollEnd, vars, Instants
<1>5. frame' \in [1 .. MaxDepth -> Frame] /\ depth' \in 0 .. MaxDepth /\ InTable'
  <2>1. CASE Tick \/ UNCHANGED vars
    BY <2>1, FramesKept DEF Tick, vars
  <2>2. CASE PollBegin
    <3>1. depth' = depth + 1 /\ depth + 1 \in 1 .. MaxDepth
      BY <2>2, Facts DEF PollBegin
    <3>2. depth > 0 => Top.called \in Nat
      BY TopFrame DEF TInv, Frame
    <3>3. PICK ts \in (IF depth = 0 THEN since ELSE Top.called) .. now :
            frame' = [k \in 1 .. MaxDepth |->
                        IF k = depth + 1 THEN [NewFrame EXCEPT !.ts = ts]
                        ELSE IF k <= depth THEN [frame[k] EXCEPT !.nested = TRUE]
                        ELSE frame[k]]
      BY <2>2 DEF PollBegin
    <3>4. ts \in Nat
      BY <3>2, <3>3, Facts
    <3>5. [NewFrame EXCEPT !.ts = ts] \in Frame /\ [NewFrame EXCEPT !.ts = ts].i = 1
            /\ [NewFrame EXCEPT !.ts = ts].at = "scan"
      BY <3>4 DEF NewFrame, Frame
    <3>6. \A k \in 1 .. MaxDepth : /\ [frame[k] EXCEPT !.nested = TRUE] \in Frame
                                   /\ [frame[k] EXCEPT !.nested = TRUE].i = frame[k].i
                                   /\ [frame[k] EXCEPT !.nested = TRUE].at = frame[k].at
      <4>1. ASSUME NEW f \in Frame
            PROVE  /\ [f EXCEPT !.nested = TRUE] \in Frame
                   /\ [f EXCEPT !.nested = TRUE].i = f.i
                   /\ [f EXCEPT !.nested = TRUE].at = f.at
        BY DEF Frame
      <4> QED
        BY <4>1, Facts
    <3>7. frame' \in [1 .. MaxDepth -> Frame]
      BY <3>3, <3>5, <3>6, Facts
    <3>8. \A k \in 1 .. depth' : k \in 1 .. MaxDepth /\ (k = depth + 1 \/ k \in 1 .. depth)
      BY <3>1, Facts
    <3>9. InTable'
      BY <3>3, <3>5, <3>6, <3>8 DEF TInv, InTable
    <3> QED
      BY <3>1, <3>7, <3>9
  <2>3. CASE PollEnd
    <3>1. depth' = depth - 1 /\ depth \in 1 .. MaxDepth
      BY <2>3, Facts DEF PollEnd
    <3>2. frame' = [frame EXCEPT ![depth] = NewFrame]
      BY <2>3 DEF PollEnd
    <3>3. frame' \in [1 .. MaxDepth -> Frame]
      BY <3>1, <3>2, Facts, ZeroedType
    <3>4. \A k \in 1 .. depth' : k \in 1 .. depth /\ frame'[k] = frame[k]
      BY <3>1, <3>2, Facts
    <3>5. InTable'
      BY <3>4 DEF TInv, InTable
    <3> QED
      BY <3>1, <3>3, <3>5
  <2> QED
    BY <2>1, <2>2, <2>3
<1>6. TypeOK'
  BY <1>1, <1>4, <1>5 DEF TInv, TypeOK, Tick, PollBegin, PollEnd, vars
<1> QED
  BY <1>2, <1>3, <1>5, <1>6 DEF TInv

LEMMA NextTInv == TInv /\ [Next]_vars => TInv'
  BY AddTimeoutInv, RemoveTimeoutInv, StartTimerInv, StopTimerInv, SkipIdleInv,
     CountDownInv, FireInv, DropDueInv, CallbackReturnsInv, BoundariesInv DEF Next

THEOREM Invariance == Spec => []TInv
  BY InitTInv, NextTInv, PTL DEF Spec

\* Every variable keeps its type, next_timer_slot and the loop indexes included.
THEOREM TypeCorrect == Spec => []TypeOK
<1>1. TInv => TypeOK
  BY DEF TInv
<1> QED
  BY <1>1, Invariance, PTL

\* Adding, removing and compacting keep the table and the clients' handles in
\* step, for tables of any size and polls nested to any depth.
THEOREM TableSound == Spec => []TableMatchesHandles /\ []FreeSlotsClean
<1>1. TInv => TableMatchesHandles /\ FreeSlotsClean
  BY DEF TInv
<1> QED
  BY <1>1, Invariance, PTL

\* No callback runs for a timer nobody holds, or before its time, whatever
\* callbacks do to the table and however polls nest.
THEOREM NoTimerEarly == Spec => NeverEarly
<1>1. TInv /\ [Next]_vars =>
        [Fire => Here.id \in held /\ due[Here.id] # Never /\ due[Here.id] <= Top.ts]_vars
  BY FireInv
<1> QED
  BY <1>1, Invariance, PTL DEF Spec, NeverEarly

-----------------------------------------------------------------------------
\* What a poll has passed by: the entries behind its index that are due at the time it was
\* given.
Late(t, ts) == t.started /\ t.last < ts /\ t.left <= ts - t.last
PassedBy == {k \in InUse : k < Top.i /\ Late(table[k], Top.ts)}

\* The polls below the innermost have been polled in; the innermost one has passed by at
\* most one due timer for each entry it dropped, as long as nothing polled inside it, and
\* the timer whose callback it is in was counted or started since.
PollsKeepUp ==
  /\ \A k \in 1 .. depth : frame[k].ts <= now /\ (k < depth => frame[k].nested)
  /\ depth > 0 /\ ~Top.nested =>
       /\ Cardinality(PassedBy) <= Top.dropped
       /\ Top.at = "callback" => Top.i <= next /\ ~(table[Top.i].last < Top.ts)

\* What is passed by is finitely many, and what is less is not more.
LEMMA PassedByLess ==
  ASSUME NEW n \in Nat, NEW S, NEW T \in SUBSET (1 .. n), S \subseteq T
  PROVE  /\ IsFiniteSet(S) /\ Cardinality(S) \in Nat /\ Cardinality(T) \in Nat
         /\ Cardinality(S) <= Cardinality(T)
<1>1. IsFiniteSet(1 .. n)
  BY FS_Interval
<1>2. IsFiniteSet(T) /\ IsFiniteSet(S)
  BY <1>1, FS_Subset
<1> QED
  BY <1>2, FS_Subset, FS_CardinalityType

LEMMA OneMore ==
  ASSUME NEW n \in Nat, NEW S, NEW T \in SUBSET (1 .. n), NEW i, S \subseteq T \cup {i}
  PROVE  Cardinality(S) \in Nat /\ Cardinality(T) \in Nat /\ Cardinality(S) <= Cardinality(T) + 1
<1>1. IsFiniteSet(T) /\ Cardinality(T) \in Nat
  BY PassedByLess
<1>2. /\ IsFiniteSet(T \cup {i}) /\ Cardinality(T \cup {i}) \in Nat
      /\ Cardinality(T \cup {i}) <= Cardinality(T) + 1
  <2>1. /\ IsFiniteSet(T \cup {i})
        /\ Cardinality(T \cup {i}) = IF i \in T THEN Cardinality(T) ELSE Cardinality(T) + 1
    BY <1>1, FS_AddElement
  <2> QED
    BY <1>1, <2>1
<1>3. Cardinality(S) <= Cardinality(T \cup {i}) /\ IsFiniteSet(S)
  BY <1>2, FS_Subset
<1> QED
  BY <1>1, <1>2, <1>3, FS_CardinalityType

LEMMA PassedByIn ==
  ASSUME TInv
  PROVE  next \in Nat /\ PassedBy \in SUBSET (1 .. next)
  BY Facts DEF PassedBy

\* A client acts while no poll runs or one is in a callback: what it does to the entries
\* makes none of them late.
LEMMA ClientKeepsUp ==
  ASSUME TInv, PollsKeepUp, InClient, UNCHANGED <<frame, depth, now>>,
         next' \in Nat, next' >= next,
         \A k \in InUse : ~Top.nested /\ depth > 0 /\ Late(table'[k], Top.ts) => Late(table[k], Top.ts),
         \A k \in InUse : ~Top.nested /\ depth > 0 /\ table'[k].last < Top.ts => table[k].last < Top.ts
  PROVE  PollsKeepUp'
<1>1. Top' = Top
  BY DEF Top
<1>2. ASSUME depth > 0, ~Top.nested
      PROVE  /\ (Cardinality(PassedBy) <= Top.dropped)'
             /\ Top.i <= next' /\ ~(table'[Top.i].last < Top.ts)
  <2>1. /\ Top.at = "callback" /\ Cardinality(PassedBy) <= Top.dropped
        /\ Top.i <= next /\ ~(table[Top.i].last < Top.ts)
    BY <1>2 DEF PollsKeepUp, InClient
  <2>2. Top \in Frame /\ Top.i >= 1
    BY <1>2, TopFrame DEF TInv, InTable, Top
  <2>3. Top.i \in InUse /\ next \in Nat /\ InUse = 1 .. next
    BY <2>1, <2>2, Facts DEF Frame
  <2>4. PassedBy' \subseteq PassedBy
    <3> SUFFICES ASSUME NEW k \in PassedBy' PROVE k \in PassedBy
      OBVIOUS
    <3>1. k \in 1 .. next' /\ k < Top.i /\ Late(table'[k], Top.ts)
      BY <1>1 DEF PassedBy, InUse, Late
    <3>2. k \in InUse
      BY <2>3, <3>1
    <3> QED
      BY <1>2, <3>1, <3>2 DEF PassedBy
  <2>5. Cardinality(PassedBy') <= Cardinality(PassedBy) /\ Cardinality(PassedBy') \in Nat /\ Cardinality(PassedBy) \in Nat
    BY <2>4, PassedByIn, PassedByLess
  <2>6. Top.dropped \in Nat
    BY <2>2 DEF Frame
  <2>7. Cardinality(PassedBy)' <= Top.dropped
    BY <2>1, <2>5, <2>6
  <2>8. Top.i <= next'
    BY <2>1, <2>2, <2>3 DEF Frame
  <2> QED
    BY <1>1, <1>2, <2>1, <2>3, <2>7, <2>8
<1>3. (depth > 0 /\ ~Top.nested =>
       /\ Cardinality(PassedBy) <= Top.dropped
       /\ Top.at = "callback" => Top.i <= next /\ ~(table[Top.i].last < Top.ts))'
  BY <1>1, <1>2
<1> QED
  BY <1>3 DEF PollsKeepUp

LEMMA ClientsKeepUp ==
  ASSUME TInv, PollsKeepUp,
         \/ \E timeout \in Timeouts, single \in BOOLEAN : AddTimeout(timeout, single)
         \/ \E id \in Ids : RemoveTimeout(id) \/ StartTimer(id) \/ StopTimer(id)
  PROVE  PollsKeepUp'
<1>1. /\ table \in [Index -> Timer] /\ next \in Nat /\ now \in Nat
      /\ InUse \subseteq Index /\ InUse = 1 .. next
  BY Facts
<1>2. ASSUME NEW timeout \in Timeouts, NEW single \in BOOLEAN, AddTimeout(timeout, single)
      PROVE  PollsKeepUp'
  <2> DEFINE new == [table[next + 1] EXCEPT !.id = maxId, !.timeout = timeout, !.last = 0,
                                             !.started = FALSE, !.single = single]
  <2>1. /\ table' = [table EXCEPT ![next + 1] = new] /\ next' = next + 1 /\ InClient
        /\ UNCHANGED <<frame, depth, now>>
    BY <1>2 DEF AddTimeout
  <2> HIDE DEF new
  <2>2. next + 1 \notin InUse
    BY <1>1
  <2>3. \A k \in InUse : table'[k] = table[k]
    BY <1>1, <2>1, <2>2
  <2> QED
    BY <1>1, <2>1, <2>3, ClientKeepsUp
<1>3. ASSUME NEW id \in Ids, RemoveTimeout(id)
      PROVE  PollsKeepUp'
  <2>1. \A k \in InUse : /\ table'[k].started = table[k].started /\ table'[k].last = table[k].last
                         /\ table'[k].left = table[k].left
    <3> SUFFICES ASSUME NEW k \in InUse
                 PROVE  /\ table'[k].started = table[k].started /\ table'[k].last = table[k].last
                        /\ table'[k].left = table[k].left
      OBVIOUS
    <3>1. table'[k] \in {table[k], [table[k] EXCEPT !.removed = TRUE]} /\ table[k] \in Timer
      BY <1>1, <1>3 DEF RemoveTimeout
    <3> QED
      BY <3>1 DEF Timer
  <2> QED
    BY <1>1, <1>3, <2>1, ClientKeepsUp DEF RemoveTimeout, Late
<1>4. ASSUME NEW id \in Ids, StartTimer(id)
      PROVE  PollsKeepUp'
  <2>1. ASSUME NEW k \in InUse, depth > 0
        PROVE  table'[k] = table[k] \/ ~(table'[k].last < Top.ts)
    <3>1. table'[k] \in {table[k], Armed(table[k])} /\ table[k] \in Timer
      BY <1>1, <1>4 DEF StartTimer
    <3>2. Armed(table[k]).last = now
      BY <3>1 DEF Armed, Timer
    <3>3. Top.ts <= now /\ Top.ts \in Nat
      BY <2>1, TopFrame DEF PollsKeepUp, Top, TInv, Frame
    <3> QED
      BY <1>1, <3>1, <3>2, <3>3
  <2>2. \A k \in InUse : depth > 0 /\ Late(table'[k], Top.ts) => Late(table[k], Top.ts)
    BY <2>1 DEF Late
  <2>3. \A k \in InUse : depth > 0 /\ table'[k].last < Top.ts => table[k].last < Top.ts
    BY <2>1
  <2>4. InClient /\ UNCHANGED <<frame, depth, now, next>>
    BY <1>4 DEF StartTimer
  <2>5. next' \in Nat /\ next' >= next
    BY <1>1, <2>4
  <2> QED
    BY <2>2, <2>3, <2>4, <2>5, ClientKeepsUp
<1>5. ASSUME NEW id \in Ids, StopTimer(id)
      PROVE  PollsKeepUp'
  <2>1. \A k \in InUse : table'[k].last = table[k].last /\ (table'[k] = table[k] \/ ~table'[k].started)
    <3> SUFFICES ASSUME NEW k \in InUse
                 PROVE  table'[k].last = table[k].last /\ (table'[k] = table[k] \/ ~table'[k].started)
      OBVIOUS
    <3>1. table'[k] \in {table[k], [table[k] EXCEPT !.started = FALSE]} /\ table[k] \in Timer
      BY <1>1, <1>5 DEF StopTimer
    <3> QED
      BY <3>1 DEF Timer
  <2> QED
    BY <1>1, <1>5, <2>1, ClientKeepsUp DEF StopTimer, Late
<1> QED
  BY <1>2, <1>3, <1>4, <1>5

\* A step of the innermost poll to the frame f: f, with the table as it is then, is what
\* the second part asks of it.
LEMMA PollKeepsUp ==
  ASSUME TInv, PollsKeepUp, depth > 0, NEW f \in Frame,
         frame' = [frame EXCEPT ![depth] = f], UNCHANGED <<depth, now>>,
         f.ts = Top.ts, f.nested = Top.nested,
         ~f.nested => /\ Cardinality(PassedBy') <= f.dropped
                      /\ f.at = "callback" => f.i <= next' /\ ~(table'[f.i].last < f.ts)
  PROVE  PollsKeepUp'
<1>1. depth \in 1 .. MaxDepth /\ frame \in [1 .. MaxDepth -> Frame] /\ Top' = f
  BY TopFrame, Facts DEF TInv, Top
<1>2. ASSUME NEW k \in 1 .. depth
      PROVE  frame'[k].ts <= now /\ (k < depth => frame'[k].nested)
  <2>1. k \in 1 .. MaxDepth
    BY <1>1
  <2>2. (k # depth => frame'[k] = frame[k]) /\ frame'[depth] = f
    BY <1>1, <2>1
  <2> QED
    BY <1>1, <2>2 DEF PollsKeepUp, Top
<1>3. (depth > 0 /\ ~Top.nested =>
       /\ Cardinality(PassedBy) <= Top.dropped
       /\ Top.at = "callback" => Top.i <= next /\ ~(table[Top.i].last < Top.ts))'
  BY <1>1
<1> QED
  BY <1>2, <1>3 DEF PollsKeepUp

\* The scan moves to the next entry, or calls, and the entry it leaves is not late.
LEMMA ScanKeepsUp ==
  ASSUME TInv, PollsKeepUp, SkipIdle \/ CountDown \/ Fire
  PROVE  PollsKeepUp'
<1> DEFINE i == Top.i
           f == IF Fire THEN [Top EXCEPT !.at = "callback", !.called = now] ELSE [Top EXCEPT !.i = @ + 1]
<1>1. /\ depth > 0 /\ Scanning /\ Top \in Frame /\ i \in InUse /\ i \in Index /\ i \in Nat /\ Here \in Timer
      /\ Here = table[i] /\ Top.ts \in Nat /\ InUse = 1 .. next /\ next \in Nat
      /\ table \in [Index -> Timer] /\ InUse \subseteq Index /\ now \in Nat /\ Top = frame[depth]
  <2>1. Scanning
    BY DEF SkipIdle, CountDown, Fire
  <2> QED
    BY <2>1, ScanFacts, Facts DEF Scanning
<1>2. /\ frame' = [frame EXCEPT ![depth] = f] /\ UNCHANGED <<depth, now, next>>
      /\ table' = IF SkipIdle THEN table ELSE [table EXCEPT ![i] = Counted]
  <2>1. CASE SkipIdle
    <3>1. ~Fire
      BY <2>1 DEF SkipIdle, Fire
    <3> QED
      BY <1>1, <2>1, <3>1 DEF SkipIdle
  <2>2. CASE CountDown
    <3>1. ~Fire /\ ~SkipIdle
      BY <1>1, <2>2 DEF CountDown, Fire, SkipIdle, Remaining, Timer
    <3> QED
      BY <1>1, <2>2, <3>1 DEF CountDown
  <2>3. CASE Fire
    <3>1. ~SkipIdle
      BY <2>3 DEF SkipIdle, Fire
    <3> QED
      BY <1>1, <2>3, <3>1 DEF Fire
  <2> QED
    BY <2>1, <2>2, <2>3
<1>3. /\ f \in Frame /\ f.ts = Top.ts /\ f.nested = Top.nested /\ f.dropped = Top.dropped
      /\ f.i = (IF Fire THEN i ELSE i + 1) /\ (~Fire => f.at = "scan") /\ (Fire => f.at = "callback")
  <2>1. CASE Fire
    <3>1. f = [Top EXCEPT !.at = "callback", !.called = now]
      BY <2>1
    <3> QED
      BY <1>1, <2>1, <3>1 DEF Frame
  <2>2. CASE ~Fire
    <3>1. f = [Top EXCEPT !.i = @ + 1]
      BY <2>2
    <3> HIDE DEF f
    <3>2. f \in Frame
      BY <1>1, <3>1, StepType
    <3>3. f.ts = Top.ts /\ f.nested = Top.nested /\ f.dropped = Top.dropped /\ f.at = Top.at
          /\ f.i = i + 1
      BY <1>1, <3>1 DEF Frame
    <3> QED
      BY <1>1, <2>2, <3>2, <3>3 DEF Scanning
  <2> QED
    BY <2>1, <2>2
<1>4. Counted.last = Top.ts /\ Counted.started = Here.started
  BY <1>1 DEF Counted, Timer
<1>5. ~Late(table'[i], Top.ts) /\ (Fire => ~(table'[i].last < Top.ts))
      /\ \A k \in InUse : k # i => table'[k] = table[k]
  <2>1. CASE SkipIdle
    <3>1. ~Fire
      BY <2>1 DEF SkipIdle, Fire
    <3>2. ~Counts /\ table' = table
      BY <1>2, <2>1 DEF SkipIdle
    <3> QED
      BY <1>1, <3>1, <3>2 DEF Counts, Late
  <2>2. CASE ~SkipIdle
    <3>1. table' = [table EXCEPT ![i] = Counted]
      BY <1>2, <2>2
    <3>2. table'[i] = Counted /\ \A k \in InUse : k # i => table'[k] = table[k]
      BY <1>1, <3>1
    <3> QED
      BY <1>1, <1>4, <3>2 DEF Late
  <2> QED
    BY <2>1, <2>2
<1> HIDE DEF f
<1>6. Top' = f
  BY <1>1, <1>2, Facts DEF Top
<1>7. PassedBy' \subseteq PassedBy
  <2> SUFFICES ASSUME NEW k \in PassedBy' PROVE k \in PassedBy
    OBVIOUS
  <2>1. k \in 1 .. next /\ k < f.i /\ Late(table'[k], Top.ts)
    BY <1>2, <1>3, <1>6 DEF PassedBy, InUse, Late
  <2>2. k # i
    BY <1>5, <2>1
  <2>3. k < i
    BY <1>1, <1>3, <2>1, <2>2
  <2> QED
    BY <1>1, <1>5, <2>1, <2>2, <2>3 DEF PassedBy
<1>8. ASSUME ~f.nested
      PROVE  Cardinality(PassedBy') <= f.dropped
  <2>1. Cardinality(PassedBy) <= Top.dropped /\ Top.dropped \in Nat
    BY <1>1, <1>3, <1>8 DEF PollsKeepUp, Frame
  <2>2. Cardinality(PassedBy') <= Cardinality(PassedBy) /\ Cardinality(PassedBy') \in Nat /\ Cardinality(PassedBy) \in Nat
    BY <1>7, PassedByIn, PassedByLess
  <2> QED
    BY <1>3, <2>1, <2>2
<1>9. f.at = "callback" => f.i <= next' /\ ~(table'[f.i].last < f.ts)
  BY <1>1, <1>2, <1>3, <1>5
<1> QED
  BY <1>1, <1>2, <1>3, <1>8, <1>9, PollKeepsUp

\* An entry that is not late any more is passed by, or dropped: then the last one takes its
\* place, and it is the only one that may be passed by late.
LEMMA PurgeKeepsUp ==
  ASSUME TInv, PollsKeepUp, depth > 0, NEW new \in Timer, Top.i \in Index,
         ~Top.nested => Top.i <= next /\ ~Late(new, Top.ts),
         PurgeAndStep([table EXCEPT ![Top.i] = new]), UNCHANGED <<depth, now>>
  PROVE  PollsKeepUp'
<1> DEFINE i == Top.i
           t == [table EXCEPT ![i] = new]
           f == [at |-> "scan", i |-> Following, ts |-> Top.ts, called |-> 0,
                 dropped |-> IF t[i].removed THEN Top.dropped + 1 ELSE Top.dropped,
                 nested |-> Top.nested]
<1>1. /\ table \in [Index -> Timer] /\ next \in Nat /\ next \in 0 .. MaxTimers
      /\ InUse = 1 .. next /\ InUse \subseteq Index /\ i \in Index
  BY Facts
<1>2. Top \in Frame /\ i \in Nat /\ Top.dropped \in Nat /\ Following = i + 1 /\ i >= 1
  BY <1>1, TopFrame DEF TInv, Frame, Following, Index
<1>3. t \in [Index -> Timer] /\ t[i] = new /\ \A k \in Index : k # i => t[k] = table[k]
  BY <1>1
<1> HIDE DEF t
<1>4. /\ table' = Purge(t, i) /\ next' = IF t[i].removed THEN next - 1 ELSE next
      /\ frame' = [frame EXCEPT ![depth] = f]
  BY DEF PurgeAndStep, t
<1>5. f \in Frame /\ f.ts = Top.ts /\ f.nested = Top.nested /\ f.at = "scan" /\ f.i = i + 1
      /\ f.dropped = IF t[i].removed THEN Top.dropped + 1 ELSE Top.dropped
  BY <1>2 DEF Frame
<1> HIDE DEF f
<1>6. Top' = f
  BY <1>4, <1>5, TopFrame, Facts DEF TInv, Top
<1>7. ASSUME ~f.nested
      PROVE  Cardinality(PassedBy') <= f.dropped
  <2>1. Cardinality(PassedBy) <= Top.dropped /\ i <= next /\ ~Late(new, Top.ts)
    BY <1>5, <1>7 DEF PollsKeepUp
  <2>2. PassedBy \in SUBSET (1 .. next)
    BY PassedByIn
  <2>3. PassedBy' = {k \in 1 .. next' : k < i + 1 /\ Late(table'[k], Top.ts)}
    BY <1>5, <1>6 DEF PassedBy, InUse, Late
  <2>4. CASE t[i].removed
    <3>1. table' = [[t EXCEPT ![i] = t[next]] EXCEPT ![next] = Zeroed] /\ next' = next - 1
      BY <1>4, <2>4 DEF Purge
    <3>2. PassedBy' \subseteq PassedBy \cup {i}
      <4> SUFFICES ASSUME NEW k \in PassedBy', k # i PROVE k \in PassedBy
        OBVIOUS
      <4>1. k \in 1 .. next - 1 /\ k < i + 1 /\ Late(table'[k], Top.ts)
        BY <2>3, <3>1
      <4>2. k \in 1 .. next /\ k # next /\ k < i /\ k \in Index
        BY <1>1, <1>2, <4>1 DEF Index
      <4>3. table'[k] = table[k]
        BY <1>3, <3>1, <4>2
      <4> QED
        BY <1>1, <4>1, <4>2, <4>3 DEF PassedBy
    <3>3. Cardinality(PassedBy') \in Nat /\ Cardinality(PassedBy) \in Nat
          /\ Cardinality(PassedBy') <= Cardinality(PassedBy) + 1
      BY <1>1, <2>2, <3>2, OneMore
    <3> QED
      BY <1>2, <1>5, <2>1, <2>4, <3>3
  <2>5. CASE ~t[i].removed
    <3>1. table' = t /\ next' = next
      BY <1>4, <2>5 DEF Purge
    <3>2. PassedBy' \subseteq PassedBy
      <4> SUFFICES ASSUME NEW k \in PassedBy' PROVE k \in PassedBy
        OBVIOUS
      <4>1. k \in 1 .. next /\ k < i + 1 /\ Late(t[k], Top.ts)
        BY <2>3, <3>1
      <4>2. k # i
        BY <1>3, <2>1, <4>1
      <4>3. k < i /\ k \in Index
        BY <1>1, <1>2, <4>1, <4>2
      <4> QED
        BY <1>1, <1>3, <4>1, <4>2, <4>3 DEF PassedBy
    <3>3. Cardinality(PassedBy') \in Nat /\ Cardinality(PassedBy) \in Nat
          /\ Cardinality(PassedBy') <= Cardinality(PassedBy)
      BY <1>1, <2>2, <3>2, PassedByLess
    <3> QED
      BY <1>2, <1>5, <2>1, <2>5, <3>3
  <2> QED
    BY <2>4, <2>5
<1> QED
  BY <1>4, <1>5, <1>7, PollKeepsUp

LEMMA DropsKeepUp ==
  ASSUME TInv, PollsKeepUp, DropDue \/ CallbackReturns
  PROVE  PollsKeepUp'
<1>1. CASE DropDue
  <2>1. Scanning /\ PurgeAndStep([table EXCEPT ![Top.i] = Counted]) /\ UNCHANGED <<depth, now>>
    BY <1>1 DEF DropDue
  <2>2. /\ depth > 0 /\ Top.i \in Index /\ Top.i <= next /\ Here \in Timer /\ Top.ts \in Nat
    BY <2>1, ScanFacts DEF Scanning
  <2>3. Counted \in Timer /\ Counted.last = Top.ts
    BY <2>2, CountedType DEF Counted, Timer
  <2>4. ~Late(Counted, Top.ts)
    BY <2>2, <2>3 DEF Late
  <2> QED
    BY <2>1, <2>2, <2>3, <2>4, PurgeKeepsUp
<1>2. CASE CallbackReturns
  <2>1. /\ depth > 0 /\ Top.at = "callback" /\ UNCHANGED <<depth, now>>
        /\ PurgeAndStep([table EXCEPT ![Top.i] = Rearmed])
    BY <1>2 DEF CallbackReturns
  <2>2. Top.i \in Index /\ depth \in 1 .. MaxDepth
    BY <2>1, TopFrame DEF TInv, InTable, Top
  <2>3. Here \in Timer
    BY <2>2, Facts DEF Here
  <2>4. Rearmed \in Timer /\ Rearmed.last = Here.last
    BY <2>3, RearmedType
  <2>5. ~Top.nested => Top.i <= next /\ ~Late(Rearmed, Top.ts)
    BY <2>1, <2>4 DEF PollsKeepUp, Late, Here
  <2> QED
    BY <2>1, <2>2, <2>4, <2>5, PurgeKeepsUp
<1> QED
  BY <1>1, <1>2

LEMMA BoundariesKeepUp ==
  ASSUME TInv, PollsKeepUp, Tick \/ PollBegin \/ PollEnd \/ UNCHANGED vars
  PROVE  PollsKeepUp'
<1>1. /\ now \in Nat /\ frame \in [1 .. MaxDepth -> Frame] /\ depth \in 0 .. MaxDepth
      /\ \A k \in 1 .. depth : frame[k].ts \in Nat /\ frame[k].called \in Nat
  <2>1. /\ now \in Nat /\ frame \in [1 .. MaxDepth -> Frame] /\ depth \in 0 .. MaxDepth
    BY Facts
  <2>2. \A k \in 1 .. depth : frame[k] \in Frame
    BY <2>1
  <2> QED
    BY <2>1, <2>2 DEF Frame
<1>2. CASE Tick \/ UNCHANGED vars
  <2>1. UNCHANGED <<table, next, frame, depth>> /\ now' \in {now, now + 1}
    BY <1>2 DEF Tick, vars
  <2>2. Top' = Top /\ PassedBy' = PassedBy
    BY <2>1 DEF Top, PassedBy, InUse, Late
  <2> QED
    BY <1>1, <2>1, <2>2 DEF PollsKeepUp
<1>3. CASE PollBegin
  <2>1. PICK ts \in (IF depth = 0 THEN since ELSE Top.called) .. now :
          frame' = [k \in 1 .. MaxDepth |->
                      IF k = depth + 1 THEN [NewFrame EXCEPT !.ts = ts]
                      ELSE IF k <= depth THEN [frame[k] EXCEPT !.nested = TRUE]
                      ELSE frame[k]]
    BY <1>3 DEF PollBegin
  <2>2. depth' = depth + 1 /\ depth < MaxDepth /\ UNCHANGED <<table, next, now>>
    BY <1>3 DEF PollBegin
  <2>3. depth + 1 \in 1 .. MaxDepth /\ depth \in Nat
    BY <1>1, <2>2
  <2>4. frame'[depth + 1] = [NewFrame EXCEPT !.ts = ts]
    BY <2>1, <2>3
  <2>5. Top'.i = 1 /\ Top'.ts = ts /\ Top'.at = "scan" /\ Top'.dropped = 0
    BY <2>2, <2>4 DEF Top, NewFrame
  <2>6. ASSUME NEW k \in 1 .. depth'
        PROVE  frame'[k].ts <= now' /\ (k < depth' => frame'[k].nested)
    <3>1. CASE k = depth + 1
      BY <2>1, <2>2, <2>4, <3>1, <1>1, Facts, TopFrame DEF NewFrame, TInv, Frame
    <3>2. CASE k <= depth
      <4>1. k \in 1 .. depth /\ k \in 1 .. MaxDepth /\ k # depth + 1
        BY <1>1, <2>3, <3>2
      <4>2. frame'[k] = [frame[k] EXCEPT !.nested = TRUE] /\ frame[k] \in Frame
        BY <1>1, <2>1, <3>2, <4>1
      <4>3. frame'[k].ts = frame[k].ts /\ frame'[k].nested
        BY <4>2 DEF Frame
      <4> QED
        BY <2>2, <4>1, <4>3 DEF PollsKeepUp
    <3> QED
      BY <2>2, <2>3, <3>1, <3>2
  <2>7. PassedBy' = {}
    BY <2>5, Facts, <2>2 DEF PassedBy, InUse
  <2>8. Cardinality(PassedBy') <= Top'.dropped
    BY <2>5, <2>7, FS_EmptySet
  <2> QED
    BY <2>5, <2>6, <2>8 DEF PollsKeepUp
<1>4. CASE PollEnd
  <2>1. /\ depth > 0 /\ depth' = depth - 1 /\ frame' = [frame EXCEPT ![depth] = NewFrame]
        /\ UNCHANGED <<table, next, now>>
    BY <1>4 DEF PollEnd
  <2>2. ASSUME NEW k \in 1 .. depth'
        PROVE  frame'[k].ts <= now' /\ frame'[k].nested
    <3>1. k \in 1 .. depth /\ k < depth /\ k \in 1 .. MaxDepth
      BY <1>1, <2>1
    <3>2. frame'[k] = frame[k]
      BY <1>1, <2>1, <3>1
    <3> QED
      BY <2>1, <3>1, <3>2 DEF PollsKeepUp
  <2>3. depth' > 0 => Top'.nested
    <3>1. depth' > 0 => depth' \in 1 .. depth'
      BY <1>1, <2>1
    <3> QED
      BY <2>2, <3>1 DEF Top
  <2> QED
    BY <2>2, <2>3 DEF PollsKeepUp
<1> QED
  BY <1>2, <1>3, <1>4

LEMMA NextKeepsUp == TInv /\ PollsKeepUp /\ [Next]_vars => PollsKeepUp'
<1> SUFFICES ASSUME TInv, PollsKeepUp, [Next]_vars PROVE PollsKeepUp'
  OBVIOUS
<1> QED
  BY ClientsKeepUp, ScanKeepsUp, DropsKeepUp, BoundariesKeepUp DEF Next

\* However timers are added, started, stopped and removed from callbacks and the table is
\* compacted: a poll in which nothing else polled ends with at most one due timer that it
\* has not called for each entry it dropped.
THEOREM PollsArePunctual == Spec => Punctual
<1>1. Init => PollsKeepUp
  BY DEF Init, PollsKeepUp
<1>2. TInv /\ PollsKeepUp /\ PollEnd /\ ~Top.nested => Cardinality(Overdue) <= Top.dropped
  <2> SUFFICES ASSUME TInv, PollsKeepUp, PollEnd, ~Top.nested
               PROVE  Cardinality(Overdue) <= Top.dropped
    OBVIOUS
  <2>1. depth > 0 /\ Top.i > next /\ Top \in Frame
    BY TopFrame DEF PollEnd, TInv
  <2>2. InUse = 1 .. next /\ next \in Nat /\ Top.i \in Nat
    BY <2>1, Facts DEF Frame
  <2>3. Overdue = PassedBy
    BY <2>1, <2>2 DEF Overdue, PassedBy, Late
  <2> QED
    BY <2>1, <2>3 DEF PollsKeepUp
<1>3. Spec => []PollsKeepUp
  BY <1>1, NextKeepsUp, Invariance, PTL DEF Spec
<1>4. TInv /\ PollsKeepUp /\ [Next]_vars => [PollEnd /\ ~Top.nested => Cardinality(Overdue) <= Top.dropped]_vars
  BY <1>2
<1> QED
  BY <1>3, <1>4, Invariance, PTL DEF Spec, Punctual
=============================================================================
