----------------------------- MODULE QueryPathProofs -----------------------------
(* Queries against refreshes, closes and swaps, for any finite sets of        *)
(* threads and any bounds: the querier and the connection of a query stay     *)
(* until it is over.  What the two locks promise is taken from the theorems   *)
(* about ReaderWriterLock, one instance for each lock.  And what a query      *)
(* answers, for any questions and limits: see Retrieval at the end.           *)
EXTENDS QueryPath, Retrieval, FiniteSetTheorems, SequenceTheorems, TLAPS

IL == INSTANCE ReaderWriterLockProofs
  WITH readers <- iReaders, writers <- iWriters, writerActive <- iActive,
       at <- iAt, notified <- iNotified
SL == INSTANCE ReaderWriterLockProofs
  WITH readers <- sReaders, writers <- sWriters, writerActive <- sActive,
       at <- sAt, notified <- sNotified

(* Where a thread is in the two locks when it is at a place of its call.      *)
SharesIndex == {"checkQuerier", "enterStore", "checkStore", "reopenStore", "reopening", "signing",
                "run", "leaveIndex"}
OwnsIndex == {"creating", "closing", "closingStore", "discard"}
SharesStore == {"checkStore", "run"}
OwnsStore == {"reopening", "signing", "closingStore"}
OutOfStore == {"idle", "enterIndex", "checkQuerier", "createQuerier", "creating", "leaveIndex",
               "closeIndex", "discard"}

PlacedAt(place, index, store) ==
  /\ place \in SharesIndex => index = "read"
  /\ place \in OwnsIndex => index = "write"
  /\ place = "idle" => index = "out"
  /\ place = "enterIndex" => index \in {"out", "waitRead"}
  /\ place \in {"createQuerier", "closeIndex"} => index \in {"out", "waitWrite"}
  /\ place \in SharesStore => store = "read"
  /\ place \in OwnsStore => store = "write"
  /\ place \in OutOfStore => store = "out"
  /\ place = "enterStore" => store \in {"out", "waitRead"}
  /\ place \in {"reopenStore", "closing"} => store \in {"out", "waitWrite"}

(* A call past the check of the querier is in it, a query runs on a           *)
(* connection, and a close waits for the store of a querier that is there.    *)
InQuerier == SharesIndex \ {"checkQuerier"}
ServedAt(place, store) ==
  /\ place \in InQuerier \/ (place = "closing" /\ store = "waitWrite") => querier
  /\ place = "run" => conn # NoConn

PathTypes ==
  /\ file \in 0 .. MaxFiles
  /\ querier \in BOOLEAN
  /\ conn \in Conns
  /\ opening \in Conns
  /\ closes \in 0 .. MaxCloses
  /\ pc \in [Threads -> ClientPlaces \union CloserPlaces]
  /\ \A t \in Clients : pc[t] \in ClientPlaces
  /\ \A t \in Closers : pc[t] \in CloserPlaces

PathInv ==
  /\ PathTypes
  /\ IL!IInv
  /\ SL!IInv
  /\ \A t \in Threads : PlacedAt(pc[t], iAt[t], sAt[t]) /\ ServedAt(pc[t], sAt[t])

LEMMA FinitelyManyThreads == IsFiniteSet(Threads)
  BY ThreadsAssumption, FS_Union DEF Threads

(* What a step on a lock does to it, and where it leaves the thread.         *)
LEMMA IndexLockKeeps ==
  ASSUME IL!IInv, NEW t \in Threads, I!Step(t)
  PROVE  IL!IInv'
<1>1. IL!Step(t)
  BY DEF I!Step, I!AcquireRead, I!ParkReader, I!ReleaseRead, I!AcquireWrite, I!ParkWriter, I!ReleaseWrite,
         I!Looks, I!Move, I!Waiting, I!In, I!ReadBlocked, I!WriteBlocked,
         IL!Step, IL!AcquireRead, IL!ParkReader, IL!ReleaseRead, IL!AcquireWrite, IL!ParkWriter, IL!ReleaseWrite,
         IL!Looks, IL!Move, IL!Waiting, IL!In, IL!ReadBlocked, IL!WriteBlocked
<1>2. IL!TypeOK' /\ IL!CountsExact' /\ IL!Exclusion'
  BY <1>1, IL!StepTypeOK, IL!StepCounts, IL!StepExclusion
<1> QED
  BY <1>2, FinitelyManyThreads DEF IL!IInv

LEMMA StoreLockKeeps ==
  ASSUME SL!IInv, NEW t \in Threads, S!Step(t)
  PROVE  SL!IInv'
<1>1. SL!Step(t)
  BY DEF S!Step, S!AcquireRead, S!ParkReader, S!ReleaseRead, S!AcquireWrite, S!ParkWriter, S!ReleaseWrite,
         S!Looks, S!Move, S!Waiting, S!In, S!ReadBlocked, S!WriteBlocked,
         SL!Step, SL!AcquireRead, SL!ParkReader, SL!ReleaseRead, SL!AcquireWrite, SL!ParkWriter, SL!ReleaseWrite,
         SL!Looks, SL!Move, SL!Waiting, SL!In, SL!ReadBlocked, SL!WriteBlocked
<1>2. SL!TypeOK' /\ SL!CountsExact' /\ SL!Exclusion'
  BY <1>1, SL!StepTypeOK, SL!StepCounts, SL!StepExclusion
<1> QED
  BY <1>2, FinitelyManyThreads DEF SL!IInv

AtIndex(t, there) == iAt'[t] = there /\ \A u \in Threads : u # t => iAt'[u] = iAt[u]
AtStore(t, there) == sAt'[t] = there /\ \A u \in Threads : u # t => sAt'[u] = sAt[u]

LEMMA IndexLockSteps ==
  ASSUME IL!IInv, NEW t \in Threads
  PROVE  /\ I!AcquireRead(t) => IL!IInv' /\ AtIndex(t, "read")
         /\ I!ParkReader(t) => IL!IInv' /\ AtIndex(t, "waitRead")
         /\ I!ReleaseRead(t) => IL!IInv' /\ AtIndex(t, "out")
         /\ I!AcquireWrite(t) => IL!IInv' /\ AtIndex(t, "write")
         /\ I!ParkWriter(t) => IL!IInv' /\ AtIndex(t, "waitWrite")
         /\ I!ReleaseWrite(t) => IL!IInv' /\ AtIndex(t, "out")
         /\ UNCHANGED iLock => IL!IInv' /\ AtIndex(t, iAt[t])
<1>1. iAt \in [Threads -> IL!Places]
  BY DEF IL!IInv, IL!TypeOK
<1>2. I!Step(t) => IL!IInv'
  BY IndexLockKeeps
<1>3. \A to : I!Move(t, to) => AtIndex(t, to)
  BY <1>1 DEF I!Move, AtIndex
<1>4. UNCHANGED iLock => IL!IInv' /\ AtIndex(t, iAt[t])
  BY DEF iLock, AtIndex, IL!IInv, IL!TypeOK, IL!CountsExact, IL!Exclusion, IL!In, IL!Waiting
<1> QED
  BY <1>2, <1>3, <1>4 DEF I!Step, I!AcquireRead, I!ParkReader, I!ReleaseRead,
    I!AcquireWrite, I!ParkWriter, I!ReleaseWrite

LEMMA StoreLockSteps ==
  ASSUME SL!IInv, NEW t \in Threads
  PROVE  /\ S!AcquireRead(t) => SL!IInv' /\ AtStore(t, "read")
         /\ S!ParkReader(t) => SL!IInv' /\ AtStore(t, "waitRead")
         /\ S!ReleaseRead(t) => SL!IInv' /\ AtStore(t, "out")
         /\ S!AcquireWrite(t) => SL!IInv' /\ AtStore(t, "write")
         /\ S!ParkWriter(t) => SL!IInv' /\ AtStore(t, "waitWrite")
         /\ S!ReleaseWrite(t) => SL!IInv' /\ AtStore(t, "out")
         /\ UNCHANGED sLock => SL!IInv' /\ AtStore(t, sAt[t])
<1>1. sAt \in [Threads -> SL!Places]
  BY DEF SL!IInv, SL!TypeOK
<1>2. S!Step(t) => SL!IInv'
  BY StoreLockKeeps
<1>3. \A to : S!Move(t, to) => AtStore(t, to)
  BY <1>1 DEF S!Move, AtStore
<1>4. UNCHANGED sLock => SL!IInv' /\ AtStore(t, sAt[t])
  BY DEF sLock, AtStore, SL!IInv, SL!TypeOK, SL!CountsExact, SL!Exclusion, SL!In, SL!Waiting
<1> QED
  BY <1>2, <1>3, <1>4 DEF S!Step, S!AcquireRead, S!ParkReader, S!ReleaseRead,
    S!AcquireWrite, S!ParkWriter, S!ReleaseWrite

(* Who writes is alone.                                                      *)
LEMMA WriterAlone ==
  ASSUME PathInv, NEW t \in Threads, NEW u \in Threads
  PROVE  /\ iAt[t] = "write" /\ iAt[u] \in {"read", "write"} => u = t
         /\ sAt[t] = "write" /\ sAt[u] \in {"read", "write"} => u = t
BY DEF PathInv, IL!IInv, IL!Exclusion, IL!In, SL!IInv, SL!Exclusion, SL!In

(* A step of one thread.                                                     *)
LEMMA ThreadStep ==
  ASSUME PathInv, NEW t \in Threads, NEW place, NEW index, NEW store,
         pc' = [pc EXCEPT ![t] = place],
         IL!IInv' /\ AtIndex(t, index), SL!IInv' /\ AtStore(t, store),
         t \in Clients => place \in ClientPlaces, t \in Closers => place \in CloserPlaces,
         file' = file, querier' \in BOOLEAN, conn' \in Conns, opening' \in Conns, closes' \in 0 .. MaxCloses,
         PlacedAt(place, index, store),
         place \in InQuerier \/ (place = "closing" /\ store = "waitWrite") => querier',
         place = "run" => conn' # NoConn,
         ~querier' => ~querier \/ iAt[t] = "write",
         conn' = conn \/ sAt[t] = "write"
  PROVE  PathInv'
<1>1. /\ pc'[t] = place /\ \A u \in Threads : u # t => pc'[u] = pc[u]
      /\ pc' \in [Threads -> ClientPlaces \union CloserPlaces]
  BY DEF PathInv, PathTypes, Threads
<1>2. PathTypes'
  BY <1>1 DEF PathInv, PathTypes, Threads
<1>3. ASSUME NEW u \in Threads PROVE PlacedAt(pc'[u], iAt'[u], sAt'[u])
  BY <1>1 DEF PathInv, AtIndex, AtStore
<1>4. ASSUME NEW u \in Threads
      PROVE  ServedAt(pc[u], sAt[u])'
  <2>1. CASE u = t
    BY <1>1, <2>1 DEF ServedAt, AtStore
  <2>2. CASE u # t
    <3>1. /\ ServedAt(pc[u], sAt[u])
          /\ pc[u] \in InQuerier => iAt[u] = "read"
          /\ pc[u] = "closing" => iAt[u] = "write"
          /\ pc[u] = "run" => sAt[u] = "read"
      BY DEF PathInv, PlacedAt, SharesStore, InQuerier, OwnsIndex
    <3>2. ~(iAt[t] = "write" /\ iAt[u] \in {"read", "write"}) /\ ~(sAt[t] = "write" /\ sAt[u] = "read")
      BY <2>2, WriterAlone
    <3>3. pc'[u] = pc[u] /\ sAt'[u] = sAt[u]
      BY <1>1, <2>2 DEF AtStore
    <3> QED
      BY <3>1, <3>2, <3>3 DEF PathInv, PathTypes, ServedAt
  <2> QED
    BY <2>1, <2>2
<1> QED
  BY <1>2, <1>3, <1>4 DEF PathInv

LEMMA QuietStep ==
  ASSUME PathInv, NEW t \in Threads, NEW place, NEW index, NEW store,
         pc' = [pc EXCEPT ![t] = place], UNCHANGED data,
         IL!IInv' /\ AtIndex(t, index), SL!IInv' /\ AtStore(t, store),
         t \in Clients => place \in ClientPlaces, t \in Closers => place \in CloserPlaces,
         PlacedAt(place, index, store),
         place \in InQuerier \/ (place = "closing" /\ store = "waitWrite") => querier,
         place = "run" => conn # NoConn
  PROVE  PathInv'
<1>1. /\ file' = file /\ querier' \in BOOLEAN /\ conn' \in Conns /\ opening' \in Conns /\ closes' \in 0 .. MaxCloses
      /\ querier' = querier /\ conn' = conn
  BY DEF PathInv, PathTypes, data
<1> QED
  BY <1>1, ThreadStep

LEMMA StandsStill ==
  ASSUME PathInv, NEW t \in Threads
  PROVE  pc = [pc EXCEPT ![t] = pc[t]]
BY DEF PathInv, PathTypes

(* The way of a query through the lock of the index.                         *)
LEMMA IndexWayKeeps ==
  ASSUME PathInv, NEW t \in Clients,
         BeginQuery(t) \/ EnterIndex(t) \/ CheckQuerier(t) \/ CreateQuerier(t) \/ Creating(t) \/ LeaveIndex(t)
  PROVE  PathInv'
<1>1. t \in Threads /\ t \notin Closers
  BY ThreadsAssumption DEF Threads
<1>2. /\ PlacedAt(pc[t], iAt[t], sAt[t]) /\ (pc[t] \in InQuerier => querier)
      /\ IL!IInv /\ SL!IInv
  BY <1>1 DEF PathInv, ServedAt
<1>3. UNCHANGED sLock /\ SL!IInv' /\ AtStore(t, sAt[t])
  BY <1>1, <1>2, StoreLockSteps DEF BeginQuery, EnterIndex, CheckQuerier, CreateQuerier, Creating, LeaveIndex
<1>4. pc[t] \in {"idle", "enterIndex", "checkQuerier", "createQuerier", "creating", "leaveIndex"} /\ sAt[t] = "out"
  BY <1>2 DEF BeginQuery, EnterIndex, CheckQuerier, CreateQuerier, Creating, LeaveIndex, PlacedAt, OutOfStore
<1> USE DEF Goto, PlacedAt, SharesIndex, OwnsIndex, SharesStore, OwnsStore, OutOfStore, InQuerier, ClientPlaces
<1>5. CASE BeginQuery(t)
  <2>1. IL!IInv' /\ AtIndex(t, iAt[t]) /\ iAt[t] = "out"
    BY <1>1, <1>2, <1>5, IndexLockSteps DEF BeginQuery
  <2> QED
    BY <1>1, <1>3, <1>4, <1>5, <2>1, QuietStep DEF BeginQuery
<1>6. CASE EnterIndex(t)
  <2>1. CASE I!AcquireRead(t) /\ Goto(t, "checkQuerier")
    <3>1. IL!IInv' /\ AtIndex(t, "read")
      BY <1>1, <1>2, <2>1, IndexLockSteps
    <3> QED
      BY <1>1, <1>3, <1>4, <1>6, <2>1, <3>1, QuietStep DEF EnterIndex
  <2>2. CASE I!ParkReader(t) /\ UNCHANGED pc
    <3>1. IL!IInv' /\ AtIndex(t, "waitRead") /\ pc' = [pc EXCEPT ![t] = "enterIndex"]
      BY <1>1, <1>2, <1>6, <2>2, IndexLockSteps, StandsStill DEF EnterIndex
    <3> QED
      BY <1>1, <1>3, <1>4, <1>6, <3>1, QuietStep DEF EnterIndex
  <2> QED
    BY <1>6, <2>1, <2>2 DEF EnterIndex
<1>7. CASE CheckQuerier(t)
  <2>1. CASE querier /\ Goto(t, "enterStore") /\ UNCHANGED iLock
    <3>1. IL!IInv' /\ AtIndex(t, iAt[t]) /\ iAt[t] = "read"
      BY <1>1, <1>2, <1>7, <2>1, IndexLockSteps DEF CheckQuerier
    <3> QED
      BY <1>1, <1>3, <1>4, <1>7, <2>1, <3>1, QuietStep DEF CheckQuerier
  <2>2. CASE ~querier /\ I!ReleaseRead(t) /\ Goto(t, "createQuerier")
    <3>1. IL!IInv' /\ AtIndex(t, "out")
      BY <1>1, <1>2, <2>2, IndexLockSteps
    <3> QED
      BY <1>1, <1>3, <1>4, <1>7, <2>2, <3>1, QuietStep DEF CheckQuerier
  <2> QED
    BY <1>7, <2>1, <2>2 DEF CheckQuerier
<1>8. CASE CreateQuerier(t)
  <2>1. CASE I!AcquireWrite(t) /\ Goto(t, "creating")
    <3>1. IL!IInv' /\ AtIndex(t, "write")
      BY <1>1, <1>2, <2>1, IndexLockSteps
    <3> QED
      BY <1>1, <1>3, <1>4, <1>8, <2>1, <3>1, QuietStep DEF CreateQuerier
  <2>2. CASE I!ParkWriter(t) /\ UNCHANGED pc
    <3>1. IL!IInv' /\ AtIndex(t, "waitWrite") /\ pc' = [pc EXCEPT ![t] = "createQuerier"]
      BY <1>1, <1>2, <1>8, <2>2, IndexLockSteps, StandsStill DEF CreateQuerier
    <3> QED
      BY <1>1, <1>3, <1>4, <1>8, <3>1, QuietStep DEF CreateQuerier
  <2> QED
    BY <1>8, <2>1, <2>2 DEF CreateQuerier
<1>9. CASE Creating(t)
  <2>1. IL!IInv' /\ AtIndex(t, "out")
    BY <1>1, <1>2, <1>9, IndexLockSteps DEF Creating
  <2>2. /\ file' = file /\ querier' = TRUE /\ conn' \in Conns /\ conn' = conn /\ opening' \in Conns
        /\ closes' \in 0 .. MaxCloses
    BY <1>9 DEF Creating, PathInv, PathTypes
  <2> QED
    BY <1>1, <1>3, <1>4, <1>9, <2>1, <2>2, ThreadStep DEF Creating
<1>10. CASE LeaveIndex(t)
  <2>1. IL!IInv' /\ AtIndex(t, "out")
    BY <1>1, <1>2, <1>10, IndexLockSteps DEF LeaveIndex
  <2> QED
    BY <1>1, <1>3, <1>4, <1>10, <2>1, QuietStep DEF LeaveIndex
<1> QED
  BY <1>5, <1>6, <1>7, <1>8, <1>9, <1>10

(* The way of a query through the lock of the store.                         *)
LEMMA StoreWayKeeps ==
  ASSUME PathInv, NEW t \in Clients,
         \/ EnterStore(t) \/ CheckStore(t) \/ ReopenStore(t) \/ KeepStore(t) \/ NoIndex(t)
         \/ Connect(t) \/ CacheStore(t) \/ OpenFails(t) \/ EndQuery(t)
  PROVE  PathInv'
<1>1. t \in Threads /\ t \notin Closers
  BY ThreadsAssumption DEF Threads
<1>2. /\ PlacedAt(pc[t], iAt[t], sAt[t]) /\ (pc[t] \in InQuerier => querier)
      /\ IL!IInv /\ SL!IInv
  BY <1>1 DEF PathInv, ServedAt
<1>3. UNCHANGED iLock /\ IL!IInv' /\ AtIndex(t, iAt[t])
  BY <1>1, <1>2, IndexLockSteps DEF EnterStore, CheckStore, ReopenStore, KeepStore, NoIndex, Connect,
    CacheStore, OpenFails, EndQuery
<1>4. /\ pc[t] \in {"enterStore", "checkStore", "reopenStore", "reopening", "signing", "run"}
      /\ iAt[t] = "read" /\ querier
      /\ pc[t] \in OwnsStore => sAt[t] = "write"
  BY <1>2 DEF EnterStore, CheckStore, ReopenStore, KeepStore, NoIndex, Connect, CacheStore, OpenFails, EndQuery,
    PlacedAt, SharesIndex, InQuerier
<1>5. /\ file \in 0 .. MaxFiles /\ querier \in BOOLEAN /\ conn \in Conns /\ opening \in Conns
      /\ closes \in 0 .. MaxCloses /\ NoConn \in Conns
  BY BoundsAssumption DEF PathInv, PathTypes, NoConn, Conns
<1> USE DEF Goto, PlacedAt, SharesIndex, OwnsIndex, SharesStore, OwnsStore, OutOfStore, InQuerier, ClientPlaces
<1>6. CASE EnterStore(t)
  <2>1. CASE S!AcquireRead(t) /\ Goto(t, "checkStore")
    <3>1. SL!IInv' /\ AtStore(t, "read")
      BY <1>1, <1>2, <2>1, StoreLockSteps
    <3> QED
      BY <1>1, <1>3, <1>4, <1>6, <2>1, <3>1, QuietStep DEF EnterStore
  <2>2. CASE S!ParkReader(t) /\ UNCHANGED pc
    <3>1. SL!IInv' /\ AtStore(t, "waitRead") /\ pc' = [pc EXCEPT ![t] = "enterStore"]
      BY <1>1, <1>2, <1>6, <2>2, StoreLockSteps, StandsStill DEF EnterStore
    <3> QED
      BY <1>1, <1>3, <1>4, <1>6, <3>1, QuietStep DEF EnterStore
  <2> QED
    BY <1>6, <2>1, <2>2 DEF EnterStore
<1>7. CASE CheckStore(t)
  <2>1. CASE conn # NoConn /\ ~FileReplaced /\ Goto(t, "run") /\ UNCHANGED sLock
    <3>1. SL!IInv' /\ AtStore(t, sAt[t]) /\ sAt[t] = "read"
      BY <1>1, <1>2, <1>7, <2>1, StoreLockSteps DEF CheckStore
    <3> QED
      BY <1>1, <1>3, <1>4, <1>7, <2>1, <3>1, QuietStep DEF CheckStore
  <2>2. CASE S!ReleaseRead(t) /\ Goto(t, "reopenStore")
    <3>1. SL!IInv' /\ AtStore(t, "out")
      BY <1>1, <1>2, <2>2, StoreLockSteps
    <3> QED
      BY <1>1, <1>3, <1>4, <1>7, <2>2, <3>1, QuietStep DEF CheckStore
  <2> QED
    BY <1>7, <2>1, <2>2 DEF CheckStore
<1>8. CASE ReopenStore(t)
  <2>1. CASE S!AcquireWrite(t) /\ Goto(t, "reopening")
    <3>1. SL!IInv' /\ AtStore(t, "write")
      BY <1>1, <1>2, <2>1, StoreLockSteps
    <3> QED
      BY <1>1, <1>3, <1>4, <1>8, <2>1, <3>1, QuietStep DEF ReopenStore
  <2>2. CASE S!ParkWriter(t) /\ UNCHANGED pc
    <3>1. SL!IInv' /\ AtStore(t, "waitWrite") /\ pc' = [pc EXCEPT ![t] = "reopenStore"]
      BY <1>1, <1>2, <1>8, <2>2, StoreLockSteps, StandsStill DEF ReopenStore
    <3> QED
      BY <1>1, <1>3, <1>4, <1>8, <3>1, QuietStep DEF ReopenStore
  <2> QED
    BY <1>8, <2>1, <2>2 DEF ReopenStore
<1>9. CASE KeepStore(t)
  <2>1. SL!IInv' /\ AtStore(t, "out")
    BY <1>1, <1>2, <1>9, StoreLockSteps DEF KeepStore
  <2> QED
    BY <1>1, <1>3, <1>4, <1>9, <2>1, QuietStep DEF KeepStore
<1>10. CASE NoIndex(t)
  <2>1. SL!IInv' /\ AtStore(t, "out")
    BY <1>1, <1>2, <1>10, StoreLockSteps DEF NoIndex
  <2> QED
    BY <1>1, <1>3, <1>4, <1>10, <2>1, QuietStep DEF NoIndex
<1>11. CASE Connect(t)
  <2>1. SL!IInv' /\ AtStore(t, sAt[t]) /\ sAt[t] = "write"
    BY <1>1, <1>2, <1>4, <1>11, StoreLockSteps DEF Connect
  <2>2. /\ pc' = [pc EXCEPT ![t] = "signing"]
        /\ file' = file /\ querier' = querier
        /\ querier' \in BOOLEAN /\ conn' \in Conns /\ opening' \in Conns /\ closes' \in 0 .. MaxCloses
    BY <1>5, <1>11, BoundsAssumption DEF Connect, Conns
  <2>3. /\ PlacedAt("signing", iAt[t], sAt[t]) /\ "signing" \in ClientPlaces
        /\ "signing" # "run" /\ "signing" # "closing"
    BY <1>4, <2>1
  <2> HIDE DEF PlacedAt, SharesIndex, OwnsIndex, SharesStore, OwnsStore, OutOfStore, InQuerier, ClientPlaces
  <2> QED
    BY <1>1, <1>3, <1>4, <2>1, <2>2, <2>3, ThreadStep
<1>12. CASE CacheStore(t)
  <2>1. SL!IInv' /\ AtStore(t, "out") /\ sAt[t] = "write"
    BY <1>1, <1>2, <1>4, <1>12, StoreLockSteps DEF CacheStore
  <2>2. /\ pc' = [pc EXCEPT ![t] = "enterStore"]
        /\ file' = file /\ querier' = querier
        /\ querier' \in BOOLEAN /\ conn' \in Conns /\ opening' \in Conns /\ closes' \in 0 .. MaxCloses
    BY <1>5, <1>12 DEF CacheStore, Conns
  <2>3. /\ PlacedAt("enterStore", iAt[t], "out") /\ "enterStore" \in ClientPlaces
        /\ "enterStore" # "run" /\ "enterStore" # "closing"
    BY <1>4, <2>1
  <2> HIDE DEF PlacedAt, SharesIndex, OwnsIndex, SharesStore, OwnsStore, OutOfStore, InQuerier, ClientPlaces
  <2> QED
    BY <1>1, <1>3, <1>4, <2>1, <2>2, <2>3, ThreadStep
<1>13. CASE OpenFails(t)
  <2>1. SL!IInv' /\ AtStore(t, "out") /\ sAt[t] = "write"
    BY <1>1, <1>2, <1>4, <1>13, StoreLockSteps DEF OpenFails
  <2>2. /\ pc' = [pc EXCEPT ![t] = "leaveIndex"]
        /\ file' = file /\ querier' = querier /\ conn' = conn
        /\ querier' \in BOOLEAN /\ conn' \in Conns /\ opening' \in Conns /\ closes' \in 0 .. MaxCloses
    BY <1>5, <1>13 DEF OpenFails
  <2>3. /\ PlacedAt("leaveIndex", iAt[t], "out") /\ "leaveIndex" \in ClientPlaces
        /\ "leaveIndex" # "run" /\ "leaveIndex" # "closing"
    BY <1>4, <2>1
  <2> HIDE DEF PlacedAt, SharesIndex, OwnsIndex, SharesStore, OwnsStore, OutOfStore, InQuerier, ClientPlaces
  <2> QED
    BY <1>1, <1>3, <1>4, <2>1, <2>2, <2>3, ThreadStep
<1>14. CASE EndQuery(t)
  <2>1. SL!IInv' /\ AtStore(t, "out")
    BY <1>1, <1>2, <1>14, StoreLockSteps DEF EndQuery
  <2> QED
    BY <1>1, <1>3, <1>4, <1>14, <2>1, QuietStep DEF EndQuery
<1> QED
  BY <1>6, <1>7, <1>8, <1>9, <1>10, <1>11, <1>12, <1>13, <1>14

(* A close takes both locks for itself.                                      *)
LEMMA CloseKeeps ==
  ASSUME PathInv, NEW t \in Closers, BeginClose(t) \/ Closer(t)
  PROVE  PathInv'
<1>1. t \in Threads /\ t \notin Clients
  BY ThreadsAssumption DEF Threads
<1>2. /\ PlacedAt(pc[t], iAt[t], sAt[t]) /\ IL!IInv /\ SL!IInv
      /\ pc[t] = "closing" /\ sAt[t] = "waitWrite" => querier
  BY <1>1 DEF PathInv, ServedAt
<1>3. /\ file \in 0 .. MaxFiles /\ querier \in BOOLEAN /\ conn \in Conns /\ opening \in Conns
      /\ closes \in 0 .. MaxCloses /\ NoConn \in Conns
  BY BoundsAssumption DEF PathInv, PathTypes, NoConn, Conns
<1> USE DEF Goto, PlacedAt, SharesIndex, OwnsIndex, SharesStore, OwnsStore, OutOfStore, InQuerier, CloserPlaces
<1>4. CASE BeginClose(t)
  <2>1. IL!IInv' /\ AtIndex(t, iAt[t]) /\ SL!IInv' /\ AtStore(t, sAt[t])
    BY <1>1, <1>2, <1>4, IndexLockSteps, StoreLockSteps DEF BeginClose
  <2>2. /\ pc' = [pc EXCEPT ![t] = "closeIndex"]
        /\ file' = file /\ querier' = querier /\ conn' = conn
        /\ querier' \in BOOLEAN /\ conn' \in Conns /\ opening' \in Conns /\ closes' \in 0 .. MaxCloses
    BY <1>3, <1>4, BoundsAssumption DEF BeginClose
  <2>3. /\ PlacedAt("closeIndex", iAt[t], sAt[t]) /\ "closeIndex" \in CloserPlaces
        /\ "closeIndex" # "run" /\ "closeIndex" # "closing" /\ "closeIndex" \notin InQuerier
    BY <1>2, <1>4 DEF BeginClose
  <2> HIDE DEF PlacedAt, SharesIndex, OwnsIndex, SharesStore, OwnsStore, OutOfStore, InQuerier, CloserPlaces
  <2> QED
    BY <1>1, <2>1, <2>2, <2>3, ThreadStep
<1>5. CASE CloseIndex(t)
  <2>1. SL!IInv' /\ AtStore(t, sAt[t]) /\ sAt[t] = "out"
    BY <1>1, <1>2, <1>5, StoreLockSteps DEF CloseIndex
  <2>2. CASE I!AcquireWrite(t) /\ Goto(t, "closing")
    <3>1. IL!IInv' /\ AtIndex(t, "write")
      BY <1>1, <1>2, <2>2, IndexLockSteps
    <3> QED
      BY <1>1, <1>5, <2>1, <2>2, <3>1, QuietStep DEF CloseIndex
  <2>3. CASE I!ParkWriter(t) /\ UNCHANGED pc
    <3>1. IL!IInv' /\ AtIndex(t, "waitWrite") /\ pc' = [pc EXCEPT ![t] = "closeIndex"]
      BY <1>1, <1>2, <1>5, <2>3, IndexLockSteps, StandsStill DEF CloseIndex
    <3> QED
      BY <1>1, <1>5, <2>1, <3>1, QuietStep DEF CloseIndex
  <2> QED
    BY <1>5, <2>2, <2>3 DEF CloseIndex
<1>6. CASE Closing(t)
  <2>1. CASE ~querier /\ I!ReleaseWrite(t) /\ Goto(t, "idle") /\ UNCHANGED sLock
    <3>1. IL!IInv' /\ AtIndex(t, "out") /\ SL!IInv' /\ AtStore(t, sAt[t])
      BY <1>1, <1>2, <2>1, IndexLockSteps, StoreLockSteps
    <3>2. sAt[t] = "out"
      BY <1>2, <1>6, <2>1 DEF Closing
    <3> QED
      BY <1>1, <1>6, <2>1, <3>1, <3>2, QuietStep DEF Closing
  <2>2. CASE querier /\ S!AcquireWrite(t) /\ Goto(t, "closingStore") /\ UNCHANGED iLock
    <3>1. IL!IInv' /\ AtIndex(t, iAt[t]) /\ iAt[t] = "write" /\ SL!IInv' /\ AtStore(t, "write")
      BY <1>1, <1>2, <1>6, <2>2, IndexLockSteps, StoreLockSteps DEF Closing
    <3> QED
      BY <1>1, <1>6, <2>2, <3>1, QuietStep DEF Closing
  <2>3. CASE querier /\ S!ParkWriter(t) /\ UNCHANGED <<pc, iLock>>
    <3>1. /\ IL!IInv' /\ AtIndex(t, iAt[t]) /\ iAt[t] = "write" /\ SL!IInv' /\ AtStore(t, "waitWrite")
          /\ pc' = [pc EXCEPT ![t] = "closing"]
      BY <1>1, <1>2, <1>6, <2>3, IndexLockSteps, StoreLockSteps, StandsStill DEF Closing
    <3> QED
      BY <1>1, <1>6, <2>3, <3>1, QuietStep DEF Closing
  <2> QED
    BY <1>6, <2>1, <2>2, <2>3 DEF Closing
<1>7. CASE CloseStore(t)
  <2>1. IL!IInv' /\ AtIndex(t, iAt[t]) /\ iAt[t] = "write" /\ SL!IInv' /\ AtStore(t, "out") /\ sAt[t] = "write"
    BY <1>1, <1>2, <1>7, IndexLockSteps, StoreLockSteps DEF CloseStore
  <2> QED
    BY <1>1, <1>3, <1>7, <2>1, ThreadStep DEF CloseStore
<1>8. CASE Discard(t)
  <2>1. IL!IInv' /\ AtIndex(t, "out") /\ iAt[t] = "write" /\ SL!IInv' /\ AtStore(t, sAt[t]) /\ sAt[t] = "out"
    BY <1>1, <1>2, <1>8, IndexLockSteps, StoreLockSteps DEF Discard
  <2> QED
    BY <1>1, <1>3, <1>8, <2>1, ThreadStep DEF Discard
<1> QED
  BY <1>4, <1>5, <1>6, <1>7, <1>8 DEF Closer

(* A swap renames a new file over index.db, and nothing of this process      *)
(* changes.                                                                  *)
LEMMA SwapKeeps ==
  ASSUME PathInv, Swap
  PROVE  PathInv'
<1>1. IL!IInv' /\ SL!IInv'
  BY DEF PathInv, Swap, iLock, sLock, IL!IInv, IL!TypeOK, IL!CountsExact, IL!Exclusion, IL!In, IL!Waiting,
    SL!IInv, SL!TypeOK, SL!CountsExact, SL!Exclusion, SL!In, SL!Waiting
<1>2. PathTypes'
  BY BoundsAssumption DEF PathInv, PathTypes, Swap
<1> QED
  BY <1>1, <1>2 DEF PathInv, ServedAt, Swap, iLock, sLock

LEMMA PathStutters ==
  ASSUME PathInv, UNCHANGED vars
  PROVE  PathInv'
<1>1. IL!IInv' /\ SL!IInv'
  BY DEF PathInv, vars, iLock, sLock, IL!IInv, IL!TypeOK, IL!CountsExact, IL!Exclusion, IL!In, IL!Waiting,
    SL!IInv, SL!TypeOK, SL!CountsExact, SL!Exclusion, SL!In, SL!Waiting
<1> QED
  BY <1>1 DEF PathInv, PathTypes, ServedAt, vars, data, iLock, sLock

LEMMA PathBegins == Init => PathInv
<1> SUFFICES ASSUME Init PROVE PathInv
  OBVIOUS
<1>1. IL!IInv /\ SL!IInv
  <2>1. IL!Init /\ SL!Init
    BY DEF Init, I!Init, S!Init, IL!Init, SL!Init
  <2> QED
    BY <2>1, FinitelyManyThreads, IL!InitInv, SL!InitInv DEF IsFiniteSet, IL!IsFiniteSet, SL!IsFiniteSet
<1>2. PathTypes
  <2>1. file \in 0 .. MaxFiles /\ NoConn \in Conns /\ closes \in 0 .. MaxCloses
    BY BoundsAssumption DEF Init, Conns, NoConn
  <2>2. pc = [t \in Threads |-> "idle"] /\ "idle" \in ClientPlaces \intersect CloserPlaces
    BY DEF Init, ClientPlaces, CloserPlaces
  <2> QED
    BY <2>1, <2>2 DEF Init, PathTypes, Threads
<1>3. \A t \in Threads : iAt[t] = "out" /\ sAt[t] = "out" /\ pc[t] = "idle"
  BY DEF Init, I!Init, S!Init
<1>4. PlacedAt("idle", "out", "out") /\ ServedAt("idle", "out")
  BY DEF PlacedAt, ServedAt, SharesIndex, OwnsIndex, SharesStore, OwnsStore, OutOfStore, InQuerier
<1> QED
  BY <1>1, <1>2, <1>3, <1>4 DEF PathInv

LEMMA PathStep ==
  ASSUME PathInv, [Next]_vars
  PROVE  PathInv'
<1>1. CASE \E t \in Clients : BeginQuery(t) \/ Client(t)
  <2>1. PICK t \in Clients : BeginQuery(t) \/ Client(t)
    BY <1>1
  <2>2. CASE \/ BeginQuery(t) \/ EnterIndex(t) \/ CheckQuerier(t)
             \/ CreateQuerier(t) \/ Creating(t) \/ LeaveIndex(t)
    BY <2>2, IndexWayKeeps
  <2>3. CASE \/ EnterStore(t) \/ CheckStore(t) \/ ReopenStore(t) \/ KeepStore(t) \/ NoIndex(t)
             \/ Connect(t) \/ CacheStore(t) \/ OpenFails(t) \/ EndQuery(t)
    BY <2>3, StoreWayKeeps
  <2> QED
    BY <2>1, <2>2, <2>3 DEF Client
<1>2. CASE \E t \in Closers : BeginClose(t) \/ Closer(t)
  BY <1>2, CloseKeeps
<1>3. CASE Swap
  BY <1>3, SwapKeeps
<1>4. CASE UNCHANGED vars
  BY <1>4, PathStutters
<1> QED
  BY <1>1, <1>2, <1>3, <1>4 DEF Next

(* Every thread is in the two locks where its place in the call says, and    *)
(* every call past the check of the querier is in one that is still there.   *)
THEOREM PathKeeps == Spec => []PathInv
<1>1. PathInv /\ [Next]_vars => PathInv'
  BY PathStep
<1> QED
  BY <1>1, PathBegins, PTL DEF Spec

(* A running query has a connection, a thread in the store lock is inside    *)
(* the index's own querier, and no path leaves a call with a lock held.      *)
THEOREM QuerierStays == Spec => []QuerierPinned
<1>1. PathInv => QuerierPinned
  <2> SUFFICES ASSUME PathInv PROVE QuerierPinned
    OBVIOUS
  <2>1. I!TypeOK /\ S!TypeOK
    BY DEF PathInv, IL!IInv, IL!TypeOK, IL!Places, IL!Waiting, IL!In, I!TypeOK, I!Places, I!Waiting, I!In,
      SL!IInv, SL!TypeOK, SL!Places, SL!Waiting, SL!In, S!TypeOK, S!Places, S!Waiting, S!In
  <2>2. TypeOK
    BY <2>1 DEF PathInv, PathTypes, TypeOK
  <2>3. \A t \in Threads : PlacedAt(pc[t], iAt[t], sAt[t]) /\ ServedAt(pc[t], sAt[t])
    BY DEF PathInv
  <2>4. Running # {} => conn # NoConn
    BY <2>3 DEF Running, ServedAt, Threads
  <2>5. ASSUME NEW t \in Clients, sAt[t] # "out" PROVE querier
    <3>1. pc[t] \in ClientPlaces /\ t \in Threads
      BY DEF PathInv, PathTypes, Threads
    <3>2. pc[t] \notin OutOfStore
      BY <2>3, <2>5, <3>1 DEF PlacedAt
    <3>3. pc[t] \in InQuerier
      BY <3>1, <3>2 DEF ClientPlaces, OutOfStore, InQuerier, SharesIndex
    <3> QED
      BY <2>3, <3>1, <3>3 DEF ServedAt
  <2>6. \A t \in Threads : pc[t] = "idle" => iAt[t] = "out" /\ sAt[t] = "out"
    BY <2>3 DEF PlacedAt, OutOfStore
  <2> QED
    BY <2>2, <2>4, <2>5, <2>6 DEF QuerierPinned
<1> QED
  BY <1>1, PathKeeps, PTL

(* No step closes or exchanges the connection a query runs on: whoever does  *)
(* either owns the store lock, which the query shares.                       *)
LEMMA ExchangeOwnsStore ==
  ASSUME PathInv, [Next]_vars, conn' # conn
  PROVE  \E t \in Threads : sAt[t] = "write"
<1>1. PICK t \in Threads : Connect(t) \/ CacheStore(t) \/ CloseStore(t)
  BY DEF Next, Client, Closer, Swap, vars, data, Threads, BeginQuery, EnterIndex, CheckQuerier, CreateQuerier,
    Creating, EnterStore, CheckStore, ReopenStore, KeepStore, NoIndex, OpenFails, EndQuery, LeaveIndex,
    BeginClose, CloseIndex, Closing, Discard
<1>2. pc[t] \in OwnsStore
  BY <1>1 DEF Connect, CacheStore, CloseStore, OwnsStore
<1> QED
  BY <1>2 DEF PathInv, PlacedAt

(* While a query runs, its connection stays open and the same.               *)
THEOREM ConnectionStays == Spec => ConnectionPinned
<1>1. PathInv /\ [Next]_vars => [Running # {} => conn' = conn]_vars
  <2> SUFFICES ASSUME PathInv, [Next]_vars, NEW u \in Clients, pc[u] = "run", conn' # conn
               PROVE  FALSE
    BY DEF Running
  <2>1. PICK t \in Threads : sAt[t] = "write"
    BY ExchangeOwnsStore
  <2>2. u \in Threads /\ sAt[u] = "read"
    BY DEF PathInv, PlacedAt, SharesStore, Threads
  <2>3. u = t
    BY <2>1, <2>2, WriterAlone
  <2> QED
    BY <2>1, <2>2, <2>3
<1> QED
  BY <1>1, PathKeeps, PTL DEF Spec, ConnectionPinned

(* A query is served an old file only from a store that was opened across    *)
(* the swap: every step to "run" has compared the two signatures.            *)
LEMMA OnlyOneMoves ==
  ASSUME PathInv, [Next]_vars, NEW u \in Clients, pc[u] = "checkStore", pc'[u] = "run"
  PROVE  CheckStore(u)
<1>1. pc \in [Threads -> ClientPlaces \union CloserPlaces] /\ u \in Threads
  BY DEF PathInv, PathTypes, Threads
<1>2. ASSUME NEW t \in Threads, NEW place, Goto(t, place) PROVE t = u /\ place = "run"
  BY <1>1, <1>2 DEF Goto
<1>3. CASE \E t \in Clients : BeginQuery(t) \/ Client(t)
  <2>1. PICK t \in Clients : BeginQuery(t) \/ Client(t)
    BY <1>3
  <2>2. t \in Threads /\ pc' # pc
    BY DEF Threads
  <2>3. CASE \/ BeginQuery(t) \/ EnterIndex(t) \/ CheckQuerier(t) \/ CreateQuerier(t) \/ Creating(t)
             \/ LeaveIndex(t)
    BY <1>2, <2>2, <2>3 DEF BeginQuery, EnterIndex, CheckQuerier, CreateQuerier, Creating, LeaveIndex
  <2>4. CASE \/ EnterStore(t) \/ ReopenStore(t) \/ KeepStore(t) \/ NoIndex(t) \/ Connect(t)
             \/ CacheStore(t) \/ OpenFails(t) \/ EndQuery(t)
    BY <1>2, <2>2, <2>4 DEF EnterStore, ReopenStore, KeepStore, NoIndex, Connect, CacheStore, OpenFails,
      EndQuery
  <2>5. CASE CheckStore(t)
    BY <1>2, <2>2, <2>5 DEF CheckStore
  <2> QED
    BY <2>1, <2>3, <2>4, <2>5 DEF Client
<1>4. CASE \E t \in Closers : BeginClose(t) \/ Closer(t)
  <2>1. PICK t \in Closers : BeginClose(t) \/ Closer(t)
    BY <1>4
  <2> QED
    BY <1>1, <1>2, <2>1 DEF Threads, Closer, BeginClose, CloseIndex, Closing, CloseStore, Discard
<1>5. CASE Swap \/ UNCHANGED vars
  BY <1>5 DEF Swap, vars
<1> QED
  BY <1>3, <1>4, <1>5 DEF Next

THEOREM StaleOnlyAcrossSwap == Spec => ServedStaleOnlyBySwapInOpen
<1> DEFINE Current == \A t \in Clients : (pc[t] = "checkStore" /\ pc'[t] = "run") =>
                        (conn.gen = file \/ conn.sig # conn.gen)
<1>1. PathInv /\ [Next]_vars => [Current]_vars
  <2> SUFFICES ASSUME PathInv, [Next]_vars, NEW u \in Clients, pc[u] = "checkStore", pc'[u] = "run"
               PROVE  conn.gen = file \/ conn.sig # conn.gen
    OBVIOUS
  <2>1. CheckStore(u)
    BY OnlyOneMoves
  <2>2. pc[u] # "reopenStore" /\ ~Goto(u, "reopenStore")
    BY DEF Goto, PathInv, PathTypes, Threads
  <2>3. ~FileReplaced /\ conn # NoConn
    BY <2>1, <2>2 DEF CheckStore
  <2> QED
    BY <2>3 DEF FileReplaced
<1> QED
  BY <1>1, PathKeeps, PTL DEF Spec, ServedStaleOnlyBySwapInOpen

-----------------------------------------------------------------------------
(* The ranking of a query: Retrieval.                                         *)

(* A set of numbers has a least one: the sets 0 .. n are ordered by inclusion. *)
LEMMA LeastNumber ==
  ASSUME NEW Q \in SUBSET Nat, Q # {}
  PROVE  \E k \in Q : \A j \in Q : k <= j
<1> DEFINE Below == {0 .. n : n \in Q}
<1>1. Below # {} /\ Below \subseteq FiniteSubsetsOf(Nat)
  <2>1. \A n \in Nat : IsFiniteSet(0 .. n)
    BY FS_Interval
  <2>2. \A n \in Q : 0 .. n \in FiniteSubsetsOf(Nat)
    BY <2>1 DEF FiniteSubsetsOf
  <2> QED
    BY <2>2
<1>2. PICK s \in Below : \A t \in Below : <<t, s>> \notin StrictSubsetOrdering(Nat)
  <2> HIDE DEF Below
  <2> QED
    BY <1>1, WFMin, FS_StrictSubsetOrderingWellFounded
<1>3. PICK k \in Q : s = 0 .. k
  OBVIOUS
<1>4. ASSUME NEW j \in Q, j < k PROVE FALSE
  <2>1. <<0 .. j, 0 .. k>> \in StrictSubsetOrdering(Nat)
    BY <1>4 DEF StrictSubsetOrdering
  <2> QED
    BY <1>2, <1>3, <2>1
<1> QED
  BY <1>4

(* A strict order of the positions P.                                         *)
Orders(before, P) ==
  /\ \A i \in P : <<i, i>> \notin before
  /\ \A i, j \in P : i # j => <<i, j>> \in before \/ <<j, i>> \in before
  /\ \A i, j, k \in P : <<i, j>> \in before /\ <<j, k>> \in before => <<i, k>> \in before

(* The positions of s in the order of an arrangement r.                       *)
Arranges(at, P, before, s, r) ==
  /\ at \in [1 .. Cardinality(P) -> P]
  /\ \A i \in P : \E n \in 1 .. Cardinality(P) : at[n] = i
  /\ \A m, n \in 1 .. Cardinality(P) : m < n => at[m] # at[n] /\ <<at[m], at[n]>> \in before
  /\ r = [n \in 1 .. Cardinality(P) |-> s[at[n]]]

(* An arrangement has each position once, in the order asked for.             *)
LEMMA ArrangedInOrder ==
  ASSUME NEW s, NEW P, IsFiniteSet(P), NEW before, Orders(before, P)
  PROVE  \E at : Arranges(at, P, before, s, Arranged(s, P, before))
<1> DEFINE ahead(i) == {j \in P : <<j, i>> \in before}
           place(i) == 1 + Cardinality(ahead(i))
           at == [n \in 1 .. Cardinality(P) |-> CHOOSE i \in P : place(i) = n]
           pl == [i \in P |-> place(i)]
<1>1. PICK size \in Nat : size = Cardinality(P)
  BY FS_CardinalityType
<1>2. ASSUME NEW i \in P PROVE place(i) \in 1 .. size /\ Cardinality(ahead(i)) \in Nat
  <2>1. i \notin ahead(i) /\ ahead(i) \in SUBSET P
    BY DEF Orders
  <2>2. IsFiniteSet(ahead(i)) /\ Cardinality(ahead(i)) <= size /\ ahead(i) # P
    BY <1>1, <2>1, FS_Subset
  <2>3. Cardinality(ahead(i)) \in Nat /\ Cardinality(ahead(i)) # size
    BY <1>1, <2>1, <2>2, FS_Subset, FS_CardinalityType
  <2> HIDE DEF ahead
  <2> QED
    BY <1>1, <2>2, <2>3
<1>3. ASSUME NEW i \in P, NEW j \in P, <<i, j>> \in before PROVE place(i) < place(j)
  <2>1. ahead(i) \in SUBSET ahead(j) /\ i \in ahead(j) /\ i \notin ahead(i) /\ ahead(j) \in SUBSET P
    BY <1>3 DEF Orders
  <2>2. IsFiniteSet(ahead(j)) /\ ahead(i) # ahead(j)
    BY <2>1, FS_Subset
  <2>3. Cardinality(ahead(i)) <= Cardinality(ahead(j)) /\ Cardinality(ahead(i)) # Cardinality(ahead(j))
    BY <2>1, <2>2, FS_Subset
  <2>4. Cardinality(ahead(i)) \in Nat /\ Cardinality(ahead(j)) \in Nat
    BY <1>2
  <2> HIDE DEF ahead
  <2> QED
    BY <2>3, <2>4
<1>4. \A i \in P : place(i) \in 1 .. size
  BY <1>2
<1>5. \A i, j \in P : <<i, j>> \in before => place(i) < place(j)
  BY <1>3
<1>6. Arranged(s, P, before) = [n \in 1 .. size |-> s[CHOOSE i \in P : place(i) = n]]
  BY <1>1 DEF Arranged
<1> HIDE DEF place
<1>7. \A i, j \in P : i # j => place(i) # place(j)
  <2> SUFFICES ASSUME NEW i \in P, NEW j \in P, i # j PROVE place(i) # place(j)
    OBVIOUS
  <2>1. <<i, j>> \in before \/ <<j, i>> \in before
    BY DEF Orders
  <2>2. place(i) < place(j) \/ place(j) < place(i)
    BY <1>5, <2>1
  <2>3. place(i) \in Nat /\ place(j) \in Nat
    BY <1>4
  <2> QED
    BY <2>2, <2>3
<1>8. pl \in Injection(P, 1 .. size)
  BY <1>4, <1>7 DEF Injection, IsInjective
<1>9. pl \in Surjection(P, 1 .. size)
  <2>1. IsFiniteSet(1 .. size) /\ Cardinality(1 .. size) = size
    BY FS_Interval
  <2> HIDE DEF pl
  <2> QED
    BY <1>1, <1>8, <2>1, FS_Injection
<1>10. \A n \in 1 .. size : \E i \in P : place(i) = n
  BY <1>9 DEF Surjection
<1>11. \A n \in 1 .. size : at[n] \in P /\ place(at[n]) = n
  BY <1>1, <1>10
<1>12. at \in [1 .. size -> P]
  BY <1>1, <1>11
<1>13. \A i \in P : at[place(i)] = i
  BY <1>4, <1>7, <1>11
<1>14. \A i \in P : \E n \in 1 .. size : at[n] = i
  BY <1>4, <1>13
<1>15. Arranged(s, P, before) = [n \in 1 .. size |-> s[at[n]]]
  BY <1>1, <1>6
<1>16. ASSUME NEW m \in 1 .. size, NEW n \in 1 .. size, m < n
       PROVE  at[m] # at[n] /\ <<at[m], at[n]>> \in before
  <2> HIDE DEF at
  <2>1. at[m] # at[n]
    BY <1>11, <1>16
  <2>2. <<at[n], at[m]>> \notin before
    BY <1>5, <1>11, <1>16
  <2> QED
    BY <1>11, <2>1, <2>2 DEF Orders
<1> HIDE DEF at
<1> QED
  BY <1>1, <1>12, <1>14, <1>15, <1>16 DEF Arranges

(* Positions that are taken from a sequence, in their own order.              *)
LEMMA PositionsAreOrdered ==
  ASSUME NEW T, NEW s \in Seq(T), NEW P \in SUBSET (DOMAIN s)
  PROVE  /\ Orders(Earlier(s), P)
         /\ IsFiniteSet(P) /\ Cardinality(P) \in 0 .. Len(s)
<1>1. PICK size \in Nat : size = Len(s) /\ DOMAIN s = 1 .. size
  BY LenProperties
<1>2. Orders(Earlier(s), P)
  BY <1>1 DEF Orders, Earlier
<1>3. IsFiniteSet(1 .. size) /\ Cardinality(1 .. size) = size
  BY FS_Interval
<1>4. IsFiniteSet(P) /\ Cardinality(P) <= size
  BY <1>1, <1>3, FS_Subset
<1> QED
  BY <1>1, <1>2, <1>4, FS_CardinalityType

(* A filter keeps nothing else.                                               *)
LEMMA OnlyKeeps ==
  ASSUME NEW T, NEW s \in Seq(T), NEW kept
  PROVE  Only(s, kept) \in Seq(T \cap kept) /\ Len(Only(s, kept)) <= Len(s)
<1> DEFINE P == {i \in DOMAIN s : s[i] \in kept}
<1>1. P \in SUBSET (DOMAIN s)
  OBVIOUS
<1>2. Orders(Earlier(s), P) /\ IsFiniteSet(P) /\ Cardinality(P) \in 0 .. Len(s)
  BY <1>1, PositionsAreOrdered
<1>3. PICK at : Arranges(at, P, Earlier(s), s, Arranged(s, P, Earlier(s)))
  BY <1>2, ArrangedInOrder
<1>4. PICK n \in Nat : n = Cardinality(P) /\ n <= Len(s)
  <2>1. Len(s) \in Nat
    BY LenProperties
  <2> HIDE DEF P
  <2> QED
    BY <1>2, <2>1
<1>5. Only(s, kept) = [k \in 1 .. n |-> s[at[k]]] /\ at \in [1 .. n -> P]
  BY <1>3, <1>4 DEF Only, Arranges
<1>6. \A i \in P : s[i] \in T \cap kept
  BY LenProperties
<1>7. \A k \in 1 .. n : s[at[k]] \in T \cap kept
  BY <1>5, <1>6
<1> HIDE DEF P
<1>8. Only(s, kept) \in Seq(T \cap kept) /\ Len(Only(s, kept)) = n
  BY <1>5, <1>7
<1> QED
  BY <1>4, <1>8

(* The first place of an element.                                             *)
LEMMA RankIsFirst ==
  ASSUME NEW T, NEW s \in Seq(T), NEW e, Contains(s, e)
  PROVE  /\ RankIn(s, e) \in 1 .. Len(s) /\ s[RankIn(s, e)] = e
         /\ \A k \in 1 .. Len(s) : s[k] = e => RankIn(s, e) <= k
<1>1. PICK size \in Nat : size = Len(s) /\ DOMAIN s = 1 .. size
  BY LenProperties
<1> DEFINE Q == {k \in Nat : k \in 1 .. size /\ s[k] = e}
<1>2. Q # {} /\ Q \in SUBSET Nat
  BY <1>1 DEF Contains
<1>3. PICK k \in Q : \A j \in Q : k <= j
  BY <1>2, LeastNumber
<1>4. k \in DOMAIN s /\ s[k] = e /\ \A j \in 1 .. k - 1 : s[j] # e
  BY <1>1, <1>3
<1>5. RankIn(s, e) \in DOMAIN s /\ s[RankIn(s, e)] = e /\ \A j \in 1 .. RankIn(s, e) - 1 : s[j] # e
  BY <1>4 DEF RankIn
<1> QED
  BY <1>1, <1>5

(* Duplicates go, and what stays comes in the order of its first place.       *)
LEMMA DistinctKeeps ==
  ASSUME NEW T, NEW s \in Seq(T)
  PROVE  /\ Distinct(s) \in Seq(T)
         /\ Len(Distinct(s)) <= Len(s)
         /\ \A e : Contains(Distinct(s), e) <=> Contains(s, e)
         /\ \A m, n \in 1 .. Len(Distinct(s)) :
              m < n => RankIn(s, Distinct(s)[m]) < RankIn(s, Distinct(s)[n])
<1>1. PICK size \in Nat : size = Len(s) /\ DOMAIN s = 1 .. size /\ s \in [1 .. size -> T]
  BY LenProperties
<1> DEFINE P == {i \in DOMAIN s : \A j \in 1 .. i - 1 : s[j] # s[i]}
<1>2. P \in SUBSET (DOMAIN s)
  OBVIOUS
<1>3. Orders(Earlier(s), P) /\ IsFiniteSet(P) /\ Cardinality(P) \in 0 .. Len(s)
  BY <1>2, PositionsAreOrdered
<1>4. PICK at : Arranges(at, P, Earlier(s), s, Arranged(s, P, Earlier(s)))
  BY <1>3, ArrangedInOrder
<1>5. PICK n \in Nat : n = Cardinality(P) /\ n <= size
  <2> HIDE DEF P
  <2> QED
    BY <1>1, <1>3
<1>6. /\ Distinct(s) = [k \in 1 .. n |-> s[at[k]]] /\ at \in [1 .. n -> P]
      /\ \A i \in P : \E k \in 1 .. n : at[k] = i
      /\ \A k, m \in 1 .. n : k < m => <<at[k], at[m]>> \in Earlier(s)
  BY <1>4, <1>5 DEF Distinct, Arranges
<1>7. \A k \in 1 .. n : at[k] \in P /\ at[k] \in 1 .. size /\ s[at[k]] \in T
  BY <1>1, <1>6
<1>8. Distinct(s) \in Seq(T) /\ Len(Distinct(s)) = n
  <2> HIDE DEF P
  <2> QED
    BY <1>6, <1>7
<1>9. \A i \in P : RankIn(s, s[i]) = i
  <2> SUFFICES ASSUME NEW i \in P PROVE RankIn(s, s[i]) = i
    OBVIOUS
  <2>1. Contains(s, s[i]) /\ i \in 1 .. size
    BY <1>1 DEF Contains
  <2>2. /\ RankIn(s, s[i]) \in 1 .. size /\ s[RankIn(s, s[i])] = s[i]
        /\ RankIn(s, s[i]) <= i
    BY <1>1, <2>1, RankIsFirst
  <2>3. ~(RankIn(s, s[i]) \in 1 .. i - 1)
    BY <2>2
  <2> QED
    BY <2>1, <2>2, <2>3
<1>10. ASSUME NEW e, Contains(s, e) PROVE Contains(Distinct(s), e)
  <2>1. /\ RankIn(s, e) \in 1 .. size /\ s[RankIn(s, e)] = e
        /\ \A k \in 1 .. size : s[k] = e => RankIn(s, e) <= k
    BY <1>1, <1>10, RankIsFirst
  <2>2. RankIn(s, e) \in P
    BY <1>1, <2>1
  <2>3. PICK k \in 1 .. n : at[k] = RankIn(s, e)
    BY <1>6, <2>2
  <2> HIDE DEF P
  <2> QED
    BY <1>6, <1>8, <2>1, <2>3 DEF Contains
<1>11. ASSUME NEW e, Contains(Distinct(s), e) PROVE Contains(s, e)
  <2>1. PICK k \in 1 .. n : s[at[k]] = e
    BY <1>6, <1>8, <1>11 DEF Contains
  <2> HIDE DEF P
  <2> QED
    BY <1>1, <1>7, <2>1 DEF Contains
<1>12. ASSUME NEW k \in 1 .. n, NEW m \in 1 .. n, k < m
       PROVE  RankIn(s, Distinct(s)[k]) < RankIn(s, Distinct(s)[m])
  <2>1. at[k] < at[m]
    BY <1>6, <1>12 DEF Earlier
  <2>2. Distinct(s)[k] = s[at[k]] /\ Distinct(s)[m] = s[at[m]]
    BY <1>6
  <2>3. RankIn(s, s[at[k]]) = at[k] /\ RankIn(s, s[at[m]]) = at[m]
    BY <1>7, <1>9
  <2> QED
    BY <2>1, <2>2, <2>3
<1> HIDE DEF P
<1> QED
  BY <1>1, <1>5, <1>8, <1>10, <1>11, <1>12

(* A ranking has each element once, the better ones first, and those that are *)
(* as good in the order they had.                                             *)
LEMMA RankedKeeps ==
  ASSUME NEW T, NEW s \in Seq(T), NEW score, \A i \in DOMAIN s : score[s[i]] \in Int
  PROVE  \E at :
           /\ at \in [1 .. Len(s) -> 1 .. Len(s)]
           /\ \A i \in 1 .. Len(s) : \E n \in 1 .. Len(s) : at[n] = i
           /\ \A m, n \in 1 .. Len(s) : m < n => at[m] # at[n] /\ <<at[m], at[n]>> \in Better(s, score)
           /\ Ranked(s, score) = [n \in 1 .. Len(s) |-> s[at[n]]]
           /\ Ranked(s, score) \in Seq(T) /\ Len(Ranked(s, score)) = Len(s)
<1>1. PICK size \in Nat : size = Len(s) /\ DOMAIN s = 1 .. size /\ s \in [1 .. size -> T]
  BY LenProperties
<1>2. Orders(Better(s, score), DOMAIN s)
  <2>1. \A i \in 1 .. size : score[s[i]] \in Int
    BY <1>1
  <2>2. \A i, j \in 1 .. size :
          <<i, j>> \in Better(s, score) <=>
            (score[s[i]] > score[s[j]] \/ (score[s[i]] = score[s[j]] /\ i < j))
    BY <1>1 DEF Better
  <2> QED
    BY <1>1, <2>1, <2>2 DEF Orders
<1>3. IsFiniteSet(DOMAIN s) /\ Cardinality(DOMAIN s) = size
  <2>1. IsFiniteSet(1 .. size) /\ Cardinality(1 .. size) = size
    BY FS_Interval
  <2> QED
    BY <1>1, <2>1
<1>4. PICK at : Arranges(at, DOMAIN s, Better(s, score), s, Arranged(s, DOMAIN s, Better(s, score)))
  BY <1>2, <1>3, ArrangedInOrder
<1>5. /\ at \in [1 .. size -> 1 .. size]
      /\ \A i \in 1 .. size : \E n \in 1 .. size : at[n] = i
      /\ \A m, n \in 1 .. size : m < n => at[m] # at[n] /\ <<at[m], at[n]>> \in Better(s, score)
      /\ Ranked(s, score) = [n \in 1 .. size |-> s[at[n]]]
  BY <1>1, <1>3, <1>4 DEF Ranked, Arranges
<1>6. \A n \in 1 .. size : s[at[n]] \in T
  BY <1>1, <1>5
<1>7. Ranked(s, score) \in Seq(T) /\ Len(Ranked(s, score)) = size
  BY <1>5, <1>6
<1> QED
  BY <1>1, <1>5, <1>7

(* A prefix is the beginning of a sequence, or all of it.                     *)
LEMMA PrefixKeeps ==
  ASSUME NEW T, NEW s \in Seq(T), NEW n \in Nat
  PROVE  /\ Prefix(s, n) \in Seq(T)
         /\ Len(Prefix(s, n)) = IF n < Len(s) THEN n ELSE Len(s)
         /\ \A i \in 1 .. Len(Prefix(s, n)) : Prefix(s, n)[i] = s[i] /\ i \in 1 .. Len(s)
<1>1. PICK size \in Nat : size = Len(s) /\ s \in [1 .. size -> T]
  BY LenProperties
<1>2. PICK m \in Nat : m = (IF n < size THEN n ELSE size) /\ Prefix(s, n) = SubSeq(s, 1, m)
  BY <1>1 DEF Prefix
<1>3. m <= size
  BY <1>2
<1>4. \A i \in 1 .. m : s[i] \in T /\ i \in 1 .. size
  BY <1>1, <1>3
<1>5. /\ SubSeq(s, 1, m) \in Seq(T)
      /\ Len(SubSeq(s, 1, m)) = IF 1 <= m THEN m - 1 + 1 ELSE 0
      /\ \A i \in 1 .. m - 1 + 1 : SubSeq(s, 1, m)[i] = s[1 + i - 1]
  BY <1>4, SubSeqProperties
<1>6. Len(SubSeq(s, 1, m)) = m /\ \A i \in 1 .. m : SubSeq(s, 1, m)[i] = s[i]
  BY <1>5
<1> QED
  BY <1>1, <1>2, <1>4, <1>5, <1>6

(* The recursion behind FlattenSeq has a solution, of the type of its parts.  *)
IsFlat(g, seqs, n) == g = [i \in 1 .. n |-> IF i = 1 THEN seqs[i] ELSE g[i - 1] \o seqs[i]]

LEMMA FlatIsThere ==
  ASSUME NEW T, NEW n \in Nat, NEW seqs \in [1 .. n -> Seq(T)]
  PROVE  \E g \in [1 .. n -> Seq(T)] : IsFlat(g, seqs, n)
<1> DEFINE Solved == {k \in Nat : k > n \/ \E g \in [1 .. k -> Seq(T)] : IsFlat(g, seqs, k)}
           Unsolved == Nat \ Solved
<1>1. 0 \in Solved
  <2> DEFINE g == [i \in 1 .. 0 |-> <<>>]
  <2>1. g \in [1 .. 0 -> Seq(T)] /\ IsFlat(g, seqs, 0)
    BY DEF IsFlat
  <2> QED
    BY <2>1
<1>2. ASSUME NEW k \in Solved, k + 1 <= n PROVE k + 1 \in Solved
  <2>1. PICK g \in [1 .. k -> Seq(T)] : IsFlat(g, seqs, k)
    BY <1>2
  <2> DEFINE h == [i \in 1 .. k + 1 |-> IF i = 1 THEN seqs[i] ELSE g[i - 1] \o seqs[i]]
  <2>2. k \in Nat
    OBVIOUS
  <2>3. \A i \in 1 .. k : g[i] = IF i = 1 THEN seqs[i] ELSE g[i - 1] \o seqs[i]
    BY <2>1 DEF IsFlat
  <2>4. \A i \in 1 .. k : i \in 1 .. k + 1
    BY <2>2
  <2>5. \A i \in 1 .. k : h[i] = g[i]
    BY <2>3, <2>4
  <2>6. \A i \in 1 .. k + 1 : i = 1 \/ h[i - 1] = g[i - 1]
    <3> HIDE DEF h
    <3> QED
      BY <2>2, <2>5
  <2>7. IsFlat(h, seqs, k + 1)
    <3>1. \A i \in 1 .. k + 1 :
            (IF i = 1 THEN seqs[i] ELSE g[i - 1] \o seqs[i]) = (IF i = 1 THEN seqs[i] ELSE h[i - 1] \o seqs[i])
      BY <2>6
    <3> QED
      BY <3>1 DEF IsFlat
  <2>8. \A i \in 1 .. k + 1 : seqs[i] \in Seq(T) /\ (i = 1 \/ g[i - 1] \in Seq(T))
    BY <1>2, <2>1, <2>2
  <2>9. h \in [1 .. k + 1 -> Seq(T)]
    BY <2>8
  <2> HIDE DEF h
  <2> QED
    BY <2>2, <2>7, <2>9
<1> HIDE DEF Solved
<1>3. ASSUME n \notin Solved PROVE FALSE
  <2>1. Unsolved \in SUBSET Nat /\ n \in Unsolved
    BY <1>3
  <2>2. PICK k \in Unsolved : \A j \in Unsolved : k <= j
    BY <2>1, LeastNumber
  <2>3. k \in Nat /\ k # 0 /\ k <= n
    BY <1>1, <2>1, <2>2
  <2>4. k - 1 \in Solved
    BY <2>2, <2>3
  <2>5. k - 1 + 1 = k
    BY <2>3
  <2> QED
    BY <1>2, <2>2, <2>3, <2>4, <2>5
<1> QED
  BY <1>3 DEF Solved

(* What is put together is of the type of its parts.                         *)
LEMMA FlattenKeeps ==
  ASSUME NEW T, NEW seqs \in Seq(Seq(T))
  PROVE  FlattenSeq(seqs) \in Seq(T)
<1>1. PICK n \in Nat : n = Len(seqs) /\ seqs \in [1 .. n -> Seq(T)]
  BY LenProperties
<1>2. CASE n = 0
  <2>1. seqs = <<>> /\ FlattenSeq(seqs) = seqs
    BY <1>1, <1>2, EmptySeq DEF FlattenSeq
  <2> QED
    BY <2>1, EmptySeq
<1>3. CASE n # 0
  <2> DEFINE flat == CHOOSE g : IsFlat(g, seqs, n)
  <2>1. FlattenSeq(seqs) = flat[n]
    BY <1>1, <1>3 DEF FlattenSeq, IsFlat
  <2>2. PICK g \in [1 .. n -> Seq(T)] : IsFlat(g, seqs, n)
    BY <1>1, FlatIsThere
  <2>3. IsFlat(flat, seqs, n)
    BY <2>2
  <2> HIDE DEF flat
  <2> DEFINE Wrong == {i \in Nat : i \in 1 .. n /\ flat[i] \notin Seq(T)}
  <2>4. ASSUME Wrong # {} PROVE FALSE
    <3>1. PICK i \in Wrong : \A j \in Wrong : i <= j
      BY <2>4, LeastNumber
    <3>2. i \in 1 .. n /\ flat[i] = IF i = 1 THEN seqs[i] ELSE flat[i - 1] \o seqs[i]
      BY <2>3 DEF IsFlat
    <3>3. i = 1 \/ flat[i - 1] \in Seq(T)
      BY <3>1, <3>2
    <3>4. seqs[i] \in Seq(T)
      BY <1>1, <3>2
    <3>5. flat[i] \in Seq(T)
      BY <3>2, <3>3, <3>4, ConcatProperties
    <3> QED
      BY <3>1, <3>5
  <2> QED
    BY <1>3, <2>1, <2>4
<1> QED
  BY <1>2, <1>3

(* What a sequence contains is at one of its places.                          *)
LEMMA ContainsPlace ==
  ASSUME NEW T, NEW s \in Seq(T), NEW e
  PROVE  Contains(s, e) <=> \E i \in 1 .. Len(s) : s[i] = e
BY LenProperties DEF Contains

(* The candidates come from the full text first, then from the vectors.       *)
LEMMA AgreedComesFirst ==
  ASSUME NEW T, NEW s \in Seq(T), NEW t \in Seq(T), NEW u \in Seq(T), NEW a, NEW b,
         Precedes(s, a, b), Precedes(t, a, b), Contains(s \o t, b)
  PROVE  Contains(s \o t \o u, b) /\ Contains(s \o t \o u, a) /\ RankIn(s \o t \o u, a) < RankIn(s \o t \o u, b)
<1> DEFINE st == s \o t
           all == s \o t \o u
<1>1. PICK ls \in Nat, lt \in Nat, lu \in Nat : ls = Len(s) /\ lt = Len(t) /\ lu = Len(u)
  BY LenProperties
<1>2. /\ st \in Seq(T) /\ Len(st) = ls + lt
      /\ \A i \in 1 .. ls + lt : st[i] = IF i <= ls THEN s[i] ELSE t[i - ls]
  BY <1>1, ConcatProperties
<1>3. /\ all \in Seq(T) /\ Len(all) = ls + lt + lu
      /\ \A i \in 1 .. ls + lt + lu : all[i] = IF i <= ls + lt THEN st[i] ELSE u[i - (ls + lt)]
  <2> HIDE DEF st
  <2> QED
    BY <1>1, <1>2, ConcatProperties DEF st
<1> HIDE DEF st, all
<1>4. \A i \in 1 .. ls + lt : all[i] = IF i <= ls THEN s[i] ELSE t[i - ls]
  BY <1>2, <1>3
<1>5. PICK p \in 1 .. ls + lt : all[p] = b
  <2>1. PICK p \in 1 .. ls + lt : st[p] = b
    BY <1>2, ContainsPlace DEF st
  <2> QED
    BY <1>2, <1>4, <2>1
<1>6. Contains(all, b)
  BY <1>3, <1>5, ContainsPlace
<1>7. /\ RankIn(all, b) \in 1 .. ls + lt /\ all[RankIn(all, b)] = b
  <2>1. RankIn(all, b) \in 1 .. ls + lt + lu /\ all[RankIn(all, b)] = b /\ RankIn(all, b) <= p
    BY <1>3, <1>5, <1>6, RankIsFirst
  <2> QED
    BY <2>1
<1>8. PICK rb \in 1 .. ls + lt : rb = RankIn(all, b) /\ all[rb] = b
  BY <1>7
<1>9. \E i \in 1 .. rb - 1 : all[i] = a
  <2>1. CASE rb <= ls
    <3>1. rb \in 1 .. ls /\ s[rb] = b
      BY <1>4, <1>8, <2>1
    <3>2. Contains(s, b) /\ RankIn(s, b) <= rb
      BY <1>1, <3>1, ContainsPlace, RankIsFirst
    <3>3. Contains(s, a) /\ RankIn(s, a) < RankIn(s, b)
      BY <3>2 DEF Precedes
    <3>4. RankIn(s, a) \in 1 .. ls /\ s[RankIn(s, a)] = a /\ RankIn(s, b) \in 1 .. ls
      BY <1>1, <3>2, <3>3, RankIsFirst
    <3>5. RankIn(s, a) \in 1 .. rb - 1 /\ all[RankIn(s, a)] = a
      BY <1>4, <3>1, <3>2, <3>3, <3>4
    <3> QED
      BY <3>5
  <2>2. CASE rb > ls
    <3>1. rb - ls \in 1 .. lt /\ t[rb - ls] = b
      BY <1>4, <1>8, <2>2
    <3>2. Contains(t, b) /\ RankIn(t, b) <= rb - ls
      BY <1>1, <3>1, ContainsPlace, RankIsFirst
    <3>3. Contains(t, a) /\ RankIn(t, a) < RankIn(t, b)
      BY <3>2 DEF Precedes
    <3>4. RankIn(t, a) \in 1 .. lt /\ t[RankIn(t, a)] = a /\ RankIn(t, b) \in 1 .. lt
      BY <1>1, <3>2, <3>3, RankIsFirst
    <3>5. PICK i \in 1 .. lt : i = RankIn(t, a) /\ i < rb - ls
      BY <3>2, <3>3, <3>4
    <3>6. ls + i \in 1 .. rb - 1 /\ ls + i \in 1 .. ls + lt /\ ~(ls + i <= ls) /\ ls + i - ls = i
      BY <1>8, <3>5
    <3>7. all[ls + i] = t[i]
      BY <1>4, <3>6
    <3> QED
      BY <3>4, <3>5, <3>6, <3>7
  <2> QED
    BY <2>1, <2>2
<1>10. PICK i \in 1 .. rb - 1 : all[i] = a
  BY <1>9
<1>11. i \in 1 .. ls + lt + lu
  BY <1>8
<1>12. Contains(all, a) /\ RankIn(all, a) <= i /\ RankIn(all, a) \in 1 .. ls + lt + lu
  BY <1>3, <1>10, <1>11, ContainsPlace, RankIsFirst
<1> QED
  BY <1>6, <1>8, <1>12 DEF all

(* The share of a rank falls with the rank.                                   *)
LEMMA ShareFalls ==
  ASSUME NEW a \in Nat, NEW b \in Nat, 1 <= a, a <= b
  PROVE  Share(a) \in Nat /\ Share(b) \in Nat /\ Share(b) <= Share(a)
<1>1. PICK x \in Nat \ {0}, y \in Nat \ {0}, scale \in Nat : x = RrfK + a /\ y = RrfK + b /\ scale = Scale
  BY DEF RrfK, Scale
<1>2. x <= y
  BY <1>1 DEF RrfK
<1>3. PICK m \in Int, n \in Int : m = scale \div x /\ n = scale \div y
  BY <1>1
<1>4. m \in Nat /\ n \in Nat
  BY <1>1, <1>3
<1>5. x * m <= scale /\ scale < x * (m + 1)
  BY <1>1, <1>3
<1>6. y * n <= scale /\ scale < y * (n + 1)
  BY <1>1, <1>3
<1>7. ASSUME m < n PROVE FALSE
  <2>1. x * n <= y * n
    BY <1>2, <1>4, <1>1
  <2>2. m + 1 <= n /\ x * (m + 1) <= x * n
    BY <1>1, <1>4, <1>7
  <2>3. x * (m + 1) \in Int /\ x * n \in Int /\ y * n \in Int
    BY <1>1, <1>4
  <2> QED
    BY <1>5, <1>6, <2>1, <2>2, <2>3, <1>1
<1>8. Share(a) = m /\ Share(b) = n
  BY <1>1, <1>3 DEF Share
<1> QED
  BY <1>4, <1>7, <1>8

(* A name counts as often as it is mentioned.                                 *)
LEMMA TimesCounts ==
  ASSUME NEW T, NEW s \in Seq(T), NEW c
  PROVE  Times(s, c) \in Nat /\ (Contains(s, c) <=> Times(s, c) > 0)
<1> DEFINE P == {k \in DOMAIN s : s[k] = c}
<1>1. P \in SUBSET (DOMAIN s)
  OBVIOUS
<1>2. IsFiniteSet(P)
  BY <1>1, PositionsAreOrdered
<1>3. Cardinality(P) \in Nat /\ (Cardinality(P) = 0 <=> P = {})
  BY <1>2, FS_CardinalityType, FS_EmptySet
<1>4. Contains(s, c) <=> P # {}
  BY DEF Contains
<1>5. Times(s, c) = Cardinality(P)
  BY DEF Times
<1> HIDE DEF P
<1> QED
  BY <1>3, <1>4, <1>5

(* Products of natural numbers grow with both factors.                        *)
LEMMA MoreIsMore ==
  ASSUME NEW x \in Nat, NEW y \in Nat, NEW m \in Nat, NEW n \in Nat, x <= y, m <= n
  PROVE  x * m \in Nat /\ y * n \in Nat /\ x * m <= y * n
<1>1. x * m <= y * m
  OBVIOUS
<1>2. y * m <= y * n
  OBVIOUS
<1>3. x * m \in Nat /\ y * m \in Nat /\ y * n \in Nat
  OBVIOUS
<1> QED
  BY <1>1, <1>2, <1>3

(* What the index has of the branch asked for.                                *)
Askable(q) == {c \in q.chunks : OfBranch(q, c)}

(* What a question is of: the typed half of the assumption.                   *)
LEMMA QuestionTypes ==
  ASSUME NEW q \in Questions
  PROVE  /\ Limit \in Nat /\ ExpandFrom \in Nat /\ PerName \in Nat /\ MaxExpanded \in Nat
         /\ q.k \in Nat /\ q.bm25 \in Nat /\ q.bm25 > Limit
         /\ q.matches \in Seq(q.chunks) /\ q.nearest \in Seq(DOMAIN q.quality) /\ q.named \in Seq(q.chunks)
         /\ \A c \in q.chunks : c \in DOMAIN q.quality /\ q.refs[c] \in Seq(DOMAIN q.definitions)
         /\ \A c \in q.chunks : q.quality[c] \in {"ast", "regex", "text"}
         /\ \A n \in DOMAIN q.definitions : q.definitions[n] \in Seq(DOMAIN q.quality)
BY QuestionsAssumption

(* The filter by branch leaves what can be asked for.                         *)
LEMMA BranchTypes ==
  ASSUME NEW q, NEW s \in Seq(q.chunks)
  PROVE  FilterByBranch(q, s) \in Seq(Askable(q)) /\ Len(FilterByBranch(q, s)) <= Len(s)
<1> DEFINE kept == {c \in ToSet(s) : OfBranch(q, c)}
<1>1. Only(s, kept) \in Seq(q.chunks \cap kept) /\ Len(Only(s, kept)) <= Len(s)
  BY OnlyKeeps
<1>2. q.chunks \cap kept \subseteq Askable(q)
  BY DEF Askable
<1> HIDE DEF kept
<1>3. Only(s, kept) \in Seq(Askable(q))
  BY <1>1, <1>2, SeqMonotonic
<1> QED
  BY <1>1, <1>3 DEF FilterByBranch, kept

(* What is found is in the index and of the branch.                           *)
LEMMA FoundTypes ==
  ASSUME NEW q \in Questions
  PROVE  /\ Found(q).fts \in Seq(Askable(q)) /\ Len(Found(q).fts) <= Limit
         /\ Found(q).vec \in Seq(Askable(q)) /\ Found(q).sym \in Seq(Askable(q))
<1>1. FtsSearch(q) \in Seq(q.chunks) /\ Len(FtsSearch(q)) <= Limit
  <2>1. q.matches \in Seq(q.chunks) /\ Limit \in Nat
    BY QuestionTypes
  <2>2. /\ Prefix(q.matches, Limit) \in Seq(q.chunks)
        /\ Len(Prefix(q.matches, Limit)) = IF Limit < Len(q.matches) THEN Limit ELSE Len(q.matches)
    BY <2>1, PrefixKeeps
  <2>3. Len(q.matches) \in Nat
    BY <2>1, LenProperties
  <2> QED
    BY <2>1, <2>2, <2>3 DEF FtsSearch
<1>2. SearchVectors(q) \in Seq(q.chunks)
  <2>1. 3 * Limit \in Nat
    BY QuestionTypes
  <2>2. Prefix(q.nearest, 3 * Limit) \in Seq(DOMAIN q.quality)
    BY <2>1, QuestionTypes, PrefixKeeps
  <2>3. SearchVectors(q) \in Seq((DOMAIN q.quality) \cap q.chunks)
    BY <2>2, OnlyKeeps DEF SearchVectors
  <2>4. (DOMAIN q.quality) \cap q.chunks \subseteq q.chunks
    OBVIOUS
  <2> QED
    BY <2>3, <2>4, SeqMonotonic
<1>3. /\ FilterByBranch(q, FtsSearch(q)) \in Seq(Askable(q))
      /\ Len(FilterByBranch(q, FtsSearch(q))) <= Len(FtsSearch(q))
  BY <1>1, BranchTypes
<1>4. Len(FilterByBranch(q, FtsSearch(q))) \in Nat /\ Len(FtsSearch(q)) \in Nat /\ Limit \in Nat
  BY <1>1, <1>3, LenProperties, QuestionTypes
<1>5. FilterByBranch(q, SearchVectors(q)) \in Seq(Askable(q))
  BY <1>2, BranchTypes
<1>6. FilterByBranch(q, q.named) \in Seq(Askable(q))
  BY BranchTypes, QuestionTypes
<1> QED
  BY <1>1, <1>3, <1>4, <1>5, <1>6 DEF Found

(* The candidates: each once.                                                 *)
LEMMA CandidateTypes ==
  ASSUME NEW q \in Questions
  PROVE  LET f == Found(q)
             all == f.fts \o f.vec \o f.sym
         IN  /\ all \in Seq(Askable(q))
             /\ Candidates(f) \in Seq(Askable(q))
             /\ \A e : Contains(Candidates(f), e) <=> Contains(all, e)
             /\ \A m, n \in 1 .. Len(Candidates(f)) :
                  m < n => RankIn(all, Candidates(f)[m]) < RankIn(all, Candidates(f)[n])
<1> DEFINE f == Found(q)
           all == f.fts \o f.vec \o f.sym
<1>1. f.fts \o f.vec \in Seq(Askable(q))
  BY FoundTypes, ConcatProperties
<1>2. all \in Seq(Askable(q))
  BY <1>1, FoundTypes, ConcatProperties
<1>3. Candidates(f) = Distinct(all)
  BY DEF Candidates
<1> HIDE DEF all, f
<1> QED
  BY <1>2, <1>3, DistinctKeeps DEF all, f

(* A multiplier is a percentage, the higher the stronger the quality.         *)
LEMMA MultiplierGrows ==
  ASSUME NEW x \in {"ast", "regex", "text"}, NEW y \in {"ast", "regex", "text"}
  PROVE  /\ Multiplier(x) \in Nat /\ Multiplier(y) \in Nat /\ Strength(x) \in Nat
         /\ Strength(x) >= Strength(y) => Multiplier(y) <= Multiplier(x)
BY DEF Multiplier, Strength

(* What a search finds earlier has the larger share.                          *)
LEMMA RrfShareGrows ==
  ASSUME NEW T, NEW s \in Seq(T), NEW a, NEW b
  PROVE  /\ RrfShare(s, a) \in Nat /\ RrfShare(s, b) \in Nat
         /\ Precedes(s, a, b) => RrfShare(s, b) <= RrfShare(s, a)
<1>1. \A e : Contains(s, e) => RankIn(s, e) \in Nat /\ 1 <= RankIn(s, e)
  BY RankIsFirst
<1>2. \A e : RrfShare(s, e) \in Nat
  BY <1>1, ShareFalls DEF RrfShare
<1>3. ASSUME Precedes(s, a, b), Contains(s, b) PROVE RrfShare(s, b) <= RrfShare(s, a)
  <2>1. Contains(s, a) /\ RankIn(s, a) < RankIn(s, b)
    BY <1>3 DEF Precedes
  <2>2. Share(RankIn(s, b)) <= Share(RankIn(s, a))
    BY <1>1, <1>3, <2>1, ShareFalls
  <2> QED
    BY <1>3, <2>1, <2>2 DEF RrfShare
<1>4. ~Contains(s, b) => RrfShare(s, b) <= RrfShare(s, a)
  <2>1. ~Contains(s, b) => RrfShare(s, b) = 0
    BY DEF RrfShare
  <2> QED
    BY <1>2, <2>1
<1> QED
  BY <1>2, <1>3, <1>4

(* With vectors: what every search finds at least as well scores at least as  *)
(* high.                                                                      *)
LEMMA HybridAgrees ==
  ASSUME NEW q \in Questions, NEW a \in q.chunks, NEW b \in q.chunks
  PROVE  /\ HybridScore(q, Found(q), a) \in Nat /\ HybridScore(q, Found(q), b) \in Nat
         /\ (asked = q /\ Dominates(Found(q), a, b)) => HybridScore(q, Found(q), b) <= HybridScore(q, Found(q), a)
<1> DEFINE f == Found(q)
           base(c) == RrfShare(f.fts, c) + RrfShare(f.vec, c) + Times(f.sym, c) * Share(1)
           mul(c) == Multiplier(q.quality[c])
<1>1. f.fts \in Seq(Askable(q)) /\ f.vec \in Seq(Askable(q)) /\ f.sym \in Seq(Askable(q))
  BY FoundTypes
<1> HIDE DEF f
<1>2. /\ RrfShare(f.fts, a) \in Nat /\ RrfShare(f.fts, b) \in Nat /\ RrfShare(f.vec, a) \in Nat /\ RrfShare(f.vec, b) \in Nat
      /\ Precedes(f.fts, a, b) => RrfShare(f.fts, b) <= RrfShare(f.fts, a)
      /\ Precedes(f.vec, a, b) => RrfShare(f.vec, b) <= RrfShare(f.vec, a)
  BY <1>1, RrfShareGrows
<1>3. Times(f.sym, a) \in Nat /\ Times(f.sym, b) \in Nat
  BY <1>1, TimesCounts
<1>4. Share(1) \in Nat
  BY ShareFalls
<1>5. /\ Times(f.sym, a) * Share(1) \in Nat /\ Times(f.sym, b) * Share(1) \in Nat
      /\ Times(f.sym, b) <= Times(f.sym, a) => Times(f.sym, b) * Share(1) <= Times(f.sym, a) * Share(1)
  <2>1. \A x \in Nat, y \in Nat, m \in Nat : x * m \in Nat /\ (x <= y => x * m <= y * m)
    BY MoreIsMore
  <2> QED
    BY <1>3, <1>4, <2>1
<1>6. base(a) \in Nat /\ base(b) \in Nat
  BY <1>2, <1>5
<1>7. /\ mul(a) \in Nat /\ mul(b) \in Nat
      /\ Strength(q.quality[a]) >= Strength(q.quality[b]) => mul(b) <= mul(a)
  BY QuestionTypes, MultiplierGrows
<1>8. HybridScore(q, f, a) = base(a) * mul(a) /\ HybridScore(q, f, b) = base(b) * mul(b)
  BY DEF HybridScore
<1>9. ASSUME asked = q, Dominates(f, a, b) PROVE base(b) <= base(a) /\ mul(b) <= mul(a)
  <2>1. /\ Precedes(f.fts, a, b) /\ Precedes(f.vec, a, b)
        /\ Times(f.sym, a) >= Times(f.sym, b) /\ Strength(q.quality[a]) >= Strength(q.quality[b])
    BY <1>9 DEF Dominates
  <2>2. /\ RrfShare(f.fts, b) <= RrfShare(f.fts, a) /\ RrfShare(f.vec, b) <= RrfShare(f.vec, a)
        /\ Times(f.sym, b) * Share(1) <= Times(f.sym, a) * Share(1)
    BY <1>2, <1>3, <1>5, <2>1
  <2> QED
    BY <1>2, <1>5, <1>7, <2>1, <2>2
<1> HIDE DEF base, mul
<1>10. base(a) * mul(a) \in Nat /\ base(b) * mul(b) \in Nat
  BY <1>6, <1>7, MoreIsMore
<1>11. (asked = q /\ Dominates(f, a, b)) => base(b) * mul(b) <= base(a) * mul(a)
  BY <1>6, <1>7, <1>9, MoreIsMore
<1> QED
  BY <1>8, <1>10, <1>11 DEF f

(* Without vectors the same: an exact name counts only where it is the better *)
(* score.                                                                     *)
LEMMA FtsAgrees ==
  ASSUME NEW q \in Questions, NEW a \in q.chunks, NEW b \in q.chunks
  PROVE  /\ FtsScore(q, Found(q), a) \in Nat /\ FtsScore(q, Found(q), b) \in Nat
         /\ (asked = q /\ Dominates(Found(q), a, b) /\ Contains(Found(q).fts, b))
              => FtsScore(q, Found(q), b) <= FtsScore(q, Found(q), a)
<1> DEFINE f == Found(q)
           base(c) == IF NameWins(q, f, c) THEN SymbolScore ELSE Bm25(q, f, c)
           mul(c) == Multiplier(q.quality[c])
<1>1. f.fts \in Seq(Askable(q)) /\ Len(f.fts) <= Limit /\ f.sym \in Seq(Askable(q))
  BY FoundTypes
<1> HIDE DEF f
<1>2. \A c : Contains(f.fts, c) => RankIn(f.fts, c) \in Nat /\ RankIn(f.fts, c) <= Limit
  <2>1. Len(f.fts) \in Nat /\ Limit \in Nat
    BY <1>1, LenProperties, QuestionTypes
  <2>2. \A c : Contains(f.fts, c) => RankIn(f.fts, c) \in 1 .. Len(f.fts)
    BY <1>1, RankIsFirst
  <2> QED
    BY <1>1, <2>1, <2>2
<1>3. \A c : Bm25(q, f, c) \in Nat
  BY <1>2, QuestionTypes DEF Bm25
<1>4. \A c : base(c) \in Nat /\ (NameWins(q, f, c) <=> Contains(f.sym, c) /\ 100 > Bm25(q, f, c))
  BY <1>3 DEF SymbolScore, NameWins
<1>5. /\ mul(a) \in Nat /\ mul(b) \in Nat
      /\ Strength(q.quality[a]) >= Strength(q.quality[b]) => mul(b) <= mul(a)
  BY QuestionTypes, MultiplierGrows
<1>6. FtsScore(q, f, a) = base(a) * mul(a) /\ FtsScore(q, f, b) = base(b) * mul(b)
  BY DEF FtsScore
<1>7. ASSUME asked = q, Dominates(f, a, b), Contains(f.fts, b) PROVE base(b) <= base(a) /\ mul(b) <= mul(a)
  <2>1. /\ Precedes(f.fts, a, b) /\ Times(f.sym, a) >= Times(f.sym, b)
        /\ Strength(q.quality[a]) >= Strength(q.quality[b])
    BY <1>7 DEF Dominates
  <2>2. Contains(f.fts, a) /\ RankIn(f.fts, a) < RankIn(f.fts, b)
    BY <1>7, <2>1 DEF Precedes
  <2>3. Bm25(q, f, b) <= Bm25(q, f, a)
    BY <1>2, <1>7, <2>2, QuestionTypes DEF Bm25
  <2>4. Contains(f.sym, b) => Contains(f.sym, a)
    BY <1>1, <2>1, TimesCounts
  <2>5. base(b) <= base(a)
    BY <1>3, <1>4, <2>3, <2>4 DEF SymbolScore
  <2> QED
    BY <1>5, <2>1, <2>5
<1> HIDE DEF base, mul
<1>8. base(a) * mul(a) \in Nat /\ base(b) * mul(b) \in Nat
  BY <1>4, <1>5, MoreIsMore
<1>9. (asked = q /\ Dominates(f, a, b) /\ Contains(f.fts, b)) => base(b) * mul(b) <= base(a) * mul(a)
  BY <1>4, <1>5, <1>7, MoreIsMore
<1> QED
  BY <1>6, <1>8, <1>9 DEF f

(* With vectors or without.                                                   *)
LEMMA ScoreAgrees ==
  ASSUME NEW q \in Questions, NEW a \in q.chunks, NEW b \in q.chunks
  PROVE  /\ Score(q, Found(q), a) \in Nat /\ Score(q, Found(q), b) \in Nat
         /\ (asked = q /\ Dominates(Found(q), a, b)) => Score(q, Found(q), b) <= Score(q, Found(q), a)
<1>1. CASE Hybrid(Found(q))
  BY <1>1, HybridAgrees DEF Score
<1>2. CASE ~Hybrid(Found(q))
  <2>1. Found(q).vec = <<>>
    BY <1>2 DEF Hybrid
  <2>2. Found(q).fts \o Found(q).vec = Found(q).fts
    BY <2>1, FoundTypes, ConcatEmptySeq
  <2>3. Dominates(Found(q), a, b) => Contains(Found(q).fts, b)
    BY <2>2 DEF Dominates
  <2> QED
    BY <1>2, <2>3, FtsAgrees DEF Score
<1> QED
  BY <1>1, <1>2

(* No element of s comes twice.                                               *)
OnceEach(s) == \A m, n \in 1 .. Len(s) : m < n => s[m] # s[n]

(* Once it is distinct, once it stays: in a prefix and in reverse.            *)
LEMMA DistinctOnce ==
  ASSUME NEW T, NEW s \in Seq(T)
  PROVE  OnceEach(Distinct(s))
<1>1. PICK n \in Nat : n = Len(Distinct(s))
  BY DistinctKeeps, LenProperties
<1>2. \A k \in 1 .. n : RankIn(s, Distinct(s)[k]) \in Nat
  <2> SUFFICES ASSUME NEW k \in 1 .. n PROVE RankIn(s, Distinct(s)[k]) \in Nat
    OBVIOUS
  <2>1. Contains(Distinct(s), Distinct(s)[k])
    BY <1>1, DistinctKeeps, ContainsPlace
  <2> QED
    BY <2>1, DistinctKeeps, RankIsFirst
<1>3. \A k, m \in 1 .. n : k < m => RankIn(s, Distinct(s)[k]) < RankIn(s, Distinct(s)[m])
  BY <1>1, DistinctKeeps
<1>4. \A k, m \in 1 .. n : k < m => Distinct(s)[k] # Distinct(s)[m]
  BY <1>2, <1>3
<1> QED
  BY <1>1, <1>4 DEF OnceEach

LEMMA PrefixOnce ==
  ASSUME NEW T, NEW s \in Seq(T), NEW n \in Nat, OnceEach(s)
  PROVE  OnceEach(Prefix(s, n))
BY PrefixKeeps DEF OnceEach

LEMMA ReverseKeeps ==
  ASSUME NEW T, NEW s \in Seq(T)
  PROVE  Reverse(s) \in Seq(T) /\ Len(Reverse(s)) = Len(s) /\ (OnceEach(s) => OnceEach(Reverse(s)))
<1>1. PICK n \in Nat : n = Len(s) /\ s \in [1 .. n -> T]
  BY LenProperties
<1>2. Reverse(s) = [i \in 1 .. n |-> s[(n - i) + 1]]
  BY <1>1 DEF Reverse
<1>3. \A i \in 1 .. n : (n - i) + 1 \in 1 .. n
  OBVIOUS
<1>4. \A i \in 1 .. n : s[(n - i) + 1] \in T
  BY <1>1, <1>3
<1>5. Reverse(s) \in Seq(T) /\ Len(Reverse(s)) = n
  BY <1>2, <1>4
<1>6. ASSUME OnceEach(s), NEW i \in 1 .. n, NEW j \in 1 .. n, i < j PROVE Reverse(s)[i] # Reverse(s)[j]
  <2>1. (n - j) + 1 < (n - i) + 1
    BY <1>6
  <2>2. s[(n - j) + 1] # s[(n - i) + 1]
    BY <1>1, <1>3, <1>6, <2>1 DEF OnceEach
  <2> QED
    BY <1>2, <2>2
<1> QED
  BY <1>1, <1>5, <1>6 DEF OnceEach

(* The candidates in the order of their scores, as in RunQuery.               *)
Merged(q) == Ranked(Candidates(Found(q)), [c \in ToSet(Candidates(Found(q))) |-> Score(q, Found(q), c)])

(* The ranking has every candidate once, and does not turn around what the    *)
(* searches agree on.                                                         *)
LEMMA MergedKeeps ==
  ASSUME NEW q \in Questions
  PROVE  /\ Merged(q) \in Seq(Askable(q)) /\ OnceEach(Merged(q))
         /\ \A e : Contains(Merged(q), e) <=> Contains(Candidates(Found(q)), e)
         /\ asked = q =>
              \A j \in 1 .. Len(Merged(q)) : \A a \in ToSet(Candidates(Found(q))) :
                Dominates(Found(q), a, Merged(q)[j]) => \E i \in 1 .. j - 1 : Merged(q)[i] = a
<1> DEFINE f == Found(q)
           all == f.fts \o f.vec \o f.sym
           cand == Candidates(f)
           score == [c \in ToSet(cand) |-> Score(q, f, c)]
<1>1. /\ all \in Seq(Askable(q)) /\ cand \in Seq(Askable(q))
      /\ \A m, n \in 1 .. Len(cand) : m < n => RankIn(all, cand[m]) < RankIn(all, cand[n])
  BY CandidateTypes
<1>2. OnceEach(cand)
  BY <1>1, DistinctOnce DEF Candidates
<1>3. PICK size \in Nat : size = Len(cand) /\ DOMAIN cand = 1 .. size /\ cand \in [1 .. size -> Askable(q)]
  BY <1>1, LenProperties
<1>4. ToSet(cand) = {cand[i] : i \in 1 .. size}
  BY <1>3 DEF ToSet
<1>5. \A i \in 1 .. size : cand[i] \in q.chunks /\ score[cand[i]] = Score(q, f, cand[i]) /\ score[cand[i]] \in Nat
  <2>1. \A i \in 1 .. size : cand[i] \in q.chunks
    BY <1>3 DEF Askable
  <2>2. \A c \in q.chunks : Score(q, f, c) \in Nat
    BY ScoreAgrees
  <2>3. \A i \in 1 .. size : score[cand[i]] = Score(q, f, cand[i])
    BY <1>4
  <2> HIDE DEF score, f, cand
  <2> QED
    BY <2>1, <2>2, <2>3
<1>6. Merged(q) = Ranked(cand, score)
  BY DEF Merged
<1> HIDE DEF score, f, all
<1>7. PICK at :
        /\ at \in [1 .. size -> 1 .. size]
        /\ \A i \in 1 .. size : \E n \in 1 .. size : at[n] = i
        /\ \A m, n \in 1 .. size : m < n => at[m] # at[n] /\ <<at[m], at[n]>> \in Better(cand, score)
        /\ Ranked(cand, score) = [n \in 1 .. size |-> cand[at[n]]]
        /\ Ranked(cand, score) \in Seq(Askable(q)) /\ Len(Ranked(cand, score)) = size
  <2>1. \A i \in DOMAIN cand : score[cand[i]] \in Int
    BY <1>3, <1>5
  <2> HIDE DEF cand
  <2> QED
    BY <1>1, <1>3, <2>1, RankedKeeps
<1> HIDE DEF cand
<1>8. \A n \in 1 .. size : at[n] \in 1 .. size /\ Merged(q)[n] = cand[at[n]]
  BY <1>6, <1>7
<1>9. Merged(q) \in Seq(Askable(q)) /\ Len(Merged(q)) = size
  BY <1>6, <1>7
<1>10. \A i, j \in 1 .. size : i # j => cand[i] # cand[j]
  BY <1>2, <1>3 DEF OnceEach
<1>11. OnceEach(Merged(q))
  <2>1. \A m, n \in 1 .. size : m < n => at[m] # at[n]
    BY <1>7
  <2>2. \A m, n \in 1 .. size : m < n => Merged(q)[m] # Merged(q)[n]
    BY <1>8, <1>10, <2>1
  <2> QED
    BY <1>9, <2>2 DEF OnceEach
<1>12. \A e : Contains(Merged(q), e) <=> Contains(cand, e)
  <2>1. \A e : Contains(Merged(q), e) <=> \E n \in 1 .. size : cand[at[n]] = e
    BY <1>8, <1>9, ContainsPlace
  <2>2. \A e : Contains(cand, e) <=> \E n \in 1 .. size : cand[n] = e
    BY <1>1, <1>3, ContainsPlace
  <2>3. \A n \in 1 .. size : \E i \in 1 .. size : at[i] = n
    BY <1>7
  <2>4. \A n \in 1 .. size : at[n] \in 1 .. size
    BY <1>8
  <2>5. \A e : (\E n \in 1 .. size : cand[n] = e) => \E n \in 1 .. size : cand[at[n]] = e
    <3> SUFFICES ASSUME NEW n \in 1 .. size PROVE \E i \in 1 .. size : cand[at[i]] = cand[n]
      OBVIOUS
    <3>1. PICK i \in 1 .. size : at[i] = n
      BY <2>3
    <3> QED
      BY <3>1
  <2>6. \A e : (\E n \in 1 .. size : cand[at[n]] = e) => \E n \in 1 .. size : cand[n] = e
    BY <2>4
  <2> QED
    BY <2>1, <2>2, <2>5, <2>6
<1>13. ASSUME asked = q, NEW j \in 1 .. size, NEW a \in ToSet(cand), Dominates(f, a, Merged(q)[j])
       PROVE  \E i \in 1 .. j - 1 : Merged(q)[i] = a
  <2>1. PICK ia \in 1 .. size : cand[ia] = a
    BY <1>4 DEF cand
  <2>2. PICK ib \in 1 .. size : ib = at[j] /\ Merged(q)[j] = cand[ib]
    BY <1>8
  <2>3. Dominates(f, a, cand[ib])
    BY <1>13, <2>2
  <2>4. RankIn(all, a) < RankIn(all, cand[ib])
    <3>1. Precedes(f.fts, a, cand[ib]) /\ Precedes(f.vec, a, cand[ib]) /\ Contains(f.fts \o f.vec, cand[ib])
      BY <2>3 DEF Dominates
    <3>2. f.fts \in Seq(Askable(q)) /\ f.vec \in Seq(Askable(q)) /\ f.sym \in Seq(Askable(q))
      BY FoundTypes DEF f
    <3> QED
      BY <3>1, <3>2, AgreedComesFirst DEF all
  <2>5. \A n \in 1 .. size : RankIn(all, cand[n]) \in Nat
    <3>1. \A n \in 1 .. size : Contains(cand, cand[n])
      BY <1>1, <1>3, ContainsPlace
    <3>2. \A e : Contains(cand, e) <=> Contains(all, e)
      BY CandidateTypes DEF cand, all, f
    <3> QED
      BY <1>1, <3>1, <3>2, RankIsFirst
  <2>6. ia < ib
    <3>1. ia # ib
      BY <2>1, <2>4, <2>5
    <3>2. ~(ib < ia)
      <4>1. ib < ia => RankIn(all, cand[ib]) < RankIn(all, cand[ia])
        BY <1>1, <1>3
      <4> QED
        BY <2>1, <2>4, <2>5, <4>1
    <3> QED
      BY <3>1, <3>2
  <2>7. score[cand[ib]] <= score[cand[ia]]
    <3>1. Score(q, f, cand[ib]) <= Score(q, f, a)
      BY <1>5, <1>13, <2>1, <2>3, ScoreAgrees DEF f
    <3> QED
      BY <1>5, <2>1, <3>1
  <2>8. PICK i \in 1 .. size : at[i] = ia
    BY <1>7
  <2>9. i # j
    BY <2>2, <2>6, <2>8
  <2>10. ~(j < i)
    <3>1. <<ib, ia>> \notin Better(cand, score)
      <4>1. score[cand[ia]] \in Nat /\ score[cand[ib]] \in Nat
        BY <1>5
      <4> QED
        BY <2>6, <2>7, <4>1 DEF Better
    <3> QED
      BY <1>7, <2>2, <2>8, <3>1
  <2>11. i \in 1 .. j - 1
    BY <2>9, <2>10
  <2> QED
    BY <1>8, <2>1, <2>8, <2>11
<1> QED
  BY <1>9, <1>11, <1>12, <1>13 DEF cand, f

(* Names are looked up among the definitions that are still in the index.     *)
LEMMA LookupKeeps ==
  ASSUME NEW q \in Questions, NEW names \in Seq(DOMAIN q.definitions)
  PROVE  LookupSymbols(q, names) \in Seq(q.chunks)
<1> DEFINE strength == [c \in q.chunks |-> Strength(q.quality[c])]
           Of(n) == LET defs == Only(q.definitions[n], q.chunks)
                    IN  IF Len(defs) > PerName THEN Prefix(Ranked(defs, strength), PerName) ELSE defs
           unique == Distinct(names)
           seqs == [k \in DOMAIN unique |-> Of(unique[k])]
<1>1. ASSUME NEW n \in DOMAIN q.definitions PROVE Of(n) \in Seq(q.chunks)
  <2> DEFINE defs == Only(q.definitions[n], q.chunks)
  <2>1. defs \in Seq(q.chunks)
    <3>1. defs \in Seq((DOMAIN q.quality) \cap q.chunks)
      BY QuestionTypes, OnlyKeeps
    <3>2. (DOMAIN q.quality) \cap q.chunks \subseteq q.chunks
      OBVIOUS
    <3> HIDE DEF defs
    <3> QED
      BY <3>1, <3>2, SeqMonotonic
  <2>2. \A c \in q.chunks : strength[c] \in Int
    <3>1. \A c \in q.chunks : Strength(q.quality[c]) \in Nat
      BY QuestionTypes, MultiplierGrows
    <3> QED
      BY <3>1
  <2> HIDE DEF defs, strength
  <2>3. Ranked(defs, strength) \in Seq(q.chunks)
    <3>1. \A i \in DOMAIN defs : strength[defs[i]] \in Int
      BY <2>1, <2>2, LenProperties
    <3> QED
      BY <2>1, <3>1, RankedKeeps
  <2>4. Prefix(Ranked(defs, strength), PerName) \in Seq(q.chunks)
    BY <2>3, QuestionTypes, PrefixKeeps
  <2> QED
    BY <2>1, <2>4 DEF defs
<1> HIDE DEF Of
<1>2. unique \in Seq(DOMAIN q.definitions)
  BY DistinctKeeps
<1>3. PICK n \in Nat : n = Len(unique) /\ DOMAIN unique = 1 .. n /\ unique \in [1 .. n -> DOMAIN q.definitions]
  BY <1>2, LenProperties
<1> HIDE DEF unique
<1>4. seqs = [k \in 1 .. n |-> Of(unique[k])] /\ \A k \in 1 .. n : Of(unique[k]) \in Seq(q.chunks)
  BY <1>1, <1>3
<1> HIDE DEF seqs
<1>5. seqs \in Seq(Seq(q.chunks))
  BY <1>4
<1>6. FlattenSeq(seqs) \in Seq(q.chunks)
  BY <1>5, FlattenKeeps
<1> QED
  BY <1>6 DEF LookupSymbols, seqs, Of, unique

(* The graph adds chunks of the index that are no candidates, each once.      *)
LEMMA GraphExpandKeeps ==
  ASSUME NEW q \in Questions, NEW ranked \in Seq(q.chunks)
  PROVE  /\ GraphExpand(q, Found(q), ranked) \in Seq(q.chunks \ ToSet(Candidates(Found(q))))
         /\ OnceEach(GraphExpand(q, Found(q), ranked))
<1> DEFINE new == q.chunks \ ToSet(Candidates(Found(q)))
           top == Prefix(ranked, ExpandFrom)
           refs == [k \in DOMAIN top |-> q.refs[top[k]]]
           names == FlattenSeq(refs)
           fresh == Only(LookupSymbols(q, names), new)
<1>1. top \in Seq(q.chunks)
  BY QuestionTypes, PrefixKeeps
<1>2. PICK n \in Nat : DOMAIN top = 1 .. n /\ \A k \in 1 .. n : top[k] \in q.chunks
  BY <1>1, LenProperties
<1>3. refs \in Seq(Seq(DOMAIN q.definitions))
  <2>1. \A k \in 1 .. n : q.refs[top[k]] \in Seq(DOMAIN q.definitions)
    BY <1>2, QuestionTypes
  <2> DEFINE Known == Seq(DOMAIN q.definitions)
             ref(k) == q.refs[top[k]]
  <2>2. refs = [k \in 1 .. n |-> ref(k)]
    BY <1>2
  <2>3. \A k \in 1 .. n : ref(k) \in Known
    BY <2>1
  <2> HIDE DEF refs, ref, Known
  <2>4. refs \in Seq(Known)
    BY <2>2, <2>3
  <2> QED
    BY <2>4 DEF Known
<1>4. names \in Seq(DOMAIN q.definitions)
  <2> HIDE DEF refs
  <2> QED
    BY <1>3, FlattenKeeps
<1>5. fresh \in Seq(new)
  <2> HIDE DEF names, new
  <2>1. LookupSymbols(q, names) \in Seq(q.chunks)
    BY <1>4, LookupKeeps
  <2>2. fresh \in Seq(q.chunks \cap new)
    BY <2>1, OnlyKeeps
  <2>3. q.chunks \cap new \subseteq new
    OBVIOUS
  <2> HIDE DEF fresh
  <2> QED
    BY <2>2, <2>3, SeqMonotonic
<1>6. GraphExpand(q, Found(q), ranked) = Prefix(Distinct(fresh), MaxExpanded)
  BY DEF GraphExpand
<1> HIDE DEF fresh, new
<1>7. Distinct(fresh) \in Seq(new) /\ OnceEach(Distinct(fresh))
  BY <1>5, DistinctKeeps, DistinctOnce
<1>8. Prefix(Distinct(fresh), MaxExpanded) \in Seq(new) /\ OnceEach(Prefix(Distinct(fresh), MaxExpanded))
  BY <1>7, QuestionTypes, PrefixKeeps, PrefixOnce
<1> QED
  BY <1>6, <1>8 DEF new

(* An answer is a part of the ranking and, where it leaves room, what the     *)
(* graph adds.                                                                *)
Ranking(q) == Reranked(q, Merged(q))
First(q) == Prefix(Ranking(q), q.k)
More(q) == Prefix(IF q.expand THEN GraphExpand(q, Found(q), Ranking(q)) ELSE <<>>, q.k - Len(First(q)))
FirstReasons(q, c) == Reasons(q, Found(q), c) \cup IF Reranks(q, Merged(q)) THEN {"reranked"} ELSE {}

(* The reranker takes from the ranking and adds nothing.                      *)
LEMMA RankingKeeps ==
  ASSUME NEW q \in Questions
  PROVE  /\ Ranking(q) \in Seq(Askable(q)) /\ OnceEach(Ranking(q))
         /\ \A e : Contains(Ranking(q), e) => Contains(Candidates(Found(q)), e)
         /\ q.reranker # "works" => Ranking(q) = Merged(q)
<1>1. Merged(q) \in Seq(Askable(q)) /\ OnceEach(Merged(q))
  BY MergedKeeps
<1>2. CASE Reranks(q, Merged(q))
  <2>1. 3 * q.k \in Nat
    BY QuestionTypes
  <2>2. Ranking(q) = Reverse(Prefix(Merged(q), 3 * q.k))
    BY <1>2 DEF Ranking, Reranked
  <2>3. Prefix(Merged(q), 3 * q.k) \in Seq(Askable(q)) /\ OnceEach(Prefix(Merged(q), 3 * q.k))
    BY <1>1, <2>1, PrefixKeeps, PrefixOnce
  <2>4. Ranking(q) \in Seq(Askable(q)) /\ OnceEach(Ranking(q))
    BY <2>2, <2>3, ReverseKeeps
  <2>5. ASSUME NEW e, Contains(Ranking(q), e) PROVE Contains(Merged(q), e)
    <3>1. PICK part \in Seq(Askable(q)) : part = Prefix(Merged(q), 3 * q.k)
      BY <2>3
    <3>2. PICK n \in Nat : n = Len(part) /\ Ranking(q) = [i \in 1 .. n |-> part[(n - i) + 1]]
      BY <2>2, <3>1, LenProperties DEF Reverse
    <3>3. PICK i \in 1 .. n : part[(n - i) + 1] = e
      BY <2>5, <3>2 DEF Contains
    <3>4. (n - i) + 1 \in 1 .. n
      OBVIOUS
    <3>5. PICK j \in 1 .. n : part[j] = e
      BY <3>3, <3>4
    <3>6. Merged(q)[j] = e /\ j \in 1 .. Len(Merged(q))
      BY <1>1, <2>1, <3>1, <3>2, <3>5, PrefixKeeps
    <3> QED
      BY <1>1, <3>6, ContainsPlace
  <2> QED
    BY <1>2, <2>4, <2>5, MergedKeeps DEF Reranks
<1>3. CASE ~Reranks(q, Merged(q))
  <2>1. Ranking(q) = Merged(q)
    BY <1>3 DEF Ranking, Reranked
  <2> QED
    BY <2>1, MergedKeeps
<1> QED
  BY <1>2, <1>3

(* The two parts hold each chunk once, in at most k places.                   *)
LEMMA PartsKeep ==
  ASSUME NEW q \in Questions
  PROVE  /\ First(q) \in Seq(Askable(q)) /\ OnceEach(First(q))
         /\ More(q) \in Seq(q.chunks) /\ OnceEach(More(q))
         /\ Len(First(q)) + Len(More(q)) <= q.k
         /\ \A i \in 1 .. Len(First(q)) : \A j \in 1 .. Len(More(q)) : First(q)[i] # More(q)[j]
         /\ \A i \in 1 .. Len(First(q)) : i \in 1 .. Len(Ranking(q)) /\ First(q)[i] = Ranking(q)[i]
         /\ Len(More(q)) > 0 => Len(First(q)) = Len(Ranking(q))
<1>1. Ranking(q) \in Seq(Askable(q)) /\ OnceEach(Ranking(q)) /\ q.k \in Nat
  BY RankingKeeps, QuestionTypes
<1>2. PICK nr \in Nat, nf \in Nat : nr = Len(Ranking(q)) /\ nf = IF q.k < nr THEN q.k ELSE nr
  BY <1>1, LenProperties
<1>3. /\ First(q) \in Seq(Askable(q)) /\ OnceEach(First(q)) /\ Len(First(q)) = nf
      /\ \A i \in 1 .. nf : First(q)[i] = Ranking(q)[i] /\ i \in 1 .. nr
  <2>1. First(q) = Prefix(Ranking(q), q.k)
    BY DEF First
  <2>2. OnceEach(First(q))
    BY <1>1, <2>1, PrefixOnce
  <2>3. /\ First(q) \in Seq(Askable(q)) /\ Len(First(q)) = nf
        /\ \A i \in 1 .. Len(First(q)) : First(q)[i] = Ranking(q)[i] /\ i \in 1 .. Len(Ranking(q))
    BY <1>1, <1>2, <2>1, PrefixKeeps
  <2> QED
    BY <1>2, <2>2, <2>3
<1> DEFINE new == q.chunks \ ToSet(Candidates(Found(q)))
           grown == IF q.expand THEN GraphExpand(q, Found(q), Ranking(q)) ELSE <<>>
<1>4. grown \in Seq(new) /\ OnceEach(grown)
  <2>1. Ranking(q) \in Seq(q.chunks)
    <3>1. Askable(q) \subseteq q.chunks
      BY DEF Askable
    <3> QED
      BY <1>1, <3>1, SeqMonotonic
  <2>2. GraphExpand(q, Found(q), Ranking(q)) \in Seq(new) /\ OnceEach(GraphExpand(q, Found(q), Ranking(q)))
    BY <2>1, GraphExpandKeeps
  <2>3. <<>> \in Seq(new) /\ OnceEach(<<>>)
    BY EmptySeq DEF OnceEach
  <2> HIDE DEF new
  <2> QED
    BY <2>2, <2>3
<1>5. PICK room \in Nat : room = q.k - nf
  BY <1>1, <1>2
<1> HIDE DEF grown, new
<1>6. PICK ng \in Nat, nm \in Nat : ng = Len(grown) /\ nm = IF room < ng THEN room ELSE ng
  BY <1>4, LenProperties
<1>7. More(q) = Prefix(grown, room)
  BY <1>3, <1>5 DEF More, grown
<1>8. More(q) \in Seq(new) /\ OnceEach(More(q)) /\ Len(More(q)) = nm
  BY <1>4, <1>6, <1>7, PrefixKeeps, PrefixOnce
<1>9. More(q) \in Seq(q.chunks)
  <2>1. new \subseteq q.chunks
    BY DEF new
  <2> QED
    BY <1>8, <2>1, SeqMonotonic
<1>10. nf + nm <= q.k /\ (nm > 0 => nf = nr)
  BY <1>1, <1>2, <1>5, <1>6
<1>11. ASSUME NEW i \in 1 .. nf, NEW j \in 1 .. nm PROVE First(q)[i] # More(q)[j]
  <2>1. More(q)[j] \notin ToSet(Candidates(Found(q)))
    BY <1>8, ElementOfSeq DEF new
  <2>2. Contains(Ranking(q), First(q)[i])
    BY <1>1, <1>2, <1>3, ContainsPlace
  <2>3. Contains(Candidates(Found(q)), First(q)[i])
    BY <2>2, RankingKeeps
  <2>4. First(q)[i] \in ToSet(Candidates(Found(q)))
    BY <2>3 DEF Contains, ToSet
  <2> QED
    BY <2>1, <2>4
<1> QED
  BY <1>2, <1>3, <1>8, <1>9, <1>10, <1>11

(* The answer position by position.                                           *)
LEMMA AnswerParts ==
  ASSUME NEW q \in Questions
  PROVE  /\ Len(RunQuery(q)) = Len(First(q)) + Len(More(q)) /\ DOMAIN RunQuery(q) = 1 .. Len(First(q)) + Len(More(q))
         /\ \A k \in 1 .. Len(First(q)) :
              RunQuery(q)[k] = [chunk |-> First(q)[k], reasons |-> FirstReasons(q, First(q)[k])]
         /\ \A k \in 1 .. Len(More(q)) :
              RunQuery(q)[Len(First(q)) + k] = [chunk |-> More(q)[k], reasons |-> {"graph_expansion"}]
<1> DEFINE Why == {"bm25", "vector", "symbol", "reranked", "graph_expansion"}
           T == [chunk : q.chunks, reasons : SUBSET Why]
           one == [k \in DOMAIN First(q) |-> [chunk |-> First(q)[k], reasons |-> FirstReasons(q, First(q)[k])]]
           two == [k \in DOMAIN More(q) |-> [chunk |-> More(q)[k], reasons |-> {"graph_expansion"}]]
<1>1. PICK nf \in Nat, nm \in Nat :
        /\ nf = Len(First(q)) /\ DOMAIN First(q) = 1 .. nf
        /\ nm = Len(More(q)) /\ DOMAIN More(q) = 1 .. nm
  BY PartsKeep, LenProperties
<1>2. (\A i \in 1 .. nf : First(q)[i] \in q.chunks) /\ (\A i \in 1 .. nm : More(q)[i] \in q.chunks)
  <2>1. First(q) \in Seq(Askable(q)) /\ More(q) \in Seq(q.chunks)
    BY PartsKeep
  <2> QED
    BY <1>1, <2>1, ElementOfSeq DEF Askable
<1>3. \A c : FirstReasons(q, c) \in SUBSET Why
  BY DEF FirstReasons, Reasons
<1>4. one \in Seq(T) /\ Len(one) = nf
  <2>1. one = [k \in 1 .. nf |-> [chunk |-> First(q)[k], reasons |-> FirstReasons(q, First(q)[k])]]
    BY <1>1
  <2>2. \A k \in 1 .. nf : [chunk |-> First(q)[k], reasons |-> FirstReasons(q, First(q)[k])] \in T
    BY <1>2, <1>3
  <2> HIDE DEF T
  <2> QED
    BY <2>1, <2>2
<1>5. two \in Seq(T) /\ Len(two) = nm
  <2>1. two = [k \in 1 .. nm |-> [chunk |-> More(q)[k], reasons |-> {"graph_expansion"}]]
    BY <1>1
  <2>2. \A k \in 1 .. nm : [chunk |-> More(q)[k], reasons |-> {"graph_expansion"}] \in T
    BY <1>2
  <2> HIDE DEF T
  <2> QED
    BY <2>1, <2>2
<1>6. RunQuery(q) = one \o two
  BY DEF RunQuery, First, More, Ranking, Merged, FirstReasons
<1> HIDE DEF one, two, T
<1>7. /\ RunQuery(q) \in Seq(T) /\ Len(RunQuery(q)) = nf + nm
      /\ \A i \in 1 .. nf + nm : RunQuery(q)[i] = IF i <= nf THEN one[i] ELSE two[i - nf]
  <2>1. /\ one \o two \in Seq(T) /\ Len(one \o two) = Len(one) + Len(two)
        /\ \A i \in 1 .. Len(one) + Len(two) :
             (one \o two)[i] = IF i <= Len(one) THEN one[i] ELSE two[i - Len(one)]
    BY <1>4, <1>5, ConcatProperties
  <2> QED
    BY <1>4, <1>5, <1>6, <2>1
<1>8. \A k \in 1 .. nf : RunQuery(q)[k] = [chunk |-> First(q)[k], reasons |-> FirstReasons(q, First(q)[k])]
  <2>1. \A k \in 1 .. nf : RunQuery(q)[k] = one[k]
    BY <1>7
  <2> QED
    BY <1>1, <2>1 DEF one
<1>9. \A k \in 1 .. nm : RunQuery(q)[nf + k] = [chunk |-> More(q)[k], reasons |-> {"graph_expansion"}]
  <2>1. \A k \in 1 .. nm : nf + k \in 1 .. nf + nm /\ ~(nf + k <= nf) /\ nf + k - nf = k
    OBVIOUS
  <2>2. \A k \in 1 .. nm : RunQuery(q)[nf + k] = two[k]
    BY <1>7, <2>1
  <2> QED
    BY <1>1, <2>2 DEF two
<1>10. DOMAIN RunQuery(q) = 1 .. nf + nm
  BY <1>7, LenProperties
<1> QED
  BY <1>1, <1>7, <1>8, <1>9, <1>10

(* Where the answer comes from: it is that of the question, once it is there. *)
RetrievalInv ==
  /\ asked \in Questions
  /\ answer = IF answered THEN RunQuery(asked) ELSE <<>>

(* It does in every state.                                                    *)
LEMMA RetrievalInvHolds == RetrievalSpec => []RetrievalInv
<1>1. RetrievalInit => RetrievalInv
  BY DEF RetrievalInit, RetrievalInv
<1>2. RetrievalInv /\ [Answer]_retrievalVars => RetrievalInv'
  <2> SUFFICES ASSUME RetrievalInv, [Answer]_retrievalVars PROVE RetrievalInv'
    OBVIOUS
  <2>1. CASE Answer
    <3>1. asked' = asked /\ answered' = TRUE /\ answer' = RunQuery(asked)
      BY <2>1 DEF Answer
    <3> QED
      BY <3>1 DEF RetrievalInv
  <2>2. CASE UNCHANGED retrievalVars
    BY <2>2 DEF RetrievalInv, retrievalVars
  <2> QED
    BY <2>1, <2>2
<1> QED
  BY <1>1, <1>2, PTL DEF RetrievalSpec

(* The places of an answer: those of the ranking, then those of the graph.    *)
LEMMA AnswerPlaces ==
  ASSUME RetrievalInv, answered
  PROVE  /\ Len(First(asked)) \in Nat /\ Len(More(asked)) \in Nat
         /\ Len(answer) = Len(First(asked)) + Len(More(asked)) /\ DOMAIN answer = 1 .. Len(answer)
         /\ \A k \in 1 .. Len(First(asked)) : answer[k].chunk = First(asked)[k]
         /\ \A k \in 1 .. Len(More(asked)) : answer[Len(First(asked)) + k].chunk = More(asked)[k]
         /\ Expanded = Len(First(asked)) + 1 .. Len(answer)
<1> DEFINE q == asked
<1>1. q \in Questions /\ answer = RunQuery(q)
  BY DEF RetrievalInv
<1> HIDE DEF q
<1>2. PICK nf \in Nat, nm \in Nat : nf = Len(First(q)) /\ nm = Len(More(q))
  BY <1>1, PartsKeep, LenProperties
<1>3. /\ Len(answer) = nf + nm /\ DOMAIN answer = 1 .. nf + nm
      /\ \A k \in 1 .. nf : answer[k] = [chunk |-> First(q)[k], reasons |-> FirstReasons(q, First(q)[k])]
      /\ \A k \in 1 .. nm : answer[nf + k] = [chunk |-> More(q)[k], reasons |-> {"graph_expansion"}]
  BY <1>1, <1>2, AnswerParts
<1>4. ASSUME NEW k \in 1 .. nf
      PROVE  answer[k].chunk = First(q)[k] /\ answer[k].reasons # {"graph_expansion"}
  <2>1. answer[k] = [chunk |-> First(q)[k], reasons |-> FirstReasons(q, First(q)[k])]
    BY <1>3
  <2>2. "graph_expansion" \notin FirstReasons(q, First(q)[k])
    BY DEF FirstReasons, Reasons
  <2>3. answer[k].chunk = First(q)[k] /\ answer[k].reasons = FirstReasons(q, First(q)[k])
    BY <2>1
  <2> QED
    BY <2>2, <2>3
<1>5. ASSUME NEW k \in 1 .. nm
      PROVE  answer[nf + k].chunk = More(q)[k] /\ answer[nf + k].reasons = {"graph_expansion"}
  <2>1. answer[nf + k] = [chunk |-> More(q)[k], reasons |-> {"graph_expansion"}]
    BY <1>3
  <2> QED
    BY <2>1
<1>6. \A k \in nf + 1 .. nf + nm : answer[k].reasons = {"graph_expansion"}
  <2> SUFFICES ASSUME NEW k \in nf + 1 .. nf + nm PROVE answer[k].reasons = {"graph_expansion"}
    OBVIOUS
  <2>1. PICK j \in 1 .. nm : j = k - nf /\ k = nf + j
    OBVIOUS
  <2> QED
    BY <1>5, <2>1
<1>7. \A k \in 1 .. nf + nm : k \in 1 .. nf \/ k \in nf + 1 .. nf + nm
  OBVIOUS
<1>8. \A k \in nf + 1 .. nf + nm : k \in 1 .. nf + nm
  OBVIOUS
<1>9. Expanded = nf + 1 .. nf + nm
  BY <1>3, <1>4, <1>6, <1>7, <1>8 DEF Expanded
<1> QED
  BY <1>2, <1>3, <1>4, <1>5, <1>9 DEF q

(* An answer that is of one piece: no chunk comes twice.                      *)
LEMMA AnswerOnce ==
  ASSUME RetrievalInv, answered
  PROVE  /\ Cardinality(AnswerChunks) = Len(answer)
         /\ AnswerChunks \subseteq asked.chunks
<1>1. PICK nf \in Nat, nm \in Nat : nf = Len(First(asked)) /\ nm = Len(More(asked))
  BY AnswerPlaces
<1>2. /\ Len(answer) = nf + nm /\ DOMAIN answer = 1 .. nf + nm
      /\ \A k \in 1 .. nf : answer[k].chunk = First(asked)[k]
      /\ \A k \in 1 .. nm : answer[nf + k].chunk = More(asked)[k]
  BY <1>1, AnswerPlaces
<1>3. asked \in Questions
  BY DEF RetrievalInv
<1>4. /\ \A m, n \in 1 .. nf : m < n => First(asked)[m] # First(asked)[n]
      /\ \A m, n \in 1 .. nm : m < n => More(asked)[m] # More(asked)[n]
      /\ \A m \in 1 .. nf : \A n \in 1 .. nm : First(asked)[m] # More(asked)[n]
  BY <1>1, <1>3, PartsKeep DEF OnceEach
<1>5. /\ \A m \in 1 .. nf : First(asked)[m] \in asked.chunks
      /\ \A m \in 1 .. nm : More(asked)[m] \in asked.chunks
  BY <1>1, <1>3, PartsKeep, ElementOfSeq DEF Askable
<1>6. ASSUME NEW k \in 1 .. nf + nm
      PROVE  \/ k \in 1 .. nf
             \/ \E j \in 1 .. nm : k = nf + j
  <2>1. CASE k > nf
    <3>1. k - nf \in 1 .. nm /\ k = nf + (k - nf)
      BY <2>1
    <3> QED
      BY <3>1
  <2> QED
    BY <2>1
<1> DEFINE chunkAt == [k \in 1 .. nf + nm |-> answer[k].chunk]
<1>7. \A k \in 1 .. nf + nm : chunkAt[k] \in asked.chunks
  BY <1>2, <1>5, <1>6
<1>8. ASSUME NEW k \in 1 .. nf + nm, NEW l \in 1 .. nf + nm, k < l PROVE chunkAt[k] # chunkAt[l]
  <2>1. CASE l \in 1 .. nf
    <3>1. k \in 1 .. nf
      BY <1>8, <2>1
    <3> QED
      BY <1>2, <1>4, <1>8, <2>1, <3>1
  <2>2. CASE \E j \in 1 .. nm : l = nf + j
    <3>1. PICK j \in 1 .. nm : l = nf + j
      BY <2>2
    <3>2. chunkAt[l] = More(asked)[j]
      BY <1>2, <3>1
    <3>3. CASE k \in 1 .. nf
      BY <1>2, <1>4, <3>2, <3>3
    <3>4. CASE \E i \in 1 .. nm : k = nf + i
      <4>1. PICK i \in 1 .. nm : k = nf + i
        BY <3>4
      <4>2. i < j
        BY <1>8, <3>1, <4>1
      <4>3. chunkAt[k] = More(asked)[i]
        BY <1>2, <4>1
      <4> QED
        BY <1>4, <3>2, <4>2, <4>3
    <3> QED
      BY <1>6, <3>3, <3>4
  <2> QED
    BY <1>6, <2>1, <2>2
<1>9. AnswerChunks = {chunkAt[k] : k \in 1 .. nf + nm}
  BY <1>2 DEF AnswerChunks
<1> HIDE DEF chunkAt
<1>10. \A k, l \in 1 .. nf + nm : chunkAt[k] = chunkAt[l] => k = l
  <2> SUFFICES ASSUME NEW k \in 1 .. nf + nm, NEW l \in 1 .. nf + nm, k # l PROVE chunkAt[k] # chunkAt[l]
    OBVIOUS
  <2>1. k < l \/ l < k
    OBVIOUS
  <2> QED
    BY <1>8, <2>1
<1>11. chunkAt \in Bijection(1 .. nf + nm, AnswerChunks)
  <2>1. DOMAIN chunkAt = 1 .. nf + nm /\ chunkAt \in [1 .. nf + nm -> AnswerChunks]
    BY <1>9 DEF chunkAt
  <2>2. chunkAt \in Injection(1 .. nf + nm, AnswerChunks)
    BY <1>10, <2>1 DEF Injection, IsInjective
  <2>3. chunkAt \in Surjection(1 .. nf + nm, AnswerChunks)
    BY <1>9, <2>1 DEF Surjection
  <2> QED
    BY <2>2, <2>3 DEF Bijection
<1>12. Cardinality(AnswerChunks) = nf + nm
  <2>1. ExistsBijection(1 .. nf + nm, AnswerChunks)
    BY <1>11 DEF ExistsBijection
  <2>2. nf + nm \in Nat
    OBVIOUS
  <2> QED
    BY <2>1, <2>2, FS_CountingElements
<1> QED
  BY <1>2, <1>7, <1>9, <1>12

(* Every answer is bounded by top_k, holds no chunk twice and none that is    *)
(* gone, is of the branch where it is not of the graph, and has something of  *)
(* the graph only when every candidate has its place.                         *)
THEOREM AnswerIsBounded == RetrievalSpec => []AnswerBounded
<1>1. RetrievalInv => AnswerBounded
  <2> SUFFICES ASSUME RetrievalInv, answered PROVE AnswerBounded
    BY DEF AnswerBounded
  <2>1. PICK nf \in Nat, nm \in Nat : nf = Len(First(asked)) /\ nm = Len(More(asked))
    BY AnswerPlaces
  <2>2. /\ Len(answer) = nf + nm /\ DOMAIN answer = 1 .. nf + nm
        /\ \A k \in 1 .. nf : answer[k].chunk = First(asked)[k]
        /\ Expanded = nf + 1 .. nf + nm
    BY <2>1, AnswerPlaces
  <2>3. asked \in Questions
    BY DEF RetrievalInv
  <2>4. ASSUME NEW k \in DOMAIN answer \ Expanded PROVE OfBranch(asked, answer[k].chunk)
    <3>1. k \in 1 .. nf
      BY <2>2
    <3>2. First(asked)[k] \in Askable(asked)
      BY <2>1, <2>3, <3>1, PartsKeep, ElementOfSeq
    <3> QED
      BY <2>2, <3>1, <3>2 DEF Askable
  <2>5. Len(answer) <= asked.k
    BY <2>1, <2>2, <2>3, PartsKeep
  <2>6. \A k \in Expanded : \A j \in k .. Len(answer) : j \in Expanded
    BY <2>2
  <2>7. ASSUME Expanded # {}, asked.reranker # "works", NEW c \in ToSet(Candidates(Found(asked)))
        PROVE  c \in AnswerChunks
    <3>1. nm > 0
      BY <2>2, <2>7
    <3>2. nf = Len(Ranking(asked)) /\ Ranking(asked) = Merged(asked)
      BY <2>1, <2>3, <2>7, <3>1, PartsKeep, RankingKeeps
    <3>3. Contains(Candidates(Found(asked)), c)
      BY <2>7 DEF Contains, ToSet
    <3>4. Contains(Merged(asked), c) /\ Merged(asked) \in Seq(Askable(asked))
      BY <2>3, <3>3, MergedKeeps
    <3>5. PICK i \in 1 .. nf : Ranking(asked)[i] = c
      BY <3>2, <3>4, ContainsPlace
    <3>6. answer[i].chunk = c /\ i \in DOMAIN answer
      BY <2>1, <2>2, <2>3, <3>5, PartsKeep
    <3> QED
      BY <3>6 DEF AnswerChunks
  <2> QED
    BY <2>4, <2>5, <2>6, <2>7, AnswerOnce DEF AnswerBounded
<1> QED
  BY <1>1, RetrievalInvHolds, PTL

(* Merging never turns around what every search agrees on.                    *)
THEOREM AgreementIsKept == RetrievalSpec => []AgreementKept
<1>1. RetrievalInv => AgreementKept
  <2> SUFFICES ASSUME RetrievalInv, answered, asked.reranker # "works",
                      NEW j \in DOMAIN answer \ Expanded, NEW a \in ToSet(Candidates(Found(asked))),
                      Dominates(Found(asked), a, answer[j].chunk)
               PROVE  \E i \in 1 .. j - 1 : answer[i].chunk = a
    BY DEF AgreementKept
  <2>1. PICK nf \in Nat, nm \in Nat : nf = Len(First(asked)) /\ nm = Len(More(asked))
    BY AnswerPlaces
  <2>2. /\ Len(answer) = nf + nm /\ DOMAIN answer = 1 .. nf + nm
        /\ \A k \in 1 .. nf : answer[k].chunk = First(asked)[k]
        /\ Expanded = nf + 1 .. nf + nm
    BY <2>1, AnswerPlaces
  <2>3. asked \in Questions
    BY DEF RetrievalInv
  <2>4. j \in 1 .. nf
    BY <2>2
  <2>5. \A k \in 1 .. nf : k \in 1 .. Len(Merged(asked)) /\ First(asked)[k] = Merged(asked)[k]
    BY <2>1, <2>3, PartsKeep, RankingKeeps
  <2>6. Dominates(Found(asked), a, Merged(asked)[j])
    BY <2>2, <2>4, <2>5
  <2>7. PICK i \in 1 .. j - 1 : Merged(asked)[i] = a
    BY <2>3, <2>4, <2>5, <2>6, MergedKeeps
  <2>8. i \in 1 .. nf
    BY <2>4
  <2> QED
    BY <2>2, <2>5, <2>7, <2>8
<1> QED
  BY <1>1, RetrievalInvHolds, PTL
=============================================================================
