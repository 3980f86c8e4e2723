------------------------------ MODULE QueryPath ------------------------------
(***************************************************************************)
(* The path of a query through an Index (__init__.py), its cached          *)
(* IndexQuerier (querier.py) and that querier's cached IndexStore          *)
(* (store.py), against refreshes and closes that discard the querier and   *)
(* builds, of this process or another, that rename a new file over         *)
(* index.db.                                                               *)
(*                                                                         *)
(* Two reader/writer locks are nested: the index lock pins the querier,    *)
(* the store lock pins the connection.  Both are instances of              *)
(* ReaderWriterLock, so a thread parks, is notified and barges in here as  *)
(* it does there.  A fresh querier comes with a fresh store lock; one      *)
(* instance stands for all of them, which QuerierPinned justifies: nobody  *)
(* is inside the lock of a querier that is discarded.                      *)
(***************************************************************************)
EXTENDS Naturals, FiniteSets

CONSTANTS
  Clients,      \* threads that query
  Closers,      \* threads that refresh, build or close the index
  MaxFiles,     \* bound: index files swapped in, one after the other
  MaxCloses     \* bound: calls that discard the querier

ASSUME ThreadsAssumption ==
  /\ IsFiniteSet(Clients) /\ IsFiniteSet(Closers)
  /\ Clients \intersect Closers = {}
ASSUME BoundsAssumption == MaxFiles \in Nat \ {0} /\ MaxCloses \in Nat

VARIABLES
  file,        \* generation of index.db on disk; 0 when there is none
  querier,     \* Index._querier is not None
  conn,        \* IndexQuerier._store: NoConn, or what it is connected to
  opening,     \* the store being opened in _open_store, not cached yet
  closes,      \* calls so far that discard the querier
  pc,          \* where each thread is
  iReaders, iWriters, iActive, iAt, iNotified,    \* Index._querier_lock
  sReaders, sWriters, sActive, sAt, sNotified     \* IndexQuerier._store_rwlock

Threads == Clients \union Closers

I == INSTANCE ReaderWriterLock
  WITH readers <- iReaders, writers <- iWriters, writerActive <- iActive,
       at <- iAt, notified <- iNotified
S == INSTANCE ReaderWriterLock
  WITH readers <- sReaders, writers <- sWriters, writerActive <- sActive,
       at <- sAt, notified <- sNotified

iLock == <<iReaders, iWriters, iActive, iAt, iNotified>>
sLock == <<sReaders, sWriters, sActive, sAt, sNotified>>
data == <<file, querier, conn, opening, closes>>
vars == <<data, pc, iLock, sLock>>

NoConn == [gen |-> 0, sig |-> 0]    \* no file has generation 0
Conns == [gen : 0..MaxFiles, sig : 0..MaxFiles]

ClientPlaces == {"idle", "enterIndex", "checkQuerier", "createQuerier", "creating",
                 "enterStore", "checkStore", "reopenStore", "reopening", "signing",
                 "run", "leaveIndex"}
CloserPlaces == {"idle", "closeIndex", "closing", "closingStore", "discard"}

TypeOK ==
  /\ file \in 0..MaxFiles
  /\ querier \in BOOLEAN
  /\ conn \in Conns
  /\ opening \in Conns
  /\ closes \in 0..MaxCloses
  /\ \A t \in Clients : pc[t] \in ClientPlaces
  /\ \A t \in Closers : pc[t] \in CloserPlaces
  /\ I!TypeOK
  /\ S!TypeOK

Init ==
  /\ file \in {0, 1}
  /\ querier = FALSE
  /\ conn = NoConn
  /\ opening = NoConn
  /\ closes = 0
  /\ pc = [t \in Threads |-> "idle"]
  /\ I!Init
  /\ S!Init

Goto(t, place) == pc' = [pc EXCEPT ![t] = place]

-----------------------------------------------------------------------------
(* Index.query and Index.status: _with_querier *)

BeginQuery(t) ==
  /\ pc[t] = "idle"
  /\ Goto(t, "enterIndex")
  /\ UNCHANGED <<data, iLock, sLock>>

(* acquire_read: granted, or parked at the same place. *)
EnterIndex(t) ==
  /\ pc[t] = "enterIndex"
  /\ \/ I!AcquireRead(t) /\ Goto(t, "checkQuerier")
     \/ I!ParkReader(t) /\ UNCHANGED pc
  /\ UNCHANGED <<data, sLock>>

(* Broken variant: the querier is returned without the read lock. *)
CheckQuerierUnpinned(t) ==
  /\ pc[t] = "checkQuerier"
  /\ I!ReleaseRead(t)
  /\ Goto(t, IF querier THEN "enterStore" ELSE "createQuerier")
  /\ UNCHANGED <<data, sLock>>

CheckQuerier(t) ==
  /\ pc[t] = "checkQuerier"
  /\ \/ querier /\ Goto(t, "enterStore") /\ UNCHANGED iLock
     \/ ~querier /\ I!ReleaseRead(t) /\ Goto(t, "createQuerier")
  /\ UNCHANGED <<data, sLock>>

CreateQuerier(t) ==
  /\ pc[t] = "createQuerier"
  /\ \/ I!AcquireWrite(t) /\ Goto(t, "creating")
     \/ I!ParkWriter(t) /\ UNCHANGED pc
  /\ UNCHANGED <<data, sLock>>

(* _ensure_querier keeps the querier another thread has made meanwhile; a  *)
(* new one has no store yet.                                               *)
Creating(t) ==
  /\ pc[t] = "creating"
  /\ querier' = TRUE
  /\ I!ReleaseWrite(t)
  /\ Goto(t, "enterIndex")
  /\ UNCHANGED <<file, conn, opening, closes, sLock>>

-----------------------------------------------------------------------------
(* IndexQuerier._enter_store and _open_store *)

(* Broken variant: only the presence of a connection is looked at. *)
FileNeverReplaced == FALSE

(* file_replaced: the signature on disk is not the one of the store. *)
FileReplaced == conn # NoConn /\ conn.sig # file

EnterStore(t) ==
  /\ pc[t] = "enterStore"
  /\ \/ S!AcquireRead(t) /\ Goto(t, "checkStore")
     \/ S!ParkReader(t) /\ UNCHANGED pc
  /\ UNCHANGED <<data, iLock>>

(* Broken variant: the stale store is replaced under the read lock. *)
CheckStoreReopensInPlace(t) ==
  /\ pc[t] = "checkStore"
  /\ \/ /\ conn # NoConn /\ ~FileReplaced
        /\ Goto(t, "run")
        /\ UNCHANGED <<conn, sLock>>
     \/ /\ FileReplaced
        /\ conn' = [gen |-> file, sig |-> file]
        /\ Goto(t, "run")
        /\ UNCHANGED sLock
     \/ /\ conn = NoConn
        /\ S!ReleaseRead(t)
        /\ Goto(t, "reopenStore")
        /\ UNCHANGED conn
  /\ UNCHANGED <<file, querier, opening, closes, iLock>>

CheckStore(t) ==
  /\ pc[t] = "checkStore"
  /\ \/ /\ conn # NoConn /\ ~FileReplaced
        /\ Goto(t, "run")
        /\ UNCHANGED sLock
     \/ /\ conn = NoConn \/ FileReplaced
        /\ S!ReleaseRead(t)
        /\ Goto(t, "reopenStore")
  /\ UNCHANGED <<data, iLock>>

ReopenStore(t) ==
  /\ pc[t] = "reopenStore"
  /\ \/ S!AcquireWrite(t) /\ Goto(t, "reopening")
     \/ S!ParkWriter(t) /\ UNCHANGED pc
  /\ UNCHANGED <<data, iLock>>

(* A store that is still current (another thread was faster) is kept; a    *)
(* replaced one is dropped, then closed.                                   *)
KeepStore(t) ==
  /\ pc[t] = "reopening"
  /\ conn # NoConn /\ ~FileReplaced
  /\ S!ReleaseWrite(t)
  /\ Goto(t, "enterStore")
  /\ UNCHANGED <<data, iLock>>

(* IndexNotFoundError leaves through the finally blocks of _enter_store    *)
(* and of Index.query.                                                     *)
NoIndex(t) ==
  /\ pc[t] = "reopening"
  /\ conn = NoConn /\ file = 0
  /\ S!ReleaseWrite(t)
  /\ Goto(t, "leaveIndex")
  /\ UNCHANGED <<data, iLock>>

(* IndexStore.open connects first ...                                      *)
Connect(t) ==
  /\ pc[t] = "reopening"
  /\ conn = NoConn \/ FileReplaced
  /\ file # 0
  /\ conn' = NoConn
  /\ opening' = [gen |-> file, sig |-> 0]
  /\ Goto(t, "signing")
  /\ UNCHANGED <<file, querier, closes, iLock, sLock>>

(* ... and stats the path afterwards; then migrations run and the store is *)
(* cached.                                                                 *)
CacheStore(t) ==
  /\ pc[t] = "signing"
  /\ conn' = [opening EXCEPT !.sig = file]
  /\ opening' = NoConn
  /\ S!ReleaseWrite(t)
  /\ Goto(t, "enterStore")
  /\ UNCHANGED <<file, querier, closes, iLock>>

(* Broken variant: the error leaves without the finally of _enter_store. *)
OpenFailsHoldingLock(t) ==
  /\ pc[t] = "signing"
  /\ opening' = NoConn
  /\ Goto(t, "leaveIndex")
  /\ UNCHANGED <<file, querier, conn, closes, iLock, sLock>>

(* Opening or migrating fails (the database is locked, or too new): the    *)
(* candidate is closed and nothing is cached.                              *)
OpenFails(t) ==
  /\ pc[t] = "signing"
  /\ opening' = NoConn
  /\ S!ReleaseWrite(t)
  /\ Goto(t, "leaveIndex")
  /\ UNCHANGED <<file, querier, conn, closes, iLock>>

(* The query ran, or raised: both finally blocks release. *)
EndQuery(t) ==
  /\ pc[t] = "run"
  /\ S!ReleaseRead(t)
  /\ Goto(t, "leaveIndex")
  /\ UNCHANGED <<data, iLock>>

LeaveIndex(t) ==
  /\ pc[t] = "leaveIndex"
  /\ I!ReleaseRead(t)
  /\ Goto(t, "idle")
  /\ UNCHANGED <<data, sLock>>

Client(t) ==
  \/ EnterIndex(t) \/ CheckQuerier(t) \/ CreateQuerier(t) \/ Creating(t)
  \/ EnterStore(t) \/ CheckStore(t) \/ ReopenStore(t) \/ KeepStore(t)
  \/ NoIndex(t) \/ Connect(t) \/ CacheStore(t) \/ OpenFails(t)
  \/ EndQuery(t) \/ LeaveIndex(t)

-----------------------------------------------------------------------------
(* Index._close_querier, which refresh, build and close call *)

BeginClose(t) ==
  /\ pc[t] = "idle"
  /\ closes < MaxCloses
  /\ closes' = closes + 1
  /\ Goto(t, "closeIndex")
  /\ UNCHANGED <<file, querier, conn, opening, iLock, sLock>>

CloseIndex(t) ==
  /\ pc[t] = "closeIndex"
  /\ \/ I!AcquireWrite(t) /\ Goto(t, "closing")
     \/ I!ParkWriter(t) /\ UNCHANGED pc
  /\ UNCHANGED <<data, sLock>>

(* With a querier, IndexQuerier.close takes the store lock in turn. *)
Closing(t) ==
  /\ pc[t] = "closing"
  /\ \/ ~querier /\ I!ReleaseWrite(t) /\ Goto(t, "idle") /\ UNCHANGED sLock
     \/ querier /\ S!AcquireWrite(t) /\ Goto(t, "closingStore") /\ UNCHANGED iLock
     \/ querier /\ S!ParkWriter(t) /\ UNCHANGED <<pc, iLock>>
  /\ UNCHANGED data

CloseStore(t) ==
  /\ pc[t] = "closingStore"
  /\ conn' = NoConn
  /\ S!ReleaseWrite(t)
  /\ Goto(t, "discard")
  /\ UNCHANGED <<file, querier, opening, closes, iLock>>

Discard(t) ==
  /\ pc[t] = "discard"
  /\ querier' = FALSE
  /\ I!ReleaseWrite(t)
  /\ Goto(t, "idle")
  /\ UNCHANGED <<file, conn, opening, closes, sLock>>

Closer(t) == CloseIndex(t) \/ Closing(t) \/ CloseStore(t) \/ Discard(t)

(* IndexStore.atomic_swap at the end of a build, in any process: no lock   *)
(* of this module is held.                                                 *)
Swap ==
  /\ file < MaxFiles
  /\ file' = file + 1
  /\ UNCHANGED <<querier, conn, opening, closes, pc, iLock, sLock>>

Next ==
  \/ \E t \in Clients : BeginQuery(t) \/ Client(t)
  \/ \E t \in Closers : BeginClose(t) \/ Closer(t)
  \/ Swap

Spec == Init /\ [][Next]_vars

(* A call that has begun runs on; the locks favour nobody.  Nobody has to  *)
(* begin a call or a build.                                                *)
FairSpec ==
  /\ Spec
  /\ \A t \in Clients : WF_vars(Client(t))
  /\ \A t \in Closers : WF_vars(Closer(t))

-----------------------------------------------------------------------------
Running == {t \in Clients : pc[t] = "run"}

(* While a query runs, no step closes or exchanges the connection it runs  *)
(* on (querier.py, _enter_store: "we never close a connection a reader is  *)
(* mid-query on"), whichever lock the closing thread comes through.        *)
ConnectionPinned == [][Running # {} => conn' = conn]_vars

(* A running query has a connection, and a thread that holds or awaits the *)
(* store lock does so inside a querier that is still the index's own       *)
(* (__init__.py, _with_querier: the read lock over a non-None querier).    *)
(* No path, those of errors included, leaves a call with a lock held.      *)
QuerierPinned ==
  /\ TypeOK
  /\ Running # {} => conn # NoConn
  /\ \A t \in Clients : sAt[t] # "out" => querier
  /\ \A t \in Threads : pc[t] = "idle" => iAt[t] = "out" /\ sAt[t] = "out"

(* A query is served from the file on disk, or its store was opened across *)
(* a swap: the missed swap is the only way to be served an old file.       *)
ServedStaleOnlyBySwapInOpen ==
  [][\A t \in Clients :
       (pc[t] = "checkStore" /\ pc'[t] = "run") =>
         (conn.gen = file \/ conn.sig # conn.gen)]_vars

OpenFailed ==
  \E t \in Clients : pc[t] \in {"reopening", "signing"} /\ pc'[t] = "leaveIndex"

(* Both retry loops end and both locks are granted: once the store opens   *)
(* without an error, every query that is called returns.  While it keeps   *)
(* failing, one caller's failing attempts, made under the write lock, may  *)
(* hold the others back.  A refresh or close gets the querier out of the   *)
(* way of the queries that keep coming.                                    *)
CallsReturn ==
  /\ <>[][~OpenFailed]_vars =>
       \A t \in Clients : (pc[t] = "enterIndex") ~> (pc[t] = "idle")
  /\ \A t \in Closers : (pc[t] = "closeIndex") ~> (pc[t] = "idle")
=============================================================================
