------------------------------- MODULE PidLock -------------------------------
(***************************************************************************)
(* store.py, _acquire_lock and _release_lock: the PID-file lock that       *)
(* IndexBuilder takes around a build or a refresh.                         *)
(*                                                                         *)
(* Every system call is a step of its own: creating the file and writing   *)
(* the payload into it, reading it, testing the pid, looking at its age,   *)
(* and unlinking the PATH, whatever file is there by then.  A file is      *)
(* known by the worker that made it; the payload names that worker's       *)
(* process, and several workers (threads of the daemon) share one process. *)
(***************************************************************************)
EXTENDS Naturals, FiniteSets

CONSTANTS
  Workers,       \* threads that build or refresh the index
  Processes,
  ProcessOf,     \* the process of each worker
  MaxCalls,      \* bound: calls of _acquire_lock
  MaxAge,        \* bound: 0 seconds old, 1 over 60 s, 2 over _MAX_LOCK_AGE_S
  Mortal         \* processes that may crash

ASSUME WorkersAssumption == ProcessOf \in [Workers -> Processes]
ASSUME NoneAssumption == "none" \notin Workers    \* the maker of no file
ASSUME BoundsAssumption == MaxCalls \in Nat /\ MaxAge \in 0..2 /\ Mortal \subseteq Processes

VARIABLES
  lock,       \* the lock file: NoLockFile, or its maker, payload and age
  pc,         \* where each worker is
  late,       \* workers whose deadline has passed
  crashed,    \* processes that have died
  recycled,   \* dead processes whose pid another, unrelated process has now
  calls,      \* calls of _acquire_lock so far
  stolen      \* history: the file of a live worker was unlinked by another

pidVars == <<lock, pc, late, crashed, recycled, calls, stolen>>

NoLockFile == [maker |-> "none", written |-> FALSE, age |-> 0]
Files == [maker : Workers, written : BOOLEAN, age : 0..2]
Exists == lock # NoLockFile

PidPlaces == {"idle", "try", "created", "read", "age", "wait", "steal",
           "hold", "readOwn", "unlinkOwn", "dead"}

PidTypeOK ==
  /\ lock \in Files \union {NoLockFile}
  /\ pc \in [Workers -> PidPlaces]
  /\ late \subseteq Workers
  /\ crashed \subseteq Processes
  /\ recycled \subseteq crashed
  /\ calls \in Nat
  /\ stolen \in BOOLEAN

PidInit ==
  /\ lock = NoLockFile
  /\ pc = [w \in Workers |-> "idle"]
  /\ late = {}
  /\ crashed = {}
  /\ recycled = {}
  /\ calls = 0
  /\ stolen = FALSE

Goto(w, place) == pc' = [pc EXCEPT ![w] = place]
world == <<late, crashed, recycled, calls>>

(* The file is the lock, or the lock in the making, of a worker that is    *)
(* still at work.                                                          *)
Guarding(w) == pc[w] \in {"created", "hold", "readOwn", "unlinkOwn"}

(* os.unlink of the path, with the history of what it took away. *)
Unlink(w) ==
  /\ lock' = NoLockFile
  /\ stolen' = (stolen \/ \E v \in Workers \ {w} : lock.maker = v /\ Guarding(v))

-----------------------------------------------------------------------------
(* _acquire_lock *)

Call(w) ==
  /\ pc[w] = "idle"
  /\ calls < MaxCalls
  /\ calls' = calls + 1
  /\ late' = late \ {w}
  /\ Goto(w, "try")
  /\ UNCHANGED <<lock, crashed, recycled, stolen>>

(* Broken variant: open without O_EXCL. *)
CreateShared(w) ==
  /\ pc[w] = "try"
  /\ lock' = [maker |-> w, written |-> FALSE, age |-> 0]
  /\ Goto(w, "created")
  /\ UNCHANGED <<world, stolen>>

(* O_CREAT | O_EXCL *)
Create(w) ==
  /\ pc[w] = "try"
  /\ ~Exists
  /\ lock' = [maker |-> w, written |-> FALSE, age |-> 0]
  /\ Goto(w, "created")
  /\ UNCHANGED <<world, stolen>>

FileExists(w) ==
  /\ pc[w] = "try"
  /\ Exists
  /\ Goto(w, "read")
  /\ UNCHANGED <<lock, world, stolen>>

(* The payload goes to the file that was created: it is lost if the path   *)
(* has been unlinked meanwhile, and the worker holds the lock all the same.*)
WritePayload(w) ==
  /\ pc[w] = "created"
  /\ lock' = IF lock.maker = w THEN [lock EXCEPT !.written = TRUE] ELSE lock
  /\ Goto(w, "hold")
  /\ UNCHANGED <<world, stolen>>

(* os.write fails: the error leaves _acquire_lock and the empty file stays.*)
WriteFails(w) ==
  /\ pc[w] = "created"
  /\ Goto(w, "idle")
  /\ UNCHANGED <<lock, world, stolen>>

PidAlive(p) == p \notin crashed \/ p \in recycled

(* Broken variant: a dead pid is taken for a live one. *)
LooksStaleIgnoringDeath == ~(Exists /\ lock.written)

(* A file that is gone (FileNotFoundError is an OSError), that is empty    *)
(* (JSONDecodeError) or whose process is dead (ProcessLookupError).        *)
LooksStale ==
  (Exists /\ lock.written) => ~PidAlive(ProcessOf[lock.maker])

ReadLock(w) ==
  /\ pc[w] = "read"
  /\ \/ LooksStale /\ Goto(w, "steal")
     \/ ~LooksStale /\ Goto(w, "age")
  /\ UNCHANGED <<lock, world, stolen>>

(* The path is looked at once more for its age; a missing file is passed   *)
(* over.                                                                   *)
CheckAge(w) ==
  /\ pc[w] = "age"
  /\ \/ lock.age = 2 /\ Goto(w, "steal")
     \/ lock.age < 2 /\ Goto(w, "wait")
  /\ UNCHANGED <<lock, world, stolen>>

(* Broken variant: the stale file is left where it is. *)
StealKeepingFile(w) ==
  /\ pc[w] = "steal"
  /\ Goto(w, "try")
  /\ UNCHANGED <<lock, world, stolen>>

Steal(w) ==
  /\ pc[w] = "steal"
  /\ Unlink(w)
  /\ Goto(w, "try")
  /\ UNCHANGED world

Sleep(w) ==
  /\ pc[w] = "wait"
  /\ w \notin late
  /\ Goto(w, "try")
  /\ UNCHANGED <<lock, world, stolen>>

(* IndexLockError *)
GiveUp(w) ==
  /\ pc[w] = "wait"
  /\ w \in late
  /\ Goto(w, "idle")
  /\ UNCHANGED <<lock, world, stolen>>

-----------------------------------------------------------------------------
(* The build or refresh ends, or raises: _release_lock in a finally block. *)

ReleaseLock(w) ==
  /\ pc[w] = "hold"
  /\ Goto(w, "readOwn")
  /\ UNCHANGED <<lock, world, stolen>>

(* Own pid: unlink.  An empty file: unlink when over 60 s old.  Otherwise, *)
(* and when there is no file, leave it.                                    *)
ReleaseDeletes(w) ==
  /\ Exists
  /\ IF lock.written THEN ProcessOf[lock.maker] = ProcessOf[w] ELSE lock.age > 0

ReadOwn(w) ==
  /\ pc[w] = "readOwn"
  /\ \/ ReleaseDeletes(w) /\ Goto(w, "unlinkOwn")
     \/ ~ReleaseDeletes(w) /\ Goto(w, "idle")
  /\ UNCHANGED <<lock, world, stolen>>

(* Broken variant: the lock is left behind. *)
UnlinkOwnSkipped(w) ==
  /\ pc[w] = "unlinkOwn"
  /\ Goto(w, "idle")
  /\ UNCHANGED <<lock, world, stolen>>

UnlinkOwn(w) ==
  /\ pc[w] = "unlinkOwn"
  /\ Unlink(w)
  /\ Goto(w, "idle")
  /\ UNCHANGED world

Work(w) ==
  \/ Create(w) \/ FileExists(w) \/ WritePayload(w) \/ WriteFails(w)
  \/ ReadLock(w) \/ CheckAge(w) \/ Steal(w) \/ Sleep(w) \/ GiveUp(w)
  \/ ReleaseLock(w) \/ ReadOwn(w) \/ UnlinkOwn(w)

-----------------------------------------------------------------------------
(* The environment: time, crashes, and pids that are handed out again. *)

DeadlinePasses(w) ==
  /\ pc[w] \notin {"idle", "dead"}
  /\ w \notin late
  /\ late' = late \union {w}
  /\ UNCHANGED <<lock, pc, crashed, recycled, calls, stolen>>

LockAges ==
  /\ Exists
  /\ lock.age < MaxAge
  /\ lock' = [lock EXCEPT !.age = @ + 1]
  /\ UNCHANGED <<pc, world, stolen>>

Crash(p) ==
  /\ p \in Mortal \ crashed
  /\ crashed' = crashed \union {p}
  /\ pc' = [w \in Workers |-> IF ProcessOf[w] = p THEN "dead" ELSE pc[w]]
  /\ UNCHANGED <<lock, late, recycled, calls, stolen>>

Recycle(p) ==
  /\ p \in crashed \ recycled
  /\ recycled' = recycled \union {p}
  /\ UNCHANGED <<lock, pc, late, crashed, calls, stolen>>

PidNext ==
  \/ \E w \in Workers : Call(w) \/ Work(w) \/ DeadlinePasses(w)
  \/ LockAges
  \/ \E p \in Processes : Crash(p) \/ Recycle(p)

PidSpec == PidInit /\ [][PidNext]_pidVars

(* A worker in a call runs on, builds end, and time reaches deadlines.     *)
PidFairSpec ==
  /\ PidSpec
  /\ \A w \in Workers : WF_pidVars(Work(w)) /\ WF_pidVars(DeadlinePasses(w))

-----------------------------------------------------------------------------
Holding(w) == pc[w] \in {"hold", "readOwn", "unlinkOwn"}

(* What the store relies on (store.py, class IndexStore: "Concurrent       *)
(* *writers* are serialised by the PID-file lock in ``IndexBuilder``").    *)
WritersSerialised ==
  \A w, v \in Workers : Holding(w) /\ Holding(v) => w = v

(* The exclusive create does serialise the writers until a live worker's   *)
(* file is unlinked by somebody else: that is the only way to two holders, *)
(* and until then the file on disk is the holder's.                        *)
ExclusionUnlessStolen ==
  ~stolen => WritersSerialised

(* A live process leaves no complete lock file behind: everybody else      *)
(* would take it for a running build until it is an hour old.              *)
NoLockLeaked ==
  \A w \in Workers : pc[w] = "idle" => ~(lock.maker = w /\ lock.written)

(* A lock whose process died (and whose pid nobody has now) is out of the  *)
(* way as soon as somebody tries, whenever the crash happened.             *)
Orphaned ==
  /\ Exists
  /\ ProcessOf[lock.maker] \in crashed \ recycled

OrphanRecovered ==
  \A w \in Workers : (pc[w] = "try" /\ Orphaned) ~> (~Orphaned \/ pc[w] = "dead")

(* Acquiring ends, with the lock or with IndexLockError, although breaking *)
(* a lock goes around the loop without a look at the deadline.             *)
AcquireEnds ==
  \A w \in Workers : (pc[w] = "try") ~> (pc[w] \in {"hold", "idle", "dead"})
=============================================================================
