----------------------------- MODULE IndexRefresh -----------------------------
(***************************************************************************)
(* builder.py: builds and refreshes of the index of a git work tree, by    *)
(* blob SHA (git ls-tree, git status, git hash-object), against a user who *)
(* edits and commits while they run, signals that fail one by one, an      *)
(* embedder that fails, and a process that dies between two transactions.  *)
(*                                                                         *)
(* A file's content is a version, 0 when the file is absent; a blob SHA    *)
(* and the chunks made from a content are named by that version, and so    *)
(* are the vectors (chunk ids are content addresses).  The PID lock is     *)
(* held throughout, so one operation runs at a time.                       *)
(***************************************************************************)
EXTENDS Naturals, FiniteSets

CONSTANTS
  Files,
  Versions,      \* contents a file can have
  RebuildOver,   \* the 500 changes beyond which a refresh becomes a build
  EditsOverlap,  \* whether the user edits while an operation runs
  MaxEdits,      \* bound: edits and commits of the user
  MaxFaults,     \* bound: failures of git hash-object, stat, read or chunk
  MaxEmbedFails, \* bound: failures of the embedder
  MaxCrashes,    \* bound: deaths, and storage errors that abort an operation
  MaxTargeted,   \* bound: refreshes of files named by the caller
  MaxBuilds      \* bound: builds that are asked for

ASSUME VersionsAssumption == Versions \subseteq Nat \ {0} /\ IsFiniteSet(Files)
ASSUME BoundsAssumption ==
  EditsOverlap \in BOOLEAN /\
  {RebuildOver, MaxEdits, MaxFaults, MaxEmbedFails, MaxCrashes, MaxTargeted, MaxBuilds}
    \subseteq Nat

VARIABLES
  disk,      \* the work tree: the version of each file
  head,      \* the tree of HEAD
  db,        \* the published index
  tmp,       \* the index a build writes beside it
  op,        \* the operation that runs: what it has found out so far
  pc,        \* where it is
  used,      \* how much of each bound is used up
  gone,      \* history: files that were absent at some time since the start
  moved,     \* history: files committed since the start
  quiet      \* history: no edit and no failure since the start

vars == <<disk, head, db, tmp, op, pc, used, gone, moved, quiet>>

Contents == Versions \union {0}

(* An index: the chunks of each file (of which version, under which        *)
(* content_hash; a hash that is no blob SHA is 0), the versions that have  *)
(* vectors, and meta['vec_dirty'].                                         *)
NoEntry == [of |-> 0, sha |-> 0]
Entries == [of : Versions, sha : Contents] \union {NoEntry}
Indexes == [entry : [Files -> Entries], vecs : [Files -> SUBSET Versions],
            vecDirty : SUBSET Files]
EmptyIndex == [entry |-> [f \in Files |-> NoEntry], vecs |-> [f \in Files |-> {}],
               vecDirty |-> {}]
Stored(index) == {f \in Files : index.entry[f] # NoEntry}

Bounds == [edits |-> MaxEdits, faults |-> MaxFaults, embedFails |-> MaxEmbedFails,
           crashes |-> MaxCrashes, targeted |-> MaxTargeted, builds |-> MaxBuilds]
Spend(kind, n) ==
  /\ used[kind] + n <= Bounds[kind]
  /\ used' = [used EXCEPT ![kind] = @ + n]

Ops ==
  [kind : {"refresh", "build", "targeted"},
   blob : [Files -> Contents],    \* blob_map, with the dirty files merged in
   dirty : SUBSET Files,          \* keys of dirty_map
   unhashed : SUBSET Files,       \* dirty files whose hash-object failed
   reindex : SUBSET Files,        \* files_to_reindex
   deleted : SUBSET Files,
   old : [Files -> Contents],     \* version whose vectors Phase 2 deletes
   pending : SUBSET Files,        \* files whose chunks wait for vectors
   vecOk : BOOLEAN]
NoOp == [kind |-> "refresh", blob |-> [f \in Files |-> 0], dirty |-> {}, unhashed |-> {},
         reindex |-> {}, deleted |-> {}, old |-> [f \in Files |-> 0], pending |-> {},
         vecOk |-> TRUE]

TypeOK ==
  /\ disk \in [Files -> Contents]
  /\ head \in [Files -> Contents]
  /\ db \in Indexes
  /\ tmp \in Indexes
  /\ op \in Ops
  /\ pc \in {"idle", "list", "status", "classify", "index", "dropVectors", "embed", "meta"}
  /\ used \in [DOMAIN Bounds -> Nat]
  /\ \A kind \in DOMAIN Bounds : used[kind] <= Bounds[kind]
  /\ gone \subseteq Files
  /\ moved \subseteq Files
  /\ quiet \in BOOLEAN

(* A built index of a clean work tree. *)
Init ==
  /\ disk \in [Files -> Contents]
  /\ head = disk
  /\ db = [entry |-> [f \in Files |-> [of |-> disk[f], sha |-> disk[f]]],
           vecs |-> [f \in Files |-> {disk[f]} \ {0}],
           vecDirty |-> {}]
  /\ tmp = EmptyIndex
  /\ op = NoOp
  /\ pc = "idle"
  /\ used = [kind \in DOMAIN Bounds |-> 0]
  /\ gone = {}
  /\ moved = {}
  /\ quiet = TRUE

-----------------------------------------------------------------------------
(* The user *)

MayEdit == EditsOverlap \/ pc = "idle"

Edit(f, v) ==
  /\ MayEdit
  /\ disk[f] # v
  /\ Spend("edits", 1)
  /\ disk' = [disk EXCEPT ![f] = v]
  /\ gone' = IF v = 0 THEN gone \union {f} ELSE gone
  /\ quiet' = FALSE
  /\ UNCHANGED <<head, db, tmp, op, pc, moved>>

Commit ==
  /\ MayEdit
  /\ head # disk
  /\ Spend("edits", 1)
  /\ head' = disk
  /\ moved' = moved \union {f \in Files : head[f] # disk[f]}
  /\ quiet' = FALSE
  /\ UNCHANGED <<disk, db, tmp, op, pc, gone>>

-----------------------------------------------------------------------------
(* Starting an operation *)

Begin(kind, place, targets) ==
  /\ pc = "idle"
  /\ op' = [NoOp EXCEPT !.kind = kind, !.reindex = targets]
  /\ pc' = place
  /\ gone' = {f \in Files : disk[f] = 0}
  /\ moved' = {}
  /\ quiet' = TRUE
  /\ UNCHANGED <<disk, head, db, tmp>>

Refresh == Begin("refresh", "list", {}) /\ UNCHANGED used
Build == Begin("build", "list", {}) /\ Spend("builds", 1)
Targeted(targets) == Begin("targeted", "index", targets) /\ Spend("targeted", 1)

(* git ls-tree *)
ListTree ==
  /\ pc = "list"
  /\ op' = [op EXCEPT !.blob = head]
  /\ pc' = "status"
  /\ UNCHANGED <<disk, head, db, tmp, used, gone, moved, quiet>>

(* Broken variant: the dirty files are not merged into blob_map. *)
DetectDirtyUnmerged(failed) ==
  LET dirty == {f \in Files : disk[f] \notin {0, head[f]}} IN
  /\ pc = "status"
  /\ failed \subseteq dirty
  /\ Spend("faults", Cardinality(failed))
  /\ op' = [op EXCEPT !.dirty = dirty \ failed, !.unhashed = failed]
  /\ pc' = "classify"
  /\ quiet' = (quiet /\ failed = {})
  /\ UNCHANGED <<disk, head, db, tmp, gone, moved>>

(* git status, and git hash-object for each dirty file; a file whose       *)
(* hash-object fails is left out.                                          *)
DetectDirty(failed) ==
  LET dirty == {f \in Files : disk[f] \notin {0, head[f]}} IN
  /\ pc = "status"
  /\ failed \subseteq dirty
  /\ Spend("faults", Cardinality(failed))
  /\ op' = [op EXCEPT !.dirty = dirty \ failed,
                      !.unhashed = failed,
                      !.blob = [f \in Files |-> IF f \in dirty \ failed THEN disk[f] ELSE @[f]]]
  /\ pc' = "classify"
  /\ quiet' = (quiet /\ failed = {})
  /\ UNCHANGED <<disk, head, db, tmp, gone, moved>>

(* git status itself fails: a refresh is skipped, a build raises. *)
StatusFails ==
  /\ pc = "status"
  /\ Spend("faults", 1)
  /\ pc' = "idle"
  /\ quiet' = FALSE
  /\ UNCHANGED <<disk, head, db, tmp, op, gone, moved>>

(* _classify_candidates: the candidates whose stat answers and that are    *)
(* there.                                                                  *)
Indexable(uncertain) ==
  {f \in Files : op.blob[f] # 0 /\ f \notin uncertain /\ disk[f] # 0}

(* Broken variant: a stat that fails counts as a deletion. *)
ToDeleteOnDoubt(uncertain) == Stored(db) \ Indexable(uncertain)

ToDelete(uncertain) == (Stored(db) \ Indexable(uncertain)) \ uncertain

(* Broken variant: vec_dirty is not consumed. *)
ToReindexIgnoringMarker(uncertain) ==
  {f \in Indexable(uncertain) : f \notin Stored(db) \/ db.entry[f].sha # op.blob[f]}

(* Changed and added files, and the unchanged ones that vec_dirty forces.  *)
ToReindex(uncertain) ==
  {f \in Indexable(uncertain) :
     f \notin Stored(db) \/ db.entry[f].sha # op.blob[f] \/ f \in db.vecDirty}

(* _try_git_object_refresh up to its early returns.  Without changes it    *)
(* only labels branches and writes meta that is not modelled here; with    *)
(* too many, it becomes a build that detects everything anew.              *)
Classify(uncertain) ==
  LET changes == Cardinality(ToDelete(uncertain)) + Cardinality(ToReindex(uncertain)) IN
  /\ pc = "classify"
  /\ op.kind = "refresh"
  /\ uncertain \subseteq {f \in Files : op.blob[f] # 0}
  /\ Spend("faults", Cardinality(uncertain))
  /\ quiet' = (quiet /\ uncertain = {})
  /\ \/ changes = 0 /\ pc' = "idle" /\ UNCHANGED op
     \/ changes > RebuildOver /\ pc' = "list" /\ op' = [NoOp EXCEPT !.kind = "build"]
     \/ /\ changes \in 1..RebuildOver
        /\ pc' = "index"
        /\ op' = [op EXCEPT !.deleted = ToDelete(uncertain), !.reindex = ToReindex(uncertain)]
  /\ UNCHANGED <<disk, head, db, tmp, gone, moved>>

(* A build indexes what _filter_files lets through, into an empty index. *)
ClassifyBuild(uncertain) ==
  /\ pc = "classify"
  /\ op.kind = "build"
  /\ uncertain \subseteq {f \in Files : op.blob[f] # 0}
  /\ Spend("faults", Cardinality(uncertain))
  /\ quiet' = (quiet /\ uncertain = {})
  /\ op' = [op EXCEPT !.reindex = Indexable(uncertain)]
  /\ tmp' = EmptyIndex
  /\ pc' = "index"
  /\ UNCHANGED <<disk, head, db, gone, moved>>

-----------------------------------------------------------------------------
(* Phase 1: chunks and hashes, in one transaction *)

(* _read_file_content: the blob when the file is clean and was listed, the *)
(* work tree otherwise, and when the blob cannot be read (missed).         *)
Content(f, missed) ==
  IF op.blob[f] = 0 \/ f \in op.dirty \union missed THEN disk[f] ELSE op.blob[f]

(* Entries after the deletions and the re-indexing of the files in done; a *)
(* file that failed keeps its entry (_reindex_file_preserving).            *)
Indexed(index, done, missed) ==
  [f \in Files |->
     IF f \in op.deleted THEN NoEntry
     ELSE IF f \in done THEN [of |-> Content(f, missed), sha |-> op.blob[f]]
     ELSE index.entry[f]]

Unreadable(missed) == {f \in op.reindex : Content(f, missed) = 0}

(* _reindex_file_preserving: a file whose read or chunking raises is left  *)
(* as it was.                                                              *)
Reindexed(failed) == op.reindex \ failed

(* failed: files whose read or chunking raises; a work tree file that is   *)
(* gone by now cannot be read.                                             *)
Index(failed, missed) ==
  LET done == Reindexed(failed)
      changed == done \union op.deleted IN
  /\ pc = "index"
  /\ Unreadable(missed) \subseteq failed
  /\ failed \subseteq op.reindex
  /\ missed \subseteq {f \in op.reindex : op.blob[f] # 0} \ op.dirty
  /\ Spend("faults", Cardinality(failed \ Unreadable(missed)) + Cardinality(missed))
  /\ quiet' = (quiet /\ failed \union missed = {})
  /\ IF op.kind = "build"
     THEN /\ tmp' = [tmp EXCEPT !.entry = Indexed(tmp, done, missed)]
          /\ op' = [op EXCEPT !.pending = done]
          /\ UNCHANGED db
     ELSE /\ db' = [db EXCEPT !.entry = Indexed(db, done, missed)]
          /\ op' = [op EXCEPT !.pending = done,
                     !.old = [f \in Files |-> IF f \in changed THEN db.entry[f].of ELSE 0]]
          /\ UNCHANGED tmp
  /\ pc' = IF op.kind = "build" THEN "embed" ELSE "dropVectors"
  /\ UNCHANGED <<disk, head, gone, moved>>

-----------------------------------------------------------------------------
(* Phase 2: vectors, on their own connection, then meta *)

DropVectors ==
  /\ pc = "dropVectors"
  /\ db' = [db EXCEPT !.vecs = [f \in Files |-> @[f] \ {op.old[f]}]]
  /\ pc' = "embed"
  /\ UNCHANGED <<disk, head, tmp, op, used, gone, moved, quiet>>

WithVectors(index, fs) ==
  [index EXCEPT !.vecs =
     [f \in Files |-> IF f \in fs THEN @[f] \union {index.entry[f].of} ELSE @[f]]]

(* _flush_vectors: all pending vectors. *)
Embed ==
  /\ pc = "embed"
  /\ IF op.kind = "build"
     THEN tmp' = WithVectors(tmp, op.pending) /\ UNCHANGED db
     ELSE db' = WithVectors(db, op.pending) /\ UNCHANGED tmp
  /\ pc' = "meta"
  /\ UNCHANGED <<disk, head, op, used, gone, moved, quiet>>

(* The embedder fails: a refresh gets no vector (chunks that have theirs   *)
(* are not embedded again), a build those of the batches that succeed, and *)
(* it drops the outcome.                                                   *)
EmbedFails(done) ==
  /\ pc = "embed"
  /\ done \subseteq op.pending
  /\ op.pending \ done # {}
  /\ op.kind # "build" => done = {}
  /\ op.kind = "refresh" => \E f \in op.pending : db.entry[f].of \notin db.vecs[f]
  /\ Spend("embedFails", 1)
  /\ quiet' = FALSE
  /\ tmp' = WithVectors(tmp, done)
  /\ op' = [op EXCEPT !.vecOk = FALSE]
  /\ pc' = "meta"
  /\ UNCHANGED <<disk, head, db, gone, moved>>

(* Broken variant: the marker is cleared whatever became of the vectors. *)
MarkedNever == {}

(* meta['vec_dirty']: every file that was to be re-indexed, when the flush *)
(* failed; nothing otherwise.                                              *)
Marked == IF op.vecOk THEN {} ELSE op.reindex

WriteMeta ==
  /\ pc = "meta"
  /\ op.kind # "build"
  /\ db' = [db EXCEPT !.vecDirty = Marked]
  /\ pc' = "idle"
  /\ UNCHANGED <<disk, head, tmp, op, used, gone, moved, quiet>>

(* The build's meta has no vec_dirty; atomic_swap publishes it. *)
Publish ==
  /\ pc = "meta"
  /\ op.kind = "build"
  /\ db' = tmp
  /\ tmp' = EmptyIndex
  /\ pc' = "idle"
  /\ UNCHANGED <<disk, head, op, used, gone, moved, quiet>>

(* The process dies, or a storage error leaves build or refresh: what was  *)
(* committed stays, the rest (an open transaction, the temporary index) is *)
(* lost, and the lock is released or found stale.                          *)
Abort ==
  /\ pc # "idle"
  /\ Spend("crashes", 1)
  /\ pc' = "idle"
  /\ tmp' = EmptyIndex
  /\ quiet' = FALSE
  /\ UNCHANGED <<disk, head, db, op, gone, moved>>

Run ==
  \/ ListTree \/ StatusFails
  \/ \E fs \in SUBSET Files :
       \/ DetectDirty(fs) \/ Classify(fs) \/ ClassifyBuild(fs) \/ EmbedFails(fs)
       \/ \E missed \in SUBSET Files : Index(fs, missed)
  \/ DropVectors \/ Embed \/ WriteMeta \/ Publish

Next ==
  \/ \E f \in Files, v \in Contents : Edit(f, v)
  \/ Commit
  \/ Refresh \/ Build
  \/ \E fs \in SUBSET Files \ {{}} : Targeted(fs)
  \/ Run
  \/ Abort

Spec == Init /\ [][Next]_vars

(* The daemon refreshes periodically, and an operation that runs goes on.  *)
FairSpec == Spec /\ WF_vars(Refresh) /\ WF_vars(Run)

-----------------------------------------------------------------------------
(* A refresh takes a file's entry away only if the file was gone at some   *)
(* time since it started, with two exceptions that EvidenceOnly is about:  *)
(* its hash-object failed, or it was committed between git ls-tree and git *)
(* status and is in neither answer.  A failed stat, read or chunking and a *)
(* failed git status leave the entry.                                      *)
Removed(f) == f \in Stored(db) /\ f \notin Stored(db)' /\ op.kind # "build"

FaultsKeepEntries ==
  [][\A f \in Files : Removed(f) => f \in gone \union op.unhashed \union moved]_vars

(* What the code promises (builder.py, _classify_candidates: "an existing  *)
(* index entry may only be mutated on POSITIVE evidence of absence or      *)
(* valid replacement data"; _DirtyDetectionError: "a failed signal must    *)
(* NEVER be read as a negative").                                          *)
EvidenceOnly == [][\A f \in Files : Removed(f) => f \in gone]_vars

(* A file is indexed as it is on disk.  A torn entry has chunks of one     *)
(* version under the hash of another: the file changed between git         *)
(* hash-object and the read.                                               *)
Fresh(f) == db.entry[f].of = disk[f]
Torn(f) == db.entry[f].sha \notin {0, db.entry[f].of}

(* A full refresh or build that nothing disturbed leaves the index equal   *)
(* to the work tree, torn entries excepted, whatever failed before it.     *)
UndisturbedConverges ==
  (pc = "idle" /\ quiet /\ op # NoOp /\ op.kind # "targeted") =>
    \A f \in Files : Fresh(f) \/ Torn(f)

(* Once edits and failures stop, periodic refreshes bring every file up to *)
(* date, torn entries excepted.                                            *)
EventuallyFresh == <>[](\A f \in Files : Fresh(f) \/ Torn(f))

Uncovered(f) == f \in Stored(db) /\ db.entry[f].of \notin db.vecs[f]

(* When a refresh ends (and does not abort), each file it has indexed anew *)
(* has vectors for its chunks or is marked, whatever the old chunks were   *)
(* and whether or not the new ones are the same (Phase 2 deletes by chunk  *)
(* id, then inserts).                                                      *)
ReindexedIsCoveredOrMarked ==
  [][(pc = "meta" /\ pc' = "idle" /\ op.kind # "build" /\ used' = used) =>
       \A f \in op.pending : Uncovered(f) => f \in db'.vecDirty]_vars

(* Nothing but embedding has failed, and every refresh was a full one.       *)
OnlyEmbeddingFailed == used.faults + used.crashes + used.targeted = 0

(* A full refresh consumes the marker and writes it anew: a marked file is   *)
(* still marked afterwards or has got its vectors (_vec_dirty_paths:         *)
(* "Consuming it forces re-embedding so a transient embedding failure never  *)
(* permanently drops vector coverage").  What does drop it is a read that    *)
(* fails, also of a file that is away for a moment, and a targeted refresh.  *)
MarkersKept ==
  [][(pc = "meta" /\ pc' = "idle" /\ op.kind = "refresh" /\ OnlyEmbeddingFailed') =>
       \A f \in db.vecDirty \ gone : Uncovered(f) => f \in db'.vecDirty]_vars

(* The marker works as long as nothing but embedding fails and no build      *)
(* drops the outcome: every file has its vectors in the end.                 *)
EventuallyCovered ==
  [](OnlyEmbeddingFailed /\ op.kind # "build") => <>[](\A f \in Files : ~Uncovered(f))
=============================================================================
