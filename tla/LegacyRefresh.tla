----------------------------- MODULE LegacyRefresh -----------------------------
(***************************************************************************)
(* builder.py, the refresh that does not know the blobs: of a shallow      *)
(* clone, by git diff against the last commit that was recorded, and of a  *)
(* directory without commits, by the times and hashes of the files.  A     *)
(* user edits and commits meanwhile.                                       *)
(*                                                                         *)
(* A file's content is a version, 0 when the file is absent; its SHA-256   *)
(* is named by it.  Times count the edits, 0 is the missing mtime_ns.  The *)
(* PID lock is held throughout, so one operation runs at a time.           *)
(***************************************************************************)
EXTENDS Naturals, FiniteSets

CONSTANTS
  Files,
  Versions,      \* contents a file can have
  RebuildOver,   \* the 500 changes beyond which a refresh becomes a build
  EditsOverlap,  \* whether the user edits while an operation runs
  MaxEdits,      \* bound: edits and commits of the user
  MaxFaults,     \* bound: failures of git, stat, read, chunking or embedding
  MaxCrashes,    \* bound: deaths, and storage errors that abort an operation
  MaxAsked       \* bound: builds, and refreshes of files named by the caller

ASSUME LegacyAssumption ==
  /\ IsFiniteSet(Files) /\ Versions \subseteq Nat \ {0}
  /\ EditsOverlap \in BOOLEAN
  /\ {RebuildOver, MaxEdits, MaxFaults, MaxCrashes, MaxAsked} \subseteq Nat

VARIABLES
  git,      \* whether there are commits (and the clone is shallow)
  disk,     \* the work tree: the version of each file
  time,     \* and its st_mtime_ns
  head,     \* the tree of HEAD, which is also what git ls-files knows
  last,     \* the tree of meta['last_commit']
  based,    \* whether that commit is recorded and an ancestor of HEAD
  index,    \* of each file: version and mtime_ns
  marked,   \* meta['vec_dirty']
  op,       \* the operation that runs: what it has found out so far
  pc,       \* where it is
  used,     \* how much of each bound is used up
  aligned,  \* history: files indexed as in last when the operation started
  gone,     \* history: files that were absent at some time since then
  quiet     \* history: no edit and no failure since then

user == <<git, disk, time, head>>
meta == <<last, based, marked>>
vars == <<user, meta, index, op, pc, used, aligned, gone, quiet>>

Contents == Versions \union {0}
Times == 0 .. MaxEdits + 1
Present == {f \in Files : disk[f] # 0}

(* late is history: the file changed between its read and its stat.        *)
NoEntry == [of |-> 0, time |-> 0, late |-> FALSE]
Entries == [of : Versions, time : Times, late : BOOLEAN] \union {NoEntry}
Stored == {f \in Files : index[f] # NoEntry}

Bounds == [edits |-> MaxEdits, faults |-> MaxFaults, crashes |-> MaxCrashes, asked |-> MaxAsked]
Spend(kind, n) ==
  /\ used[kind] + n <= Bounds[kind]
  /\ used' = [used EXCEPT ![kind] = @ + n]

(* What goes wrong n times disturbs the operation.                         *)
Fault(n) == Spend("faults", n) /\ quiet' = (quiet /\ n = 0)

Ops ==
  [kind : {"refresh", "build", "targeted"},
   byDiff : BOOLEAN,            \* git diff has answered
   listed : SUBSET Files,       \* its answer
   deleted : SUBSET Files,      \* changed_files
   updates : SUBSET Files,
   todo : SUBSET Files,         \* updates not yet looked at
   read : [Files -> Contents],  \* the content of the file that is being indexed
   done : SUBSET Files,         \* files with pending vectors
   work : [Files -> Entries]]   \* the index as the open transaction sees it
NoOp == [kind |-> "refresh", byDiff |-> FALSE, listed |-> {}, deleted |-> {}, updates |-> {},
         todo |-> {}, read |-> [f \in Files |-> 0], done |-> {},
         work |-> [f \in Files |-> NoEntry]]

TypeOK ==
  /\ git \in BOOLEAN /\ based \in BOOLEAN /\ quiet \in BOOLEAN
  /\ {disk, head, last} \subseteq [Files -> Contents]
  /\ time \in [Files -> Times]
  /\ index \in [Files -> Entries]
  /\ {marked, aligned, gone} \subseteq SUBSET Files
  /\ op \in Ops
  /\ pc \in {"idle", "diff", "compare", "index", "meta"}
  /\ used \in [DOMAIN Bounds -> Nat]
  /\ \A kind \in DOMAIN Bounds : used[kind] <= Bounds[kind]

(* A built index of a clean work tree, or of a directory without commits.  *)
Init ==
  /\ git \in BOOLEAN
  /\ disk \in [Files -> Contents]
  /\ time = [f \in Files |-> IF disk[f] = 0 THEN 0 ELSE 1]
  /\ head = [f \in Files |-> IF git THEN disk[f] ELSE 0]
  /\ last = head
  /\ based = git
  /\ index = [f \in Files |-> [of |-> disk[f], time |-> time[f], late |-> FALSE]]
  /\ marked = {}
  /\ op = NoOp
  /\ pc = "idle"
  /\ used = [kind \in DOMAIN Bounds |-> 0]
  /\ aligned = {}
  /\ gone = {}
  /\ quiet = TRUE

-----------------------------------------------------------------------------
(* The user *)

Disturb ==
  /\ EditsOverlap \/ pc = "idle"
  /\ Spend("edits", 1)
  /\ quiet' = FALSE
  /\ UNCHANGED <<git, last, marked, index, op, pc, aligned>>

Edit(f, v) ==
  /\ disk[f] # v
  /\ Disturb
  /\ disk' = [disk EXCEPT ![f] = v]
  /\ time' = [time EXCEPT ![f] = IF v = 0 THEN 0 ELSE used.edits + 2]
  /\ gone' = IF v = 0 THEN gone \union {f} ELSE gone
  /\ UNCHANGED <<head, based>>

Commit ==
  /\ git
  /\ head # disk
  /\ Disturb
  /\ head' = disk
  /\ UNCHANGED <<disk, time, based, gone>>

(* A rebase or an amended commit: what was recorded is no ancestor.        *)
Rewrite ==
  /\ git /\ based
  /\ Disturb
  /\ head' = disk
  /\ based' = FALSE
  /\ UNCHANGED <<disk, time, gone>>

-----------------------------------------------------------------------------
(* Starting an operation *)

Begin(new, place) ==
  /\ pc = "idle"
  /\ op' = new
  /\ pc' = place
  /\ aligned' = {f \in Files : index[f].of = last[f]}
  /\ gone' = Files \ Present
  /\ quiet' = TRUE
  /\ UNCHANGED <<user, meta, index>>

Refresh == Begin(NoOp, "diff") /\ UNCHANGED used
Build == Begin([NoOp EXCEPT !.kind = "build"], "compare") /\ Spend("asked", 1)
Targeted(fs) ==
  /\ Begin([NoOp EXCEPT !.kind = "targeted", !.updates = fs, !.todo = fs, !.work = index], "index")
  /\ Spend("asked", 1)

-----------------------------------------------------------------------------
(* Detection *)

(* Broken variant: what was committed since, instead of the work tree.     *)
CommittedDiff == {f \in Files : head[f] # last[f]}

(* git diff --name-only <last_commit>: known to git or to that commit, and *)
(* not in the work tree as in that commit; what git no longer knows counts *)
(* as deleted.                                                             *)
GitDiff ==
  {f \in Files : IF head[f] = 0 THEN last[f] # 0 ELSE disk[f] # last[f]}

(* _git_diff_files: no answer when there is no such ancestor, or git fails. *)
Diff(n) ==
  /\ pc = "diff"
  /\ n \in {0, 1}
  /\ Fault(n)
  /\ op' = IF based /\ n = 0 THEN [op EXCEPT !.byDiff = TRUE, !.listed = GitDiff] ELSE op
  /\ pc' = "compare"
  /\ UNCHANGED <<user, meta, index, aligned, gone>>

Differing(fs) == {f \in fs \intersect Present : disk[f] # index[f].of}

(* The fast path of _hash_diff.  (When its stat fails, the content is      *)
(* compared.)                                                              *)
SameTime(f) == index[f].time # 0 /\ index[f].time = time[f]

(* Broken variant: a file that git does not know is not looked for.        *)
ListedOnly(uncertain, unread) == Differing(op.listed \ unread)

(* The files git diff lists, read and compared, and the present ones that  *)
(* are not stored.                                                         *)
ListedOrNew(uncertain, unread) ==
  Differing(op.listed \ unread) \union (Present \ (Stored \union uncertain))

(* All files, by time, then by content.                                    *)
Changed(uncertain, unread) ==
  Differing({f \in Files \ (uncertain \union unread) : ~SameTime(f)})

ToUpdate(uncertain, unread) ==
  IF op.byDiff THEN ListedOrNew(uncertain, unread) ELSE Changed(uncertain, unread)

(* Broken variant: a stat that fails counts as a deletion.                 *)
ToDeleteOnDoubt(uncertain) == Stored \ (Present \ uncertain)

(* Stored, and neither found nor uncertain.                                *)
ToDelete(uncertain) == (Stored \ Present) \ uncertain

Forced == marked \intersect Present

(* The files a listing names: tracked ones, which may be absent, and all   *)
(* that are there.                                                         *)
Candidates == Present \union {f \in Files : head[f] # 0}

(* _detect_changes and the early returns of refresh.  Without changes only *)
(* the branch is recorded, not the commit; with too many, it becomes a     *)
(* build that detects everything anew.                                     *)
Compare(uncertain, unread) ==
  LET updates == ToUpdate(uncertain, unread) \union Forced
      deleted == ToDelete(uncertain)
      changes == Cardinality(updates) + Cardinality(deleted)
  IN  /\ pc = "compare"
      /\ op.kind = "refresh"
      /\ uncertain \subseteq Candidates /\ unread \subseteq Present
      /\ Fault(Cardinality(uncertain) + Cardinality(unread))
      /\ \/ changes = 0 /\ pc' = "idle" /\ UNCHANGED op
         \/ /\ changes > RebuildOver
            /\ pc' = "compare"
            /\ op' = [NoOp EXCEPT !.kind = "build"]
         \/ /\ changes \in 1 .. RebuildOver
            /\ pc' = "index"
            /\ op' = [op EXCEPT
                        !.deleted = deleted, !.updates = updates, !.todo = updates,
                        !.work = [f \in Files |-> IF f \in deleted THEN NoEntry ELSE index[f]]]
      /\ UNCHANGED <<user, meta, index, aligned, gone>>

(* A build indexes all that _discover_files finds, into an empty index.    *)
Discover(uncertain) ==
  /\ pc = "compare"
  /\ op.kind = "build"
  /\ uncertain \subseteq Candidates
  /\ Fault(Cardinality(uncertain))
  /\ op' = [op EXCEPT !.updates = Present \ uncertain, !.todo = Present \ uncertain]
  /\ pc' = "index"
  /\ UNCHANGED <<user, meta, index, aligned, gone>>

-----------------------------------------------------------------------------
(* Indexing, in one transaction *)

Reading == {f \in Files : op.read[f] # 0}

InTransaction == UNCHANGED <<user, meta, index, pc, aligned, gone>>

Read(f) ==
  /\ pc = "index" /\ Reading = {}
  /\ f \in op.todo \intersect Present
  /\ op' = [op EXCEPT !.read[f] = disk[f], !.todo = @ \ {f}]
  /\ InTransaction
  /\ UNCHANGED <<used, quiet>>

(* Its read fails, as it is gone or for another reason, or its chunking: a *)
(* refresh keeps the entry, a build has none.                              *)
Skip(f) ==
  /\ pc = "index" /\ Reading = {}
  /\ f \in op.todo
  /\ Fault(IF f \in Present THEN 1 ELSE 0)
  /\ op' = [op EXCEPT !.todo = @ \ {f}]
  /\ InTransaction

(* The time is taken after the content; none when the stat fails.          *)
Stamp(f, n) ==
  /\ pc = "index" /\ f \in Reading
  /\ n \in {0, 1}
  /\ Fault(n)
  /\ op' = [op EXCEPT
       !.work[f] = [of |-> op.read[f],
                    time |-> IF n = 0 THEN time[f] ELSE 0,
                    late |-> n = 0 /\ disk[f] \notin {0, op.read[f]}],
       !.done = @ \union {f},
       !.read[f] = 0]
  /\ InTransaction

CommitBatch ==
  /\ pc = "index" /\ Reading = {} /\ op.todo = {}
  /\ index' = IF op.kind = "build" THEN index ELSE op.work
  /\ pc' = "meta"
  /\ UNCHANGED <<user, meta, op, used, aligned, gone, quiet>>

-----------------------------------------------------------------------------
(* Vectors, and what is recorded: the commit that is HEAD by now.  The     *)
(* first fault is git rev-parse, the second the embedder.                  *)
WriteMeta(noHead, noVectors) ==
  /\ pc = "meta"
  /\ {noHead, noVectors} \subseteq {0, 1}
  /\ noHead = 1 => git
  /\ noVectors = 1 => op.done # {}
  /\ Fault(noHead + noVectors)
  /\ last' = head
  /\ based' = (git /\ noHead = 0)
  /\ marked' = IF op.kind # "build" /\ noVectors = 1 THEN op.updates ELSE {}
  /\ index' = IF op.kind = "build" THEN op.work ELSE index
  /\ pc' = "idle"
  /\ UNCHANGED <<user, op, aligned, gone>>

Abort ==
  /\ pc # "idle"
  /\ Spend("crashes", 1)
  /\ pc' = "idle"
  /\ quiet' = FALSE
  /\ UNCHANGED <<user, meta, index, op, aligned, gone>>

Run ==
  \/ \E n, m \in {0, 1} : Diff(n) \/ WriteMeta(n, m)
  \/ \E fs \in SUBSET Files : Discover(fs) \/ \E unread \in SUBSET Files : Compare(fs, unread)
  \/ \E f \in Files : Read(f) \/ Skip(f) \/ \E n \in {0, 1} : Stamp(f, n)
  \/ CommitBatch

Next ==
  \/ \E f \in Files, v \in Contents : Edit(f, v)
  \/ Commit \/ Rewrite
  \/ Refresh \/ Build
  \/ \E fs \in SUBSET Files \ {{}} : Targeted(fs)
  \/ Run
  \/ Abort

Spec == Init /\ [][Next]_vars

(* The daemon refreshes periodically, and an operation that runs goes on.  *)
FairSpec == Spec /\ WF_vars(Refresh) /\ WF_vars(Run)

-----------------------------------------------------------------------------
Fresh(f) == index[f].of = disk[f]

(* An operation has ended that nothing disturbed and that was to look at   *)
(* every file.                                                             *)
Undisturbed == pc = "idle" /\ quiet /\ op # NoOp /\ op.kind # "targeted"

(* Whatever happened before, such an operation leaves the index equal to   *)
(* the work tree, but for two kinds of files.  By git diff, those that     *)
(* were not indexed as they are in the commit that was recorded (edits not *)
(* committed, a file that failed or changed while the commit was recorded, *)
(* files a targeted refresh did not look at).  By time, those that changed *)
(* between their read and their stat.                                      *)
LegacyConverges ==
  Undisturbed =>
    \A f \in Files :
      \/ Fresh(f)
      \/ op.kind = "refresh" /\ (IF op.byDiff THEN f \notin aligned ELSE index[f].late)

(* Once edits and failures stop, the periodic refresh finds every other    *)
(* change: a new file, a deletion, history that was rewritten.             *)
Hidden(f) == IF based THEN index[f].of # last[f] ELSE index[f].late
LegacyEventuallyFresh == <>[](\A f \in Files : Fresh(f) \/ Hidden(f))

(* A refresh takes an entry away only if the file was gone at some time    *)
(* since it started, whatever failed (_detect_changes: "a transient stat   *)
(* failure leaves the file as-is").                                        *)
LegacyEvidence ==
  [][\A f \in Files :
       f \in Stored /\ f \notin Stored' /\ op.kind # "build" => f \in gone]_vars
=============================================================================
