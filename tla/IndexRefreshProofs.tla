-------------------------- MODULE IndexRefreshProofs --------------------------
(***************************************************************************)
(* Refreshes and builds, for any files, versions and bounds: the types,    *)
(* that no failure takes an entry out of the index on its own, that what   *)
(* lacks vectors is marked, and that an undisturbed operation converges.   *)
(***************************************************************************)
EXTENDS IndexRefresh, FiniteSetTheorems, TLAPS

(* A file is deleted or re-indexed, never both, and deletions are decided  *)
(* in one place.                                                           *)
DeletedOrReindexed ==
  /\ op.deleted \intersect op.reindex = {}
  /\ pc \in {"list", "status", "classify"} => op.deleted = {}

(* The files that wait for vectors are in the index that gets them.        *)
PendingStored ==
  pc \in {"dropVectors", "embed"} =>
    op.pending \subseteq Stored(IF op.kind = "build" THEN tmp ELSE db)

(* What an operation takes for absence, step by step: a file that is gone  *)
(* now has been seen to go; a tree that is not HEAD any more has lost only *)
(* committed files; a file in neither answer of git is gone, unhashed or   *)
(* committed; and so is a file that will be deleted.                       *)
GoneSeen == pc # "idle" => \A f \in Files : disk[f] = 0 => f \in gone
MovedSeen == pc = "status" => \A f \in Files : op.blob[f] = head[f] \/ f \in moved
AbsenceExplained ==
  pc = "classify" =>
    \A f \in Files : op.blob[f] = 0 => f \in gone \union op.unhashed \union moved
DeletionExplained ==
  pc = "index" => op.deleted \subseteq gone \union op.unhashed \union moved

Evidence == GoneSeen /\ MovedSeen /\ AbsenceExplained /\ DeletionExplained

IInv == TypeOK /\ DeletedOrReindexed /\ PendingStored /\ Evidence

-----------------------------------------------------------------------------
(* Lemmas about the parts of a state *)

LEMMA EmptyTypes == EmptyIndex \in Indexes /\ NoOp \in Ops
  BY VersionsAssumption DEF EmptyIndex, Indexes, Entries, NoEntry, NoOp, Ops, Contents

LEMMA Finite == \A S \in SUBSET Files : Cardinality(S) \in Nat
  BY VersionsAssumption, FS_Subset, FS_CardinalityType

LEMMA SpendKeepsBound ==
  ASSUME TypeOK, NEW kind \in DOMAIN Bounds, NEW n \in Nat, Spend(kind, n)
  PROVE  /\ used' \in [DOMAIN Bounds -> Nat]
         /\ \A k \in DOMAIN Bounds : used'[k] <= Bounds[k]
  BY DEF TypeOK, Spend

LEMMA Kinds ==
  DOMAIN Bounds = {"edits", "faults", "embedFails", "crashes", "targeted", "builds"}
  BY DEF Bounds

LEMMA WithVectorsType ==
  ASSUME NEW index \in Indexes, NEW fs \in SUBSET Files, fs \subseteq Stored(index)
  PROVE  /\ WithVectors(index, fs) \in Indexes
         /\ WithVectors(index, fs).entry = index.entry
  BY DEF WithVectors, Indexes, Entries, NoEntry, Stored

LEMMA IndexedType ==
  ASSUME TypeOK, NEW index \in Indexes, NEW done \in SUBSET Files,
         NEW missed \in SUBSET Files,
         \A f \in done : Content(f, missed) # 0
  PROVE  Indexed(index, done, missed) \in [Files -> Entries]
  <1>1. \A f \in Files : Content(f, missed) \in Contents
    BY DEF TypeOK, Ops, Content
  <1>2. ASSUME NEW f \in done
        PROVE  [of |-> Content(f, missed), sha |-> op.blob[f]] \in Entries
    <2>1. Content(f, missed) \in Versions
      BY <1>1 DEF Contents
    <2>2. op.blob[f] \in Contents
      BY DEF TypeOK, Ops
    <2>3. QED
      BY <2>1, <2>2 DEF Entries
  <1>3. NoEntry \in Entries /\ \A f \in Files : index.entry[f] \in Entries
    BY DEF Entries, Indexes
  <1>4. QED
    BY <1>2, <1>3 DEF Indexed

LEMMA InitInv == Init => IInv
  <1> SUFFICES ASSUME Init PROVE IInv
    OBVIOUS
  <1>1. db \in Indexes
    BY DEF Init, Indexes, Entries, NoEntry, Contents
  <1>2. TypeOK
    <2>1. used \in [DOMAIN Bounds -> Nat] /\ \A k \in DOMAIN Bounds : used[k] <= Bounds[k]
      BY BoundsAssumption DEF Init, Bounds
    <2>2. QED
      BY <1>1, <2>1, EmptyTypes DEF Init, TypeOK
  <1>3. DeletedOrReindexed /\ PendingStored /\ Evidence
    BY DEF Init, NoOp, DeletedOrReindexed, PendingStored, Evidence, GoneSeen, MovedSeen,
           AbsenceExplained, DeletionExplained
  <1>4. QED
    BY <1>2, <1>3 DEF IInv

-----------------------------------------------------------------------------
(* The user, the start and the abort *)

LEMMA EditKeepsInv ==
  ASSUME IInv, NEW f \in Files, NEW v \in Contents, Edit(f, v)
  PROVE  IInv'
  <1> USE DEF IInv, Edit
  <1>1. TypeOK'
    <2>1. used' \in [DOMAIN Bounds -> Nat] /\ \A k \in DOMAIN Bounds : used'[k] <= Bounds[k]
      BY SpendKeepsBound, Kinds
    <2>2. QED
      BY <2>1 DEF TypeOK
  <1>2. DeletedOrReindexed' /\ PendingStored'
    BY DEF DeletedOrReindexed, PendingStored, Stored
  <1>3. Evidence'
    BY DEF TypeOK, Evidence, GoneSeen, MovedSeen, AbsenceExplained, DeletionExplained
  <1>4. QED
    BY <1>1, <1>2, <1>3

LEMMA CommitKeepsInv ==
  ASSUME IInv, Commit
  PROVE  IInv'
  <1> USE DEF IInv, Commit
  <1>1. TypeOK'
    <2>1. used' \in [DOMAIN Bounds -> Nat] /\ \A k \in DOMAIN Bounds : used'[k] <= Bounds[k]
      BY SpendKeepsBound, Kinds
    <2>2. QED
      BY <2>1 DEF TypeOK
  <1>2. DeletedOrReindexed' /\ PendingStored'
    BY DEF DeletedOrReindexed, PendingStored, Stored
  <1>3. Evidence'
    BY DEF TypeOK, Evidence, GoneSeen, MovedSeen, AbsenceExplained, DeletionExplained
  <1>4. QED
    BY <1>1, <1>2, <1>3

LEMMA BeginKeepsInv ==
  ASSUME IInv, Refresh \/ Build \/ \E fs \in SUBSET Files : Targeted(fs)
  PROVE  IInv'
  <1>1. PICK kind \in {"refresh", "build", "targeted"}, place \in {"list", "index"},
             targets \in SUBSET Files :
          /\ Begin(kind, place, targets)
          /\ place = "list" => targets = {}
    BY DEF Refresh, Build, Targeted
  <1>2. TypeOK'
    <2>1. used' \in [DOMAIN Bounds -> Nat] /\ \A k \in DOMAIN Bounds : used'[k] <= Bounds[k]
      BY SpendKeepsBound, Kinds DEF IInv, TypeOK, Refresh, Build, Targeted
    <2>2. op' \in Ops
      BY <1>1, EmptyTypes DEF Begin, Ops
    <2>3. QED
      BY <1>1, <2>1, <2>2 DEF IInv, TypeOK, Begin
  <1>3. op'.deleted = {} /\ pc' \notin {"dropVectors", "embed", "status", "classify"}
    BY <1>1 DEF Begin, NoOp
  <1>4. DeletedOrReindexed' /\ PendingStored'
    BY <1>3 DEF DeletedOrReindexed, PendingStored
  <1>5. Evidence'
    BY <1>1, <1>3 DEF Begin, Evidence, GoneSeen, MovedSeen, AbsenceExplained, DeletionExplained
  <1>6. QED
    BY <1>2, <1>4, <1>5 DEF IInv

LEMMA AbortKeepsInv ==
  ASSUME IInv, Abort \/ StatusFails
  PROVE  IInv'
  <1> USE DEF IInv, Abort, StatusFails
  <1>1. TypeOK'
    <2>1. used' \in [DOMAIN Bounds -> Nat] /\ \A k \in DOMAIN Bounds : used'[k] <= Bounds[k]
      BY SpendKeepsBound, Kinds
    <2>2. QED
      BY <2>1, EmptyTypes DEF TypeOK
  <1>2. DeletedOrReindexed' /\ PendingStored'
    BY DEF DeletedOrReindexed, PendingStored
  <1>3. Evidence'
    BY DEF Evidence, GoneSeen, MovedSeen, AbsenceExplained, DeletionExplained
  <1>4. QED
    BY <1>1, <1>2, <1>3

-----------------------------------------------------------------------------
(* What there is to do *)

LEMMA ListTreeKeepsInv ==
  ASSUME IInv, ListTree
  PROVE  IInv'
  <1> USE DEF IInv, ListTree
  <1>1. TypeOK'
    <2>1. op' \in Ops
      BY DEF TypeOK, Ops
    <2>2. QED
      BY <2>1 DEF TypeOK
  <1>2. DeletedOrReindexed' /\ PendingStored'
    BY DEF TypeOK, Ops, DeletedOrReindexed, PendingStored
  <1>3. Evidence'
    BY DEF TypeOK, Ops, Evidence, GoneSeen, MovedSeen, AbsenceExplained, DeletionExplained
  <1>4. QED
    BY <1>1, <1>2, <1>3

LEMMA DetectDirtyKeepsInv ==
  ASSUME IInv, NEW failed \in SUBSET Files, DetectDirty(failed)
  PROVE  IInv'
  <1> DEFINE dirty == {f \in Files : disk[f] \notin {0, head[f]}}
  <1> USE DEF IInv
  <1>1. /\ op' \in Ops
        /\ op'.unhashed = failed
        /\ op'.blob = [f \in Files |-> IF f \in dirty \ failed THEN disk[f] ELSE op.blob[f]]
        /\ op'.deleted = op.deleted /\ op'.reindex = op.reindex
    BY DEF DetectDirty, TypeOK, Ops
  <1>2. TypeOK'
    <2>1. used' \in [DOMAIN Bounds -> Nat] /\ \A k \in DOMAIN Bounds : used'[k] <= Bounds[k]
      BY SpendKeepsBound, Kinds, Finite DEF DetectDirty
    <2>2. QED
      BY <1>1, <2>1 DEF TypeOK, DetectDirty
  <1>3. DeletedOrReindexed' /\ PendingStored'
    BY <1>1 DEF DeletedOrReindexed, PendingStored, DetectDirty
  <1>4. AbsenceExplained'
    <2>1. SUFFICES ASSUME NEW f \in Files, op'.blob[f] = 0
                   PROVE  f \in gone \union failed \union moved
      BY <1>1 DEF AbsenceExplained, DetectDirty
    <2>2. f \notin dirty \ failed
      BY <1>1, <2>1
    <2>3. op.blob[f] = 0
      BY <1>1, <2>1, <2>2
    <2>4. CASE disk[f] = 0
      BY <2>4 DEF DetectDirty, Evidence, GoneSeen
    <2>5. CASE disk[f] # 0 /\ f \notin failed
      (* neither deleted nor dirty: HEAD has the file, the list has not *)
      BY <2>2, <2>3, <2>5 DEF DetectDirty, Evidence, MovedSeen
    <2>6. QED
      BY <2>4, <2>5
  <1>5. Evidence'
    BY <1>4 DEF DetectDirty, Evidence, GoneSeen, MovedSeen, DeletionExplained
  <1>6. QED
    BY <1>2, <1>3, <1>5

LEMMA ClassifyKeepsInv ==
  ASSUME IInv, NEW uncertain \in SUBSET Files, Classify(uncertain)
  PROVE  IInv'
  <1> USE DEF IInv
  <1>1. used' \in [DOMAIN Bounds -> Nat] /\ \A k \in DOMAIN Bounds : used'[k] <= Bounds[k]
    BY SpendKeepsBound, Kinds, Finite DEF Classify
  <1>2. /\ UNCHANGED <<disk, head, db, tmp, gone, moved>>
        /\ quiet' \in BOOLEAN
        /\ pc = "classify"
    BY DEF Classify, TypeOK
  <1>3. CASE pc' = "idle" /\ UNCHANGED op
    BY <1>1, <1>2, <1>3 DEF TypeOK, DeletedOrReindexed, PendingStored, Evidence, GoneSeen,
         MovedSeen, AbsenceExplained, DeletionExplained
  <1>4. CASE pc' = "list" /\ op' = [NoOp EXCEPT !.kind = "build"]
    <2>1. op' \in Ops /\ op'.deleted = {}
      BY <1>4 DEF NoOp, Ops, Contents
    <2>2. QED
      BY <1>1, <1>2, <1>4, <2>1 DEF TypeOK, DeletedOrReindexed, PendingStored, Evidence,
           GoneSeen, MovedSeen, AbsenceExplained, DeletionExplained
  <1>5. CASE /\ pc' = "index"
             /\ op' = [op EXCEPT !.deleted = ToDelete(uncertain),
                                 !.reindex = ToReindex(uncertain)]
    <2>1. ToDelete(uncertain) \in SUBSET Files /\ ToReindex(uncertain) \in SUBSET Files
      BY DEF ToDelete, ToReindex, Indexable, Stored
    <2>2. /\ op' \in Ops
          /\ op'.deleted = ToDelete(uncertain) /\ op'.reindex = ToReindex(uncertain)
          /\ op'.unhashed = op.unhashed
      BY <1>5, <2>1 DEF TypeOK, Ops
    <2>3. DeletedOrReindexed' /\ PendingStored'
      BY <1>5, <2>2 DEF DeletedOrReindexed, PendingStored, ToDelete, ToReindex
    <2>4. DeletionExplained'
      BY <1>2, <2>2 DEF Evidence, GoneSeen, AbsenceExplained, DeletionExplained, ToDelete,
                        Indexable, Stored
    <2>5. QED
      BY <1>1, <1>2, <1>5, <2>2, <2>3, <2>4
      DEF TypeOK, Evidence, GoneSeen, MovedSeen, AbsenceExplained
  <1>6. QED
    BY <1>3, <1>4, <1>5 DEF Classify

LEMMA ClassifyBuildKeepsInv ==
  ASSUME IInv, NEW uncertain \in SUBSET Files, ClassifyBuild(uncertain)
  PROVE  IInv'
  <1> USE DEF IInv
  <1>1. used' \in [DOMAIN Bounds -> Nat] /\ \A k \in DOMAIN Bounds : used'[k] <= Bounds[k]
    BY SpendKeepsBound, Kinds, Finite DEF ClassifyBuild
  <1>2. op' \in Ops /\ op'.deleted = {}
    BY DEF ClassifyBuild, TypeOK, Ops, Indexable, DeletedOrReindexed
  <1>3. TypeOK'
    BY <1>1, <1>2, EmptyTypes DEF TypeOK, ClassifyBuild
  <1>4. DeletedOrReindexed' /\ PendingStored'
    BY <1>2 DEF DeletedOrReindexed, PendingStored, ClassifyBuild
  <1>5. Evidence'
    BY <1>2 DEF ClassifyBuild, Evidence, GoneSeen, MovedSeen, AbsenceExplained,
                DeletionExplained
  <1>6. QED
    BY <1>3, <1>4, <1>5

-----------------------------------------------------------------------------
(* Indexing *)

LEMMA IndexKeepsInv ==
  ASSUME IInv, NEW failed \in SUBSET Files, NEW missed \in SUBSET Files,
         Index(failed, missed)
  PROVE  IInv'
  <1> DEFINE done == Reindexed(failed)
  <1> USE DEF IInv
  <1>1. used' \in [DOMAIN Bounds -> Nat] /\ \A k \in DOMAIN Bounds : used'[k] <= Bounds[k]
    <2>1. Cardinality(failed \ Unreadable(missed)) + Cardinality(missed) \in Nat
      BY Finite
    <2>2. QED
      BY <2>1, SpendKeepsBound, Kinds DEF Index
  <1>2. done \in SUBSET Files /\ done \intersect op.deleted = {}
    BY DEF Reindexed, TypeOK, Ops, DeletedOrReindexed
  <1>3. \A f \in done : Content(f, missed) # 0
    BY DEF Reindexed, Index, Unreadable
  <1>4. \A index \in Indexes :
          /\ Indexed(index, done, missed) \in [Files -> Entries]
          /\ \A f \in done : Indexed(index, done, missed)[f] # NoEntry
    <2>1. SUFFICES ASSUME NEW index \in Indexes
                   PROVE  /\ Indexed(index, done, missed) \in [Files -> Entries]
                          /\ \A f \in done : Indexed(index, done, missed)[f] # NoEntry
      OBVIOUS
    <2>2. Indexed(index, done, missed) \in [Files -> Entries]
      BY <1>2, <1>3, IndexedType
    <2>3. QED
      BY <1>2, <1>3, <2>2 DEF Indexed, NoEntry
  <1>5. /\ UNCHANGED <<disk, head, gone, moved>>
        /\ quiet' \in BOOLEAN
        /\ pc' \in {"embed", "dropVectors"}
    BY DEF Index, TypeOK
  <1>6. CASE op.kind = "build"
    <2>1. op' \in Ops /\ op'.pending = done /\ op'.kind = "build"
          /\ op'.deleted = op.deleted /\ op'.reindex = op.reindex
      BY <1>2, <1>6 DEF Index, TypeOK, Ops
    <2>2. tmp' \in Indexes /\ tmp'.entry = Indexed(tmp, done, missed) /\ db' = db
      BY <1>4, <1>6 DEF Index, TypeOK, Indexes
    <2>3. done \subseteq Stored(tmp')
      BY <1>2, <1>4, <2>2 DEF TypeOK, Stored
    <2>4. QED
      BY <1>1, <1>5, <2>1, <2>2, <2>3
      DEF Index, TypeOK, DeletedOrReindexed, PendingStored, Evidence, GoneSeen, MovedSeen,
          AbsenceExplained, DeletionExplained, Stored
  <1>7. CASE op.kind # "build"
    <2> DEFINE old == [f \in Files |-> IF f \in done \union op.deleted THEN db.entry[f].of
                                       ELSE 0]
    <2>1. old \in [Files -> Contents]
      BY DEF TypeOK, Indexes, Entries, NoEntry, Contents
    <2>2. op' \in Ops /\ op'.pending = done /\ op'.kind = op.kind
          /\ op'.deleted = op.deleted /\ op'.reindex = op.reindex
      BY <1>2, <1>7, <2>1 DEF Index, TypeOK, Ops
    <2>3. db' \in Indexes /\ db'.entry = Indexed(db, done, missed) /\ tmp' = tmp
      BY <1>4, <1>7 DEF Index, TypeOK, Indexes
    <2>4. done \subseteq Stored(db')
      BY <1>2, <1>4, <2>3 DEF TypeOK, Stored
    <2>5. QED
      BY <1>1, <1>5, <1>7, <2>2, <2>3, <2>4
      DEF Index, TypeOK, DeletedOrReindexed, PendingStored, Evidence, GoneSeen, MovedSeen,
          AbsenceExplained, DeletionExplained, Stored
  <1>8. QED
    BY <1>6, <1>7

-----------------------------------------------------------------------------
(* Vectors and meta *)

LEMMA DropVectorsKeepsInv ==
  ASSUME IInv, DropVectors
  PROVE  IInv'
  <1> USE DEF IInv, DropVectors
  <1>1. db' \in Indexes /\ db'.entry = db.entry
    BY DEF TypeOK, Indexes
  <1>2. TypeOK'
    BY <1>1 DEF TypeOK
  <1>3. DeletedOrReindexed' /\ PendingStored'
    BY <1>1 DEF DeletedOrReindexed, PendingStored, Stored
  <1>4. Evidence'
    BY DEF Evidence, GoneSeen, MovedSeen, AbsenceExplained, DeletionExplained
  <1>5. QED
    BY <1>2, <1>3, <1>4

LEMMA EmbedKeepsInv ==
  ASSUME IInv, NEW done \in SUBSET Files, Embed \/ EmbedFails(done)
  PROVE  IInv'
  <1> USE DEF IInv
  <1>1. used' \in [DOMAIN Bounds -> Nat] /\ \A k \in DOMAIN Bounds : used'[k] <= Bounds[k]
    BY SpendKeepsBound, Kinds DEF Embed, EmbedFails, TypeOK
  <1>2. op' \in Ops /\ op'.deleted = op.deleted /\ op'.reindex = op.reindex
    BY DEF Embed, EmbedFails, TypeOK, Ops
  <1>3. db' \in Indexes /\ tmp' \in Indexes
    <2>1. op.pending \in SUBSET Files /\ db \in Indexes /\ tmp \in Indexes
      BY DEF TypeOK, Ops
    <2>2. CASE op.kind = "build"
      BY <2>1, <2>2, WithVectorsType DEF Embed, EmbedFails, PendingStored
    <2>3. CASE op.kind # "build"
      BY <2>1, <2>3, WithVectorsType DEF Embed, EmbedFails, PendingStored
    <2>4. QED
      BY <2>2, <2>3
  <1>4. TypeOK'
    BY <1>1, <1>2, <1>3 DEF TypeOK, Embed, EmbedFails
  <1>5. DeletedOrReindexed' /\ PendingStored' /\ Evidence'
    BY <1>2 DEF Embed, EmbedFails, DeletedOrReindexed, PendingStored, Evidence, GoneSeen,
                MovedSeen, AbsenceExplained, DeletionExplained
  <1>6. QED
    BY <1>4, <1>5

LEMMA EndKeepsInv ==
  ASSUME IInv, WriteMeta \/ Publish
  PROVE  IInv'
  <1> USE DEF IInv, WriteMeta, Publish
  <1>1. Marked \in SUBSET Files
    BY DEF Marked, TypeOK, Ops
  <1>2. db' \in Indexes
    BY <1>1 DEF TypeOK, Indexes
  <1>3. TypeOK'
    BY <1>2, EmptyTypes DEF TypeOK
  <1>4. DeletedOrReindexed' /\ PendingStored' /\ Evidence'
    BY DEF DeletedOrReindexed, PendingStored, Evidence, GoneSeen, MovedSeen,
           AbsenceExplained, DeletionExplained
  <1>5. QED
    BY <1>3, <1>4

-----------------------------------------------------------------------------
LEMMA StepKeepsInv == IInv /\ [Next]_vars => IInv'
  <1> SUFFICES ASSUME IInv, [Next]_vars PROVE IInv'
    OBVIOUS
  <1>1. CASE \E f \in Files, v \in Contents : Edit(f, v)
    BY <1>1, EditKeepsInv
  <1>2. CASE Commit
    BY <1>2, CommitKeepsInv
  <1>3. CASE Refresh \/ Build \/ \E fs \in SUBSET Files \ {{}} : Targeted(fs)
    BY <1>3, BeginKeepsInv
  <1>4. CASE Abort
    BY <1>4, AbortKeepsInv
  <1>5. CASE Run
    <2>1. CASE ListTree \/ StatusFails
      BY <2>1, ListTreeKeepsInv, AbortKeepsInv
    <2>2. ASSUME NEW fs \in SUBSET Files,
                 DetectDirty(fs) \/ Classify(fs) \/ ClassifyBuild(fs) \/ EmbedFails(fs)
          PROVE  IInv'
      BY <2>2, DetectDirtyKeepsInv, ClassifyKeepsInv, ClassifyBuildKeepsInv, EmbedKeepsInv
    <2>3. ASSUME NEW fs \in SUBSET Files, NEW missed \in SUBSET Files, Index(fs, missed)
          PROVE  IInv'
      BY <2>3, IndexKeepsInv
    <2>4. CASE DropVectors \/ Embed \/ WriteMeta \/ Publish
      BY <2>4, DropVectorsKeepsInv, EmbedKeepsInv, EndKeepsInv
    <2>5. QED
      BY <1>5, <2>1, <2>2, <2>3, <2>4 DEF Run
  <1>6. CASE UNCHANGED vars
    BY <1>6 DEF vars, IInv, TypeOK, DeletedOrReindexed, PendingStored, Stored, Evidence,
         GoneSeen, MovedSeen, AbsenceExplained, DeletionExplained
  <1>7. QED
    BY <1>1, <1>2, <1>3, <1>4, <1>5, <1>6 DEF Next

(* The published and the temporary index, the operation and the bounds are *)
(* well-formed in every reachable state (builder.py); in particular no     *)
(* vector is written for a file that has no chunks, and no file is indexed *)
(* from a work tree that does not have it.                                 *)
THEOREM TypeCorrect == Spec => []TypeOK
  <1>1. IInv => TypeOK
    BY DEF IInv
  <1>2. QED
    BY <1>1, InitInv, StepKeepsInv, PTL DEF Spec

(* Only phase 1 of a refresh takes entries away, those it decided to. *)
LEMMA RemovalIsDecided ==
  ASSUME IInv, [Next]_vars, NEW f \in Files, Removed(f)
  PROVE  pc = "index" /\ f \in op.deleted
  <1> USE DEF IInv
  <1>1. db.entry[f] # NoEntry /\ db'.entry[f] = NoEntry /\ op.kind # "build"
    BY DEF Removed, Stored
  <1>2. PICK failed \in SUBSET Files, missed \in SUBSET Files : Index(failed, missed)
    <2>1. CASE UNCHANGED db
      BY <1>1, <2>1
    <2>2. CASE DropVectors
      BY <1>1, <2>2 DEF DropVectors, TypeOK, Indexes
    <2>3. CASE Embed
      BY <1>1, <2>3 DEF Embed, WithVectors, TypeOK, Indexes
    <2>4. CASE WriteMeta
      BY <1>1, <2>4 DEF WriteMeta, TypeOK, Indexes
    <2>5. CASE Publish
      BY <1>1, <2>5 DEF Publish
    <2>6. QED
      BY <2>1, <2>2, <2>3, <2>4, <2>5
      DEF Next, vars, Edit, Commit, Refresh, Build, Targeted, Begin, Abort, Run, ListTree,
          StatusFails, DetectDirty, Classify, ClassifyBuild, EmbedFails
  <1>3. db'.entry = Indexed(db, Reindexed(failed), missed)
    BY <1>1, <1>2 DEF Index, TypeOK, Indexes
  <1>4. f \in Reindexed(failed) => Content(f, missed) # 0
    BY <1>2 DEF Reindexed, Index, Unreadable
  <1>5. QED
    BY <1>1, <1>2, <1>3, <1>4 DEF Index, Indexed, NoEntry

(* A refresh takes an entry out of the index only if the file was gone at  *)
(* some time since it started, or was left out by a failed hash-object, or *)
(* was committed in the meantime: a failed stat, read, chunking or git     *)
(* status does not (builder.py, _classify_candidates, _reindex_file_       *)
(* preserving), whatever the user does while it runs.                      *)
THEOREM FaultsKeepEntriesHolds == Spec => FaultsKeepEntries
  <1>1. IInv /\ [Next]_vars =>
          [\A f \in Files : Removed(f) => f \in gone \union op.unhashed \union moved]_vars
    BY RemovalIsDecided DEF IInv, Evidence, DeletionExplained
  <1>2. QED
    BY <1>1, InitInv, StepKeepsInv, PTL DEF Spec, FaultsKeepEntries

-----------------------------------------------------------------------------
(* The marker: what waits for vectors was to be re-indexed, and when an    *)
(* operation comes to its meta data with a good outcome, it has them.      *)
Coverage ==
  /\ pc \in {"dropVectors", "embed", "meta"} => op.pending \subseteq op.reindex
  /\ (pc = "meta" /\ op.vecOk /\ op.kind # "build") =>
       \A f \in op.pending : db.entry[f].of \in db.vecs[f]

LEMMA StepKeepsCoverage ==
  ASSUME IInv, Coverage, [Next]_vars
  PROVE  Coverage'
  <1> USE DEF IInv, Coverage
  <1>1. ASSUME NEW failed \in SUBSET Files, NEW missed \in SUBSET Files,
               Index(failed, missed)
        PROVE  Coverage'
    <2>1. op'.pending = Reindexed(failed) /\ op'.reindex = op.reindex
      BY <1>1 DEF Index, TypeOK, Ops
    <2>2. QED
      BY <1>1, <2>1 DEF Index, Reindexed
  <1>2. CASE DropVectors
    BY <1>2 DEF DropVectors
  <1>3. CASE Embed
    <2>1. op.pending \in SUBSET Files
      BY DEF TypeOK, Ops
    <2>2. ASSUME op.kind # "build", NEW f \in op.pending
          PROVE  db'.entry[f].of \in db'.vecs[f]
      BY <1>3, <2>1, <2>2 DEF Embed, WithVectors, TypeOK, Indexes
    <2>3. QED
      BY <1>3, <2>2 DEF Embed
  <1>4. ASSUME NEW done \in SUBSET Files, EmbedFails(done)
        PROVE  Coverage'
    <2>1. op'.pending = op.pending /\ op'.reindex = op.reindex /\ op'.vecOk = FALSE
      BY <1>4 DEF EmbedFails, TypeOK, Ops
    <2>2. QED
      BY <1>4, <2>1 DEF EmbedFails
  <1>5. CASE UNCHANGED <<op, pc, db>>
    BY <1>5
  <1>6. CASE pc' \notin {"dropVectors", "embed", "meta"}
    BY <1>6
  <1>7. QED
    BY <1>1, <1>2, <1>3, <1>4, <1>5, <1>6
    DEF Next, vars, Edit, Commit, Refresh, Build, Targeted, Begin, Abort, Run, ListTree,
        StatusFails, DetectDirty, Classify, ClassifyBuild, WriteMeta, Publish

(* An operation that stops early uses up a part of a bound, which tells it *)
(* from one that ends.                                                     *)
LEMMA AbortIsCounted ==
  ASSUME TypeOK, Abort \/ StatusFails
  PROVE  used' # used
  BY Kinds DEF TypeOK, Abort, StatusFails, Spend

(* When a refresh ends, each file it has indexed anew has vectors for its  *)
(* chunks or is in meta['vec_dirty'], whichever way the flush of the       *)
(* vectors went (builder.py, _flush_vectors and the writing of meta).      *)
THEOREM CoveredOrMarked == Spec => ReindexedIsCoveredOrMarked
  <1>1. ASSUME IInv, Coverage, [Next]_vars,
               pc = "meta", pc' = "idle", op.kind # "build", used' = used,
               NEW f \in op.pending, Uncovered(f)
        PROVE  f \in db'.vecDirty
    <2>1. WriteMeta
      BY <1>1, AbortIsCounted
      DEF IInv, Next, vars, Edit, Commit, Refresh, Build, Targeted, Begin, Run, ListTree,
          DetectDirty, Classify, ClassifyBuild, Index, DropVectors, Embed, EmbedFails,
          Publish
    <2>2. db'.vecDirty = Marked
      BY <1>1, <2>1 DEF WriteMeta, IInv, TypeOK, Indexes
    <2>3. op.vecOk = FALSE
      BY <1>1 DEF Coverage, Uncovered, IInv, TypeOK, Ops
    <2>4. QED
      BY <1>1, <2>2, <2>3 DEF Coverage, Marked
  <1>2. IInv /\ Coverage /\ [Next]_vars =>
          [(pc = "meta" /\ pc' = "idle" /\ op.kind # "build" /\ used' = used) =>
             \A f \in op.pending : Uncovered(f) => f \in db'.vecDirty]_vars
    BY <1>1
  <1>3. Init => Coverage
    BY DEF Init, Coverage
  <1>4. IInv /\ Coverage /\ [Next]_vars => IInv' /\ Coverage'
    BY StepKeepsInv, StepKeepsCoverage
  <1>5. QED
    BY <1>2, <1>3, <1>4, InitInv, PTL DEF Spec, ReindexedIsCoveredOrMarked

-----------------------------------------------------------------------------
(* The marker while nothing but embedding fails: a marked file that stays  *)
(* there is re-indexed or goes, and what is re-indexed is then all there   *)
(* to be given its vectors.                                                *)
StillMarked == {f \in Files : f \in db.vecDirty /\ f \notin gone /\ f \in Stored(db)}
Markers ==
  (op.kind = "refresh" /\ OnlyEmbeddingFailed) =>
    /\ pc = "index" =>
         /\ \A f \in op.reindex : op.blob[f] # 0
         /\ StillMarked \subseteq op.reindex \union op.deleted
    /\ pc \in {"dropVectors", "embed", "meta"} => StillMarked \subseteq op.pending

LEMMA NothingSpent ==
  ASSUME TypeOK, NEW kind \in {"faults", "crashes", "targeted"}, NEW n \in Nat, Spend(kind, n),
         OnlyEmbeddingFailed'
  PROVE  n = 0 /\ OnlyEmbeddingFailed
  <1>1. /\ used.faults \in Nat /\ used.crashes \in Nat /\ used.targeted \in Nat
        /\ n \in Nat
    BY Kinds DEF TypeOK
  <1>2. used' = [used EXCEPT ![kind] = used[kind] + n]
    BY DEF Spend
  <1>3. /\ kind = "faults" => used'.faults = used.faults + n /\ used'.crashes = used.crashes
                                /\ used'.targeted = used.targeted
        /\ kind = "crashes" => used'.faults = used.faults /\ used'.crashes = used.crashes + n
                                /\ used'.targeted = used.targeted
        /\ kind = "targeted" => used'.faults = used.faults /\ used'.crashes = used.crashes
                                /\ used'.targeted = used.targeted + n
    BY <1>2, Kinds DEF TypeOK
  <1>4. used'.faults + used'.crashes + used'.targeted = 0
    BY DEF OnlyEmbeddingFailed
  <1>5. n = 0 /\ used.faults = 0 /\ used.crashes = 0 /\ used.targeted = 0
    <2>1. PICK a \in Nat, b \in Nat, c \in Nat :
            a = used.faults /\ b = used.crashes /\ c = used.targeted
      BY <1>1
    <2>2. \/ (a + n) + b + c = 0 \/ a + (b + n) + c = 0 \/ a + b + (c + n) = 0
      BY <1>3, <1>4, <2>1
    <2>3. n = 0 /\ a = 0 /\ b = 0 /\ c = 0
      BY <2>2
    <2>4. QED
      BY <2>1, <2>3
  <1>6. QED
    BY <1>5 DEF OnlyEmbeddingFailed

LEMMA OtherSpent ==
  ASSUME TypeOK, NEW kind \in {"edits", "embedFails", "builds"}, NEW n \in Nat, Spend(kind, n),
         OnlyEmbeddingFailed'
  PROVE  OnlyEmbeddingFailed
  BY Kinds DEF TypeOK, Spend, OnlyEmbeddingFailed

LEMMA EmptyWhenZero ==
  ASSUME NEW S \in SUBSET Files, Cardinality(S) = 0
  PROVE  S = {}
  BY VersionsAssumption, FS_Subset, FS_EmptySet

(* What has not failed by a step has not failed before.                    *)
LEMMA FailuresStay ==
  ASSUME TypeOK, [Next]_vars, OnlyEmbeddingFailed'
  PROVE  OnlyEmbeddingFailed
  <1>1. CASE UNCHANGED used
    BY <1>1 DEF OnlyEmbeddingFailed
  <1>2. CASE (\E kind \in {"edits", "embedFails", "builds"} : Spend(kind, 1))
    BY <1>2, OtherSpent
  <1>3. CASE (\E kind \in {"faults", "crashes", "targeted"} : Spend(kind, 1))
    BY <1>3, NothingSpent
  <1>4. CASE (\E S \in SUBSET Files : Spend("faults", Cardinality(S)))
    BY <1>4, NothingSpent, Finite
  <1>5. CASE (\E failed \in SUBSET Files, missed \in SUBSET Files : Index(failed, missed))
    <2>1. PICK failed \in SUBSET Files, missed \in SUBSET Files : Index(failed, missed)
      BY <1>5
    <2>2. Cardinality(failed \ Unreadable(missed)) + Cardinality(missed) \in Nat
      BY Finite
    <2>3. QED
      BY <2>1, <2>2, NothingSpent DEF Index
  <1>6. QED
    BY <1>1, <1>2, <1>3, <1>4, <1>5
    DEF Next, vars, Edit, Commit, Refresh, Build, Targeted, Abort, Run, ListTree, StatusFails,
        DetectDirty, Classify, ClassifyBuild, DropVectors, Embed, EmbedFails, WriteMeta, Publish

LEMMA ClassifyKeepsMarkers ==
  ASSUME IInv, NEW uncertain \in SUBSET Files, Classify(uncertain)
  PROVE  Markers'
  <1> SUFFICES ASSUME op'.kind = "refresh", OnlyEmbeddingFailed', pc' = "index"
               PROVE  /\ \A f \in op'.reindex : op'.blob[f] # 0
                      /\ StillMarked' \subseteq op'.reindex \union op'.deleted
    BY DEF Markers, Classify
  <1>1. uncertain = {}
    BY NothingSpent, EmptyWhenZero, Finite DEF IInv, Classify
  <1>2. /\ op'.deleted = ToDelete({}) /\ op'.reindex = ToReindex({}) /\ op'.blob = op.blob
        /\ db' = db /\ gone' = gone
    BY <1>1 DEF Classify, IInv, TypeOK, Ops
  <1>3. StillMarked' = StillMarked
    BY <1>2 DEF StillMarked, Stored
  <1>4. QED
    BY <1>2, <1>3 DEF StillMarked, ToDelete, ToReindex, Indexable

LEMMA IndexKeepsMarkers ==
  ASSUME IInv, Markers, NEW failed \in SUBSET Files, NEW missed \in SUBSET Files,
         Index(failed, missed)
  PROVE  Markers'
  <1>0. pc' \in {"dropVectors", "embed"} /\ op'.kind = op.kind
    BY DEF Index, IInv, TypeOK, Ops
  <1> SUFFICES ASSUME op'.kind = "refresh", OnlyEmbeddingFailed', NEW f \in StillMarked'
               PROVE  f \in op'.pending
    BY <1>0 DEF Markers
  <1>1. /\ op.kind = "refresh" /\ op'.pending = Reindexed(failed)
        /\ db'.entry = Indexed(db, Reindexed(failed), missed)
        /\ db'.vecDirty = db.vecDirty /\ gone' = gone
    <2>1. op.kind = "refresh" /\ op'.pending = Reindexed(failed) /\ gone' = gone
      BY <1>0 DEF Index, IInv, TypeOK, Ops
    <2>2. db' = [db EXCEPT !.entry = Indexed(db, Reindexed(failed), missed)]
      BY <2>1 DEF Index
    <2>3. QED
      BY <2>1, <2>2 DEF IInv, TypeOK, Indexes
  <1>2. failed \subseteq Unreadable(missed) /\ missed = {} /\ OnlyEmbeddingFailed
    <2>1. Cardinality(failed \ Unreadable(missed)) \in Nat /\ Cardinality(missed) \in Nat
      BY Finite
    <2>2. /\ Cardinality(failed \ Unreadable(missed)) + Cardinality(missed) = 0
          /\ OnlyEmbeddingFailed
      BY <2>1, NothingSpent DEF IInv, Index
    <2>3. Cardinality(failed \ Unreadable(missed)) = 0 /\ Cardinality(missed) = 0
      BY <2>1, <2>2
    <2>4. failed \ Unreadable(missed) = {} /\ missed = {}
      BY <2>3, EmptyWhenZero
    <2>5. QED
      BY <2>2, <2>4
  <1>3. f \in Files /\ f \in db.vecDirty /\ f \notin gone /\ db'.entry[f] # NoEntry
    BY <1>1 DEF StillMarked, Stored
  <1>4. f \notin op.deleted
    BY <1>1, <1>3 DEF Indexed
  <1>5. f \in op.reindex
    <2>1. CASE f \in Reindexed(failed)
      BY <2>1 DEF Reindexed
    <2>2. CASE f \notin Reindexed(failed)
      <3>1. f \in Stored(db)
        BY <1>1, <1>3, <1>4, <2>2 DEF Indexed, Stored
      <3>2. QED
        BY <1>1, <1>2, <1>3, <1>4, <3>1 DEF Markers, StillMarked, Index
    <2>3. QED
      BY <2>1, <2>2
  <1>6. Content(f, missed) # 0
    (* a dirty file is read as it is, and is there; any other has a blob *)
    BY <1>1, <1>2, <1>3, <1>5 DEF Markers, Content, Index, IInv, Evidence, GoneSeen
  <1>7. QED
    BY <1>1, <1>2, <1>5, <1>6 DEF Reindexed, Unreadable

LEMMA VectorsKeepMarkers ==
  ASSUME IInv, Markers, DropVectors \/ Embed \/ \E done \in SUBSET Files : EmbedFails(done),
         OnlyEmbeddingFailed' => OnlyEmbeddingFailed
  PROVE  Markers'
  <1>1. /\ op'.kind = op.kind /\ op'.pending = op.pending /\ gone' = gone
        /\ pc \in {"dropVectors", "embed"} /\ pc' \in {"embed", "meta"}
    BY DEF DropVectors, Embed, EmbedFails, IInv, TypeOK, Ops
  <1>2. db'.entry = db.entry /\ db'.vecDirty = db.vecDirty
    BY DEF DropVectors, Embed, EmbedFails, WithVectors, IInv, TypeOK, Indexes
  <1>3. StillMarked' = StillMarked
    BY <1>1, <1>2 DEF StillMarked, Stored
  <1>4. QED
    BY <1>1, <1>3 DEF Markers

LEMMA StepKeepsMarkers ==
  ASSUME IInv, Markers, [Next]_vars
  PROVE  Markers'
  <1>1. OnlyEmbeddingFailed' => OnlyEmbeddingFailed
    BY FailuresStay DEF IInv
  <1>2. CASE UNCHANGED <<op, pc, db>> /\ gone \subseteq gone'
    <2>1. StillMarked' \subseteq StillMarked
      BY <1>2 DEF StillMarked, Stored
    <2>2. QED
      BY <1>1, <1>2, <2>1 DEF Markers
  <1>3. CASE pc' \notin {"index", "dropVectors", "embed", "meta"}
    BY <1>3 DEF Markers
  <1>4. CASE op'.kind # "refresh"
    BY <1>4 DEF Markers
  <1>5. ASSUME NEW uncertain \in SUBSET Files, Classify(uncertain) PROVE Markers'
    BY <1>5, ClassifyKeepsMarkers
  <1>6. ASSUME NEW failed \in SUBSET Files, NEW missed \in SUBSET Files, Index(failed, missed)
        PROVE  Markers'
    BY <1>6, IndexKeepsMarkers
  <1>7. CASE DropVectors \/ Embed \/ \E done \in SUBSET Files : EmbedFails(done)
    BY <1>1, <1>7, VectorsKeepMarkers
  <1>8. ASSUME NEW fs, Targeted(fs) PROVE op'.kind # "refresh"
    BY <1>8 DEF Targeted, Begin, NoOp
  <1>9. ASSUME NEW uncertain \in SUBSET Files, ClassifyBuild(uncertain) PROVE op'.kind # "refresh"
    BY <1>9 DEF ClassifyBuild, IInv, TypeOK, Ops
  <1>10. QED
    BY <1>2, <1>3, <1>4, <1>5, <1>6, <1>7, <1>8, <1>9
    DEF Next, vars, Edit, Commit, Refresh, Build, Begin, Abort, Run, ListTree, StatusFails,
        DetectDirty, WriteMeta, Publish

(* As long as nothing but embedding fails, a full refresh that ends leaves *)
(* a file that was marked, and stayed in the work tree, with vectors or    *)
(* marked again (builder.py, _vec_dirty_paths: it "never permanently drops *)
(* vector coverage").                                                      *)
THEOREM MarkersAreKept == Spec => MarkersKept
  <1>1. ASSUME IInv, Coverage, Markers, [Next]_vars,
               pc = "meta", pc' = "idle", op.kind = "refresh", OnlyEmbeddingFailed',
               NEW f \in db.vecDirty \ gone, Uncovered(f)
        PROVE  f \in db'.vecDirty
    <2>1. OnlyEmbeddingFailed
      BY <1>1, FailuresStay DEF IInv
    <2>2. ~Abort
      <3>1. ASSUME Abort PROVE 1 = 0
        BY <1>1, <3>1, NothingSpent DEF Abort, IInv
      <3>2. QED
        BY <3>1
    <2>3. WriteMeta
      BY <1>1, <2>2
      DEF Next, vars, Edit, Commit, Refresh, Build, Targeted, Begin, Run, ListTree, StatusFails,
          DetectDirty, Classify, ClassifyBuild, Index, DropVectors, Embed, EmbedFails, Publish
    <2>4. db'.vecDirty = Marked
      BY <2>3 DEF WriteMeta, IInv, TypeOK, Indexes
    <2>5. f \in op.pending
      BY <1>1, <2>1 DEF Markers, StillMarked, Uncovered, Stored
    <2>6. op.vecOk = FALSE
      BY <1>1, <2>5 DEF Coverage, Uncovered, IInv, TypeOK, Ops
    <2>7. QED
      BY <1>1, <2>4, <2>5, <2>6 DEF Coverage, Marked
  <1>2. IInv /\ Coverage /\ Markers /\ [Next]_vars =>
          [(pc = "meta" /\ pc' = "idle" /\ op.kind = "refresh" /\ OnlyEmbeddingFailed') =>
             \A f \in db.vecDirty \ gone : Uncovered(f) => f \in db'.vecDirty]_vars
    BY <1>1
  <1>3. Init => Coverage /\ Markers
    BY DEF Init, Coverage, Markers
  <1>4. IInv /\ Coverage /\ Markers /\ [Next]_vars => IInv' /\ Coverage' /\ Markers'
    BY StepKeepsInv, StepKeepsCoverage, StepKeepsMarkers
  <1>5. QED
    BY <1>2, <1>3, <1>4, InitInv, PTL DEF Spec, MarkersKept

-----------------------------------------------------------------------------
(* What a full operation that nothing has disturbed knows at each place:   *)
(* the listed tree is HEAD's, with the dirty files merged in it is the     *)
(* work tree, what it left out is as it should be, and then so is all.     *)
Settled(entry, f) == entry.of = disk[f] \/ entry.sha \notin {0, entry.of}
Listed == \A f \in Files : disk[f] # 0 => op.blob[f] = disk[f]
Decided ==
  /\ Listed
  /\ \A f \in op.deleted : disk[f] = 0
  /\ \A f \in op.reindex : disk[f] # 0
  /\ LET index == IF op.kind = "build" THEN tmp ELSE db
     IN  \A f \in Files \ (op.deleted \union op.reindex) : Settled(index.entry[f], f)

Converging ==
  quiet /\ op.kind # "targeted" =>
    /\ pc = "status" => op.blob = head
    /\ pc = "classify" => Listed
    /\ pc = "index" => Decided
    /\ pc = "dropVectors" => op.kind = "refresh"
    /\ pc \in {"dropVectors", "embed", "meta"} =>
         LET index == IF op.kind = "build" THEN tmp ELSE db
         IN  \A f \in Files : Settled(index.entry[f], f)
    /\ pc = "idle" /\ op # NoOp => \A f \in Files : Settled(db.entry[f], f)

LEMMA DetectionConverges ==
  ASSUME IInv, Converging,
         ListTree \/ \E failed \in SUBSET Files : DetectDirty(failed)
  PROVE  Converging'
  <1> USE DEF IInv, TypeOK, Ops
  <1>1. CASE ListTree
    <2>1. op'.blob = head /\ op'.kind = op.kind
      BY <1>1 DEF ListTree
    <2>2. QED
      BY <1>1, <2>1 DEF ListTree, Converging
  <1>2. ASSUME NEW failed \in SUBSET Files, DetectDirty(failed), quiet', op'.kind # "targeted"
        PROVE  Listed'
    <2> DEFINE dirty == {f \in Files : disk[f] \notin {0, head[f]}}
    <2>1. quiet /\ failed = {} /\ op.kind # "targeted"
      BY <1>2 DEF DetectDirty
    <2>2. op.blob = head
      BY <1>2, <2>1 DEF Converging, DetectDirty
    <2>3. op'.blob = [f \in Files |-> IF f \in dirty THEN disk[f] ELSE head[f]]
      BY <1>2, <2>1, <2>2 DEF DetectDirty
    <2>4. QED
      BY <1>2, <2>3 DEF DetectDirty, Listed
  <1>3. ASSUME NEW failed \in SUBSET Files, DetectDirty(failed)
        PROVE  Converging'
    <2>1. pc' = "classify"
      BY <1>3 DEF DetectDirty
    <2>2. QED
      BY <1>2, <1>3, <2>1 DEF Converging
  <1>4. QED
    BY <1>1, <1>3

(* What a refresh neither deletes nor indexes has its entry, or a torn one.*)
LEMMA UnchangedIsSettled ==
  ASSUME IInv, Listed, NEW f \in Files \ (ToDelete({}) \union ToReindex({}))
  PROVE  Settled(db.entry[f], f)
  <1> USE DEF IInv, TypeOK
  <1>1. CASE f \in Indexable({})
    <2>1. disk[f] # 0 /\ db.entry[f].sha = op.blob[f] /\ op.blob[f] = disk[f]
      BY <1>1 DEF ToReindex, Indexable, Listed
    <2>2. QED
      BY <2>1 DEF Settled
  <1>2. CASE f \notin Indexable({})
    <2>1. db.entry[f] = NoEntry
      BY <1>2 DEF ToDelete, Stored
    <2>2. disk[f] = 0
      BY <1>2 DEF Indexable, Listed
    <2>3. QED
      BY <2>1, <2>2 DEF Settled, NoEntry
  <1>3. QED
    BY <1>1, <1>2

LEMMA ClassifyConverges ==
  ASSUME IInv, Converging, NEW uncertain \in SUBSET Files, Classify(uncertain)
  PROVE  Converging'
  <1> USE DEF IInv, TypeOK, Ops
  <1> SUFFICES ASSUME quiet' PROVE Converging'
    BY DEF Converging
  <1>1. /\ quiet /\ uncertain = {} /\ op.kind = "refresh" /\ pc = "classify"
        /\ UNCHANGED <<disk, head, db, tmp>>
    BY DEF Classify
  <1>2. Listed
    BY <1>1 DEF Converging
  <1> DEFINE deleted == ToDelete({})
             reindex == ToReindex({})
  <1>3. deleted \in SUBSET Files /\ reindex \in SUBSET Files
    BY DEF ToDelete, ToReindex, Indexable, Stored
  <1>4. \A f \in Files \ (deleted \union reindex) : Settled(db.entry[f], f)
    BY <1>1, <1>2, UnchangedIsSettled
  <1>5. CASE Cardinality(deleted) + Cardinality(reindex) = 0 /\ pc' = "idle" /\ UNCHANGED op
    <2>1. deleted = {} /\ reindex = {}
      <3>1. IsFiniteSet(deleted) /\ IsFiniteSet(reindex)
        BY <1>3, VersionsAssumption, FS_Subset
      <3>2. Cardinality(deleted) = 0 /\ Cardinality(reindex) = 0
        BY <1>3, <1>5, Finite
      <3>3. QED
        BY <3>1, <3>2, FS_EmptySet
    <2>2. QED
      BY <1>1, <1>4, <1>5, <2>1 DEF Converging, Settled
  <1>6. CASE pc' = "list"
    BY <1>6 DEF Converging
  <1>7. CASE pc' = "index" /\ op' = [op EXCEPT !.deleted = deleted, !.reindex = reindex]
    <2>1. /\ op'.deleted = deleted /\ op'.reindex = reindex
          /\ op'.kind = "refresh" /\ op'.blob = op.blob
      BY <1>1, <1>7
    <2>2. /\ \A f \in deleted : disk[f] = 0
          /\ \A f \in reindex : disk[f] # 0
      BY <1>2 DEF ToDelete, ToReindex, Indexable, Listed, Stored
    <2>3. Decided'
      BY <1>1, <1>2, <1>4, <2>1, <2>2 DEF Decided, Listed, Settled
    <2>4. QED
      BY <1>7, <2>3 DEF Converging
  <1>8. QED
    BY <1>1, <1>5, <1>6, <1>7 DEF Classify

LEMMA ClassifyBuildConverges ==
  ASSUME IInv, Converging, NEW uncertain \in SUBSET Files, ClassifyBuild(uncertain)
  PROVE  Converging'
  <1> USE DEF IInv, TypeOK, Ops
  <1> SUFFICES ASSUME quiet' PROVE Converging'
    BY DEF Converging
  <1>1. /\ quiet /\ uncertain = {} /\ op.kind = "build" /\ pc = "classify" /\ pc' = "index"
        /\ UNCHANGED <<disk, head, db>> /\ tmp' = EmptyIndex
    BY DEF ClassifyBuild
  <1>2. Listed
    BY <1>1 DEF Converging
  <1>3. op'.reindex = Indexable({}) /\ op'.deleted = {} /\ op'.kind = "build"
        /\ op'.blob = op.blob
    BY <1>1 DEF ClassifyBuild, DeletedOrReindexed
  <1>4. \A f \in Files : disk[f] # 0 <=> f \in Indexable({})
    BY <1>2 DEF Indexable, Listed
  <1>5. \A f \in Files : tmp'.entry[f].of = 0
    BY <1>1 DEF EmptyIndex, NoEntry
  <1>6. Decided'
    BY <1>1, <1>2, <1>3, <1>4, <1>5 DEF Decided, Listed, Settled, Indexable
  <1>7. QED
    BY <1>1, <1>6 DEF Converging

LEMMA IndexConverges ==
  ASSUME IInv, Converging, NEW failed \in SUBSET Files, NEW missed \in SUBSET Files,
         Index(failed, missed)
  PROVE  Converging'
  <1> USE DEF IInv, TypeOK, Ops
  <1> SUFFICES ASSUME quiet', op'.kind # "targeted" PROVE Converging'
    BY DEF Converging
  <1>1. /\ quiet /\ failed = {} /\ missed = {} /\ pc = "index" /\ op'.kind = op.kind
        /\ UNCHANGED <<disk, head>>
    BY DEF Index
  <1>2. Decided
    BY <1>1 DEF Converging
  <1>3. \A f \in op.reindex : Content(f, {}) = disk[f]
    BY <1>2 DEF Decided, Listed, Content
  <1>4. ASSUME NEW index, index = (IF op.kind = "build" THEN tmp ELSE db), NEW f \in Files
        PROVE  Settled(Indexed(index, op.reindex, {})[f], f)
    <2>1. CASE f \in op.deleted
      BY <2>1, <1>2 DEF Decided, Indexed, Settled, NoEntry
    <2>2. CASE f \notin op.deleted /\ f \in op.reindex
      BY <2>2, <1>3 DEF Indexed, Settled
    <2>3. CASE f \notin op.deleted /\ f \notin op.reindex
      BY <2>3, <1>2, <1>4 DEF Decided, Indexed
    <2>4. QED
      BY <2>1, <2>2, <2>3
  <1>5. Reindexed(failed) = op.reindex
    BY <1>1 DEF Reindexed
  <1>6. CASE op.kind = "build"
    <2>1. tmp'.entry = Indexed(tmp, op.reindex, {}) /\ pc' = "embed"
      BY <1>1, <1>5, <1>6 DEF Index, Indexes
    <2>2. \A f \in Files : Settled(tmp'.entry[f], f)
      BY <1>4, <1>6, <2>1
    <2>3. QED
      BY <1>1, <1>6, <2>1, <2>2 DEF Converging, Settled
  <1>7. CASE op.kind = "refresh"
    <2>1. db'.entry = Indexed(db, op.reindex, {}) /\ pc' = "dropVectors"
      BY <1>1, <1>5, <1>7 DEF Index, Indexes
    <2>2. \A f \in Files : Settled(db'.entry[f], f)
      BY <1>4, <1>7, <2>1
    <2>3. QED
      BY <1>1, <1>7, <2>1, <2>2 DEF Converging, Settled
  <1>8. QED
    BY <1>1, <1>6, <1>7

LEMMA StepKeepsConverging ==
  ASSUME IInv, Converging, [Next]_vars
  PROVE  Converging'
  <1> USE DEF IInv
  <1>1. CASE ~quiet'
    BY <1>1 DEF Converging
  <1>2. CASE pc' = "list"
    BY <1>2 DEF Converging
  <1>3. ASSUME NEW fs \in SUBSET Files, Targeted(fs)
        PROVE  Converging'
    <2>1. op'.kind = "targeted"
      BY <1>3 DEF Targeted, Begin, NoOp
    <2>2. QED
      BY <2>1 DEF Converging
  <1>4. CASE DropVectors \/ Embed \/ WriteMeta
    <2>1. db'.entry = db.entry /\ tmp'.entry = tmp.entry
      BY <1>4 DEF DropVectors, Embed, WriteMeta, WithVectors, TypeOK, Indexes
    <2>2. UNCHANGED <<disk, op, quiet>>
      BY <1>4 DEF DropVectors, Embed, WriteMeta
    <2>3. \/ pc = "dropVectors" /\ pc' = "embed"
          \/ pc = "embed" /\ pc' = "meta"
          \/ pc = "meta" /\ pc' = "idle" /\ op.kind # "build"
      BY <1>4 DEF DropVectors, Embed, WriteMeta
    <2>4. QED
      BY <2>1, <2>2, <2>3 DEF Converging, Settled
  <1>5. CASE Publish
    BY <1>5 DEF Publish, Converging, Settled
  <1>6. CASE UNCHANGED vars
    BY <1>6 DEF vars, Converging, Decided, Listed, Settled
  <1>7. QED
    BY <1>1, <1>2, <1>3, <1>4, <1>5, <1>6, DetectionConverges, ClassifyConverges,
       ClassifyBuildConverges, IndexConverges
    DEF Next, Edit, Commit, Refresh, Build, Begin, Abort, Run, StatusFails, EmbedFails

(* Whatever failed before, a refresh or build of all files that nothing    *)
(* disturbed leaves each file indexed as it is in the work tree, torn      *)
(* entries excepted (builder.py, _try_git_object_refresh and build).       *)
THEOREM Converges == Spec => []UndisturbedConverges
  <1>1. ASSUME IInv, Converging PROVE UndisturbedConverges
    BY <1>1 DEF Converging, UndisturbedConverges, Settled, Fresh, Torn
  <1>2. Init => Converging
    BY DEF Init, Converging
  <1>3. IInv /\ Converging /\ [Next]_vars => IInv' /\ Converging'
    BY StepKeepsInv, StepKeepsConverging
  <1>4. QED
    BY <1>1, <1>2, <1>3, InitInv, PTL DEF Spec
=============================================================================
