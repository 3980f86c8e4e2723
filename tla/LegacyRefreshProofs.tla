-------------------------- MODULE LegacyRefreshProofs --------------------------
(***************************************************************************)
(* Refreshes without git objects, for any files, versions and bounds: what *)
(* they find, and that no failure takes an entry out of the index.         *)
(***************************************************************************)
EXTENDS LegacyRefresh, FiniteSetTheorems, TLAPS

(* Times are of the past, so that an edit gives a file a new one, and only *)
(* a file that is there has one.                                           *)
TimesPast ==
  \A f \in Files :
    /\ time[f] <= used.edits + 1
    /\ index[f].time <= used.edits + 1
    /\ op.work[f].time <= used.edits + 1
    /\ disk[f] = 0 => time[f] = 0

(* A file that has the time it was indexed with has the content, too.      *)
TimeTells(entry, f) ==
  entry.time # 0 /\ entry.time = time[f] /\ ~entry.late => entry.of = disk[f]
TimesTell == \A f \in Files : TimeTells(index[f], f) /\ TimeTells(op.work[f], f)

(* What is lost from the transaction has been absent since the start.      *)
GoneSeen == pc # "idle" => \A f \in Files : disk[f] = 0 => f \in gone
LossExplained ==
  pc = "index" /\ op.kind # "build" =>
    \A f \in Files : index[f] # NoEntry /\ op.work[f] = NoEntry => f \in gone

(* What detection and reading rest on is still true when it is used.       *)
AlignedIsCurrent ==
  pc \in {"diff", "compare"} => aligned = {f \in Files : index[f].of = last[f]}
DetectionIsCurrent ==
  /\ pc = "diff" => ~op.byDiff /\ op.kind = "refresh"
  /\ pc = "compare" /\ op.byDiff /\ quiet => op.listed = GitDiff
  /\ pc = "compare" /\ op.kind = "build" => op.work = NoOp.work
  /\ pc \in {"diff", "compare"} => op.read = NoOp.read
  /\ pc = "index" /\ quiet => \A f \in Files : op.read[f] \in {0, disk[f]}

(* A file is as it should be after the operation, or is still to be read,  *)
(* or has been read.                                                       *)
Settled(entry, f) ==
  \/ entry.of = disk[f]
  \/ op.kind = "refresh" /\ (IF op.byDiff THEN f \notin aligned ELSE entry.late)
Underway(f) == disk[f] # 0 /\ (f \in op.todo \/ op.read[f] = disk[f])

Converging ==
  quiet /\ op.kind # "targeted" =>
    /\ pc = "index" => \A f \in Files : Underway(f) \/ Settled(op.work[f], f)
    /\ pc = "meta" =>
         \A f \in Files : Settled(IF op.kind = "build" THEN op.work[f] ELSE index[f], f)
    /\ pc = "idle" /\ op # NoOp => \A f \in Files : Settled(index[f], f)

Facts == TimesPast /\ TimesTell /\ GoneSeen /\ LossExplained /\ AlignedIsCurrent
           /\ DetectionIsCurrent /\ Converging

IInv == TypeOK /\ Facts

-----------------------------------------------------------------------------
(* Lemmas about the parts of a state *)

LEMMA Finite == \A S \in SUBSET Files : Cardinality(S) \in Nat /\ (Cardinality(S) = 0 <=> S = {})
  BY LegacyAssumption, FS_Subset, FS_CardinalityType, FS_EmptySet

LEMMA Kinds ==
  /\ DOMAIN Bounds = {"edits", "faults", "crashes", "asked"}
  /\ \A kind \in DOMAIN Bounds : Bounds[kind] \in Nat
  /\ Bounds.edits = MaxEdits
  BY LegacyAssumption DEF Bounds

LEMMA EmptyTypes == NoOp \in Ops /\ NoEntry \in Entries
  BY DEF NoOp, Ops, Entries, Contents

LEMMA EntryTypes ==
  ASSUME NEW e \in Entries
  PROVE  /\ e.of \in Contents /\ e.time \in Times /\ e.late \in BOOLEAN
         /\ e.of = 0 <=> e = NoEntry
  <1>1. 0 \in Times /\ 0 \notin Versions
    BY LegacyAssumption DEF Times
  <1>2. CASE e \in [of : Versions, time : Times, late : BOOLEAN]
    <2>1. e.of \in Versions /\ e.time \in Times /\ e.late \in BOOLEAN
      BY <1>2
    <2>2. e # NoEntry
      BY <1>1, <2>1 DEF NoEntry
    <2>3. QED
      BY <1>1, <2>1, <2>2 DEF Contents
  <1>3. CASE e = NoEntry
    BY <1>1, <1>3 DEF NoEntry, Contents
  <1>4. QED
    BY <1>2, <1>3 DEF Entries

UsedOK ==
  /\ used \in [DOMAIN Bounds -> Nat]
  /\ \A kind \in DOMAIN Bounds : used[kind] <= Bounds[kind]

LEMMA SpendKeepsBound ==
  ASSUME TypeOK, NEW kind \in DOMAIN Bounds, NEW n \in Nat, Spend(kind, n)
  PROVE  /\ UsedOK'
         /\ kind # "edits" => used'.edits = used.edits
         /\ kind = "edits" => used'.edits = used.edits + n
  BY Kinds DEF TypeOK, Spend, UsedOK

LEMMA FaultKeepsBound ==
  ASSUME TypeOK, NEW n \in Nat, Fault(n)
  PROVE  /\ UsedOK' /\ used'.edits = used.edits
         /\ quiet' \in BOOLEAN
         /\ quiet' => quiet /\ n = 0
  BY SpendKeepsBound, Kinds DEF Fault, TypeOK

LEMMA InitInv == Init => IInv
  <1> SUFFICES ASSUME Init PROVE IInv
    OBVIOUS
  <1>1. \A f \in Files : index[f] \in Entries /\ index[f].of = disk[f]
                         /\ index[f].time = time[f] /\ time[f] \in {0, 1}
    <2>1. SUFFICES ASSUME NEW f \in Files
                   PROVE  /\ index[f] \in Entries /\ index[f].of = disk[f]
                          /\ index[f].time = time[f] /\ time[f] \in {0, 1}
      OBVIOUS
    <2>2. index[f] = [of |-> disk[f], time |-> time[f], late |-> FALSE]
      BY DEF Init
    <2>3. disk[f] \in Versions \union {0} /\ time[f] = IF disk[f] = 0 THEN 0 ELSE 1
      BY DEF Init, Contents
    <2>4. 1 \in Times
      BY LegacyAssumption DEF Times
    <2>5. index[f] \in Entries
      <3>1. CASE disk[f] = 0
        BY <3>1, <2>2, <2>3 DEF Entries, NoEntry
      <3>2. CASE disk[f] # 0
        <4>1. disk[f] \in Versions /\ time[f] \in Times
          BY <3>2, <2>3, <2>4
        <4>2. QED
          BY <4>1, <2>2 DEF Entries
      <3>3. QED
        BY <3>1, <3>2
    <2>6. QED
      BY <2>2, <2>3, <2>5
  <1>2. index \in [Files -> Entries]
    BY <1>1 DEF Init
  <1>3. TypeOK
    <2>1. used \in [DOMAIN Bounds -> Nat] /\ \A k \in DOMAIN Bounds : used[k] <= Bounds[k]
      BY Kinds DEF Init
    <2>2. time \in [Files -> Times] /\ head \in [Files -> Contents]
      BY LegacyAssumption DEF Init, Times, Contents
    <2>3. QED
      BY <1>2, <2>1, <2>2, EmptyTypes DEF Init, TypeOK
  <1>4. used.edits = 0
    BY Kinds DEF Init
  <1>5. TimesPast /\ TimesTell
    BY <1>1, <1>4 DEF Init, NoOp, NoEntry, TimesPast, TimesTell, TimeTells
  <1>6. GoneSeen /\ LossExplained /\ AlignedIsCurrent /\ DetectionIsCurrent /\ Converging
    BY DEF Init, GoneSeen, LossExplained, AlignedIsCurrent, DetectionIsCurrent, Converging
  <1>7. QED
    BY <1>3, <1>5, <1>6 DEF IInv, Facts

-----------------------------------------------------------------------------
(* The user: an edit gets a time that no entry has *)

LEMMA DisturbKeeps ==
  ASSUME TypeOK, Disturb
  PROVE  /\ UsedOK' /\ used'.edits = used.edits + 1 /\ used.edits + 1 <= MaxEdits
         /\ used.edits \in Nat
         /\ quiet' = FALSE
         /\ UNCHANGED <<git, last, marked, index, op, pc, aligned>>
  <1>1. UsedOK' /\ used'.edits = used.edits + 1
    BY SpendKeepsBound, Kinds DEF Disturb
  <1>2. QED
    BY <1>1, Kinds DEF Disturb, UsedOK, TypeOK

LEMMA EditKeepsInv ==
  ASSUME IInv, NEW f \in Files, NEW v \in Contents, Edit(f, v)
  PROVE  IInv'
  <1> USE DEF IInv, Facts
  <1>1. /\ UsedOK' /\ used'.edits = used.edits + 1 /\ used.edits + 1 <= MaxEdits
        /\ used.edits \in Nat
        /\ quiet' = FALSE
        /\ UNCHANGED <<git, last, marked, index, op, pc, aligned, head, based>>
    BY DisturbKeeps DEF Edit
  <1>2. /\ disk' = [disk EXCEPT ![f] = v]
        /\ time' = [time EXCEPT ![f] = IF v = 0 THEN 0 ELSE used.edits + 2]
        /\ gone' = IF v = 0 THEN gone \union {f} ELSE gone
    BY DEF Edit
  <1>3. TypeOK'
    <2>1. (IF v = 0 THEN 0 ELSE used.edits + 2) \in Times
      BY <1>1, LegacyAssumption DEF Times
    <2>2. time' \in [Files -> Times] /\ disk' \in [Files -> Contents] /\ gone' \in SUBSET Files
      BY <1>2, <2>1 DEF TypeOK
    <2>3. QED
      BY <1>1, <2>2 DEF TypeOK, UsedOK
  <1>4. TimesPast'
    BY <1>1, <1>2, LegacyAssumption DEF TimesPast, TypeOK, Times, Ops, Entries, NoEntry
  <1>5. TimesTell'
    <2>1. SUFFICES ASSUME NEW g \in Files
                   PROVE  TimeTells(index[g], g)' /\ TimeTells(op.work[g], g)'
      BY DEF TimesTell
    <2>2. CASE g # f
      BY <2>2, <1>1, <1>2 DEF TimesTell, TimeTells, TypeOK
    <2>3. CASE g = f
      <3>1. index[f].time \in Times /\ op.work[f].time \in Times
        BY EntryTypes DEF TypeOK, Ops
      <3>2. time'[f] = 0 \/ (time'[f] > index[f].time /\ time'[f] > op.work[f].time)
        BY <3>1, <1>1, <1>2 DEF TimesPast, TypeOK, Times
      <3>3. QED
        BY <2>3, <3>1, <3>2, <1>1 DEF TimeTells, Times
    <2>4. QED
      BY <2>2, <2>3
  <1>6. GoneSeen'
    BY <1>1, <1>2 DEF GoneSeen, TypeOK
  <1>7. LossExplained' /\ AlignedIsCurrent'
    BY <1>1, <1>2 DEF LossExplained, AlignedIsCurrent
  <1>8. DetectionIsCurrent' /\ Converging'
    BY <1>1 DEF DetectionIsCurrent, Converging
  <1>9. QED
    BY <1>3, <1>4, <1>5, <1>6, <1>7, <1>8

LEMMA CommitKeepsInv ==
  ASSUME IInv, Commit \/ Rewrite
  PROVE  IInv'
  <1> USE DEF IInv, Facts
  <1>1. /\ UsedOK' /\ used'.edits = used.edits + 1 /\ used.edits \in Nat
        /\ quiet' = FALSE
        /\ UNCHANGED <<git, last, marked, index, op, pc, aligned, disk, time, gone>>
    BY DisturbKeeps DEF Commit, Rewrite
  <1>2. head' = disk /\ based' \in BOOLEAN
    BY DEF Commit, Rewrite, TypeOK
  <1>3. TypeOK'
    BY <1>1, <1>2 DEF TypeOK, UsedOK
  <1>4. TimesPast'
    BY <1>1, EntryTypes, LegacyAssumption DEF TimesPast, TypeOK, Times, Ops
  <1>5. TimesTell' /\ GoneSeen' /\ LossExplained' /\ AlignedIsCurrent'
    BY <1>1 DEF TimesTell, TimeTells, GoneSeen, LossExplained, AlignedIsCurrent
  <1>6. DetectionIsCurrent' /\ Converging'
    BY <1>1 DEF DetectionIsCurrent, Converging
  <1>7. QED
    BY <1>3, <1>4, <1>5, <1>6

-----------------------------------------------------------------------------
(* The start and the abort *)

LEMMA BeginKeepsInv ==
  ASSUME IInv, Refresh \/ Build \/ \E fs \in SUBSET Files : Targeted(fs)
  PROVE  IInv'
  <1> USE DEF IInv, Facts
  <1>1. /\ pc = "idle" /\ quiet' = TRUE /\ gone' = Files \ Present
        /\ aligned' = {f \in Files : index[f].of = last[f]}
        /\ UNCHANGED <<user, meta, index>>
    BY DEF Refresh, Build, Targeted, Begin
  <1>2. UsedOK' /\ used'.edits = used.edits
    BY SpendKeepsBound, Kinds DEF Refresh, Build, Targeted, TypeOK, UsedOK
  <1>3. /\ op' \in Ops /\ op'.byDiff = FALSE /\ op'.read = NoOp.read
        /\ \/ pc' = "diff" /\ op'.work = NoOp.work /\ op'.kind = "refresh"
           \/ pc' = "compare" /\ op'.work = NoOp.work
           \/ pc' = "index" /\ op'.kind = "targeted" /\ op'.work = index
    <2>1. CASE Refresh
      BY <2>1, EmptyTypes DEF Refresh, Begin, NoOp
    <2>2. CASE Build
      BY <2>2, EmptyTypes DEF Build, Begin, NoOp, Ops
    <2>3. ASSUME NEW fs \in SUBSET Files, Targeted(fs)
          PROVE  op' \in Ops /\ op'.byDiff = FALSE /\ op'.read = NoOp.read /\ pc' = "index"
                 /\ op'.kind = "targeted" /\ op'.work = index
      BY <2>3, EmptyTypes DEF Targeted, Begin, NoOp, Ops, TypeOK
    <2>4. QED
      BY <2>1, <2>2, <2>3
  <1>4. TypeOK'
    BY <1>1, <1>2, <1>3 DEF TypeOK, UsedOK, user, meta, Present
  <1>5. \A f \in Files : op'.work[f] = index[f] \/ op'.work[f] = NoEntry
    BY <1>3 DEF NoOp
  <1>6. TimesPast' /\ TimesTell'
    <2>1. used.edits \in Nat
      BY Kinds DEF TypeOK
    <2>2. QED
      BY <2>1, <1>1, <1>2, <1>5 DEF TimesPast, TimesTell, TimeTells, NoEntry, user
  <1>7. GoneSeen' /\ AlignedIsCurrent'
    BY <1>1 DEF GoneSeen, AlignedIsCurrent, Present, user, meta
  <1>8. LossExplained'
    BY <1>1, <1>3 DEF LossExplained
  <1>9. DetectionIsCurrent' /\ Converging'
    <2>1. \A f \in Files : op'.read[f] = 0
      BY <1>3 DEF NoOp
    <2>2. QED
      BY <2>1, <1>3 DEF DetectionIsCurrent, Converging
  <1>10. QED
    BY <1>4, <1>6, <1>7, <1>8, <1>9

LEMMA AbortKeepsInv ==
  ASSUME IInv, Abort
  PROVE  IInv'
  <1> USE DEF IInv, Facts
  <1>1. /\ pc' = "idle" /\ quiet' = FALSE
        /\ UNCHANGED <<user, meta, index, op, aligned, gone>>
        /\ UsedOK' /\ used'.edits = used.edits
    BY SpendKeepsBound, Kinds DEF Abort
  <1>2. TypeOK'
    BY <1>1 DEF TypeOK, UsedOK, user, meta
  <1>3. TimesPast' /\ TimesTell'
    BY <1>1 DEF TimesPast, TimesTell, TimeTells, user
  <1>4. GoneSeen' /\ LossExplained' /\ AlignedIsCurrent' /\ DetectionIsCurrent' /\ Converging'
    BY <1>1 DEF GoneSeen, LossExplained, AlignedIsCurrent, DetectionIsCurrent, Converging
  <1>5. QED
    BY <1>2, <1>3, <1>4

-----------------------------------------------------------------------------
(* Detection *)

LEMMA DiffKeepsInv ==
  ASSUME IInv, NEW n \in {0, 1}, Diff(n)
  PROVE  IInv'
  <1> USE DEF IInv, Facts
  <1>1. /\ UsedOK' /\ used'.edits = used.edits
        /\ quiet' \in BOOLEAN /\ (quiet' => quiet)
        /\ pc = "diff" /\ pc' = "compare"
        /\ UNCHANGED <<user, meta, index, aligned, gone>>
    BY FaultKeepsBound DEF Diff
  <1>2. /\ op' \in Ops /\ op'.work = op.work /\ op'.kind = op.kind /\ op'.read = op.read
        /\ op'.byDiff => op'.listed = GitDiff
    BY <1>1 DEF Diff, TypeOK, Ops, GitDiff, DetectionIsCurrent
  <1>3. TypeOK'
    BY <1>1, <1>2 DEF TypeOK, UsedOK, user, meta
  <1>4. TimesPast' /\ TimesTell' /\ GoneSeen' /\ LossExplained' /\ AlignedIsCurrent' /\ Converging'
    BY <1>1, <1>2 DEF TimesPast, TimesTell, TimeTells, GoneSeen, LossExplained,
           AlignedIsCurrent, Converging, user, meta
  <1>5. DetectionIsCurrent'
    <2>1. op.kind = "build" => FALSE
      BY <1>1 DEF DetectionIsCurrent
    <2>2. QED
      BY <1>1, <1>2, <2>1 DEF DetectionIsCurrent, GitDiff, user, meta
  <1>6. QED
    BY <1>3, <1>4, <1>5

(* A file that a quiet comparison leaves alone is as it should be.         *)
LEMMA ComparedIsSettled ==
  ASSUME IInv, pc = "compare", op.kind = "refresh", quiet,
         NEW f \in Files, f \notin ToUpdate({}, {}), f \notin ToDelete({})
  PROVE  Settled(index[f], f)
  <1>1. /\ index[f] \in Entries /\ disk[f] \in Contents
        /\ index[f].of = 0 <=> index[f] = NoEntry
    BY EntryTypes DEF IInv, TypeOK
  <1>2. CASE disk[f] = 0
    BY <1>1, <1>2 DEF ToDelete, Stored, Present, Settled
  <1>3. CASE disk[f] # 0 /\ op.byDiff
    <2>1. f \in Stored
      BY <1>3 DEF ToUpdate, ListedOrNew, Present
    <2>2. CASE f \in op.listed
      BY <1>3, <2>2 DEF ToUpdate, ListedOrNew, Changed, Differing, Present, Settled
    <2>3. CASE f \notin op.listed /\ f \in aligned
      <3>1. f \notin GitDiff /\ index[f].of = last[f]
        BY <1>3, <2>3 DEF IInv, Facts, DetectionIsCurrent, AlignedIsCurrent
      <3>2. last[f] # 0
        BY <1>1, <2>1, <3>1 DEF Stored
      <3>3. disk[f] = last[f]
        BY <3>1, <3>2 DEF GitDiff
      <3>4. QED
        BY <3>1, <3>3 DEF Settled
    <2>4. CASE f \notin aligned
      BY <1>3, <2>4 DEF Settled
    <2>5. QED
      BY <2>2, <2>3, <2>4
  <1>4. CASE disk[f] # 0 /\ ~op.byDiff
    <2>1. CASE SameTime(f)
      BY <1>4, <2>1 DEF SameTime, IInv, Facts, TimesTell, TimeTells, Settled
    <2>2. CASE ~SameTime(f)
      BY <1>4, <2>2 DEF ToUpdate, ListedOrNew, Changed, Differing, Present, Settled
    <2>3. QED
      BY <2>1, <2>2
  <1>5. QED
    BY <1>2, <1>3, <1>4 DEF IInv, TypeOK, Ops

LEMMA CompareTypes ==
  ASSUME TypeOK, NEW uncertain \in SUBSET Files, NEW unread \in SUBSET Files
  PROVE  /\ ToUpdate(uncertain, unread) \union Forced \in SUBSET Present
         /\ ToDelete(uncertain) \in SUBSET (Files \ Present)
         /\ Present \in SUBSET Files
         /\ [f \in Files |-> IF f \in ToDelete(uncertain) THEN NoEntry ELSE index[f]]
              \in [Files -> Entries]
  BY EmptyTypes DEF TypeOK, ToUpdate, ListedOrNew, Changed, ToDelete, Differing, Forced, Present, Stored

LEMMA CompareKeepsInv ==
  ASSUME IInv, NEW uncertain \in SUBSET Files, NEW unread \in SUBSET Files,
         Compare(uncertain, unread)
  PROVE  IInv'
  <1> DEFINE updates == ToUpdate(uncertain, unread) \union Forced
             deleted == ToDelete(uncertain)
             changes == Cardinality(updates) + Cardinality(deleted)
             work == [f \in Files |-> IF f \in deleted THEN NoEntry ELSE index[f]]
  <1> USE DEF IInv, Facts
  <1>1. /\ updates \in SUBSET Present /\ deleted \in SUBSET (Files \ Present)
        /\ Present \in SUBSET Files /\ work \in [Files -> Entries]
    BY CompareTypes
  <1>2. /\ Cardinality(uncertain) \in Nat /\ Cardinality(unread) \in Nat
        /\ Cardinality(updates) \in Nat /\ Cardinality(deleted) \in Nat
        /\ Cardinality(updates) = 0 <=> updates = {}
        /\ Cardinality(deleted) = 0 <=> deleted = {}
        /\ Cardinality(uncertain) = 0 <=> uncertain = {}
        /\ Cardinality(unread) = 0 <=> unread = {}
    BY <1>1, Finite
  <1>3. /\ UsedOK' /\ used'.edits = used.edits
        /\ quiet' \in BOOLEAN
        /\ quiet' => quiet /\ uncertain = {} /\ unread = {}
    <2>1. Fault(Cardinality(uncertain) + Cardinality(unread))
      BY DEF Compare
    <2>2. QED
      BY <1>2, <2>1, FaultKeepsBound
  <1>4. /\ pc = "compare" /\ op.kind = "refresh"
        /\ UNCHANGED <<user, meta, index, aligned, gone>>
    BY DEF Compare
  <1>5. deleted \subseteq gone
    BY <1>1, <1>4 DEF GoneSeen, Present
  <1>6. ASSUME quiet', NEW f \in Files, f \notin updates, f \notin deleted
        PROVE  Settled(index[f], f)
    BY <1>3, <1>4, <1>6, ComparedIsSettled
  <1>7. CASE changes = 0 /\ pc' = "idle" /\ UNCHANGED op
    <2>1. updates = {} /\ deleted = {}
      BY <1>2, <1>7
    <2>2. TypeOK'
      BY <1>3, <1>4, <1>7 DEF TypeOK, UsedOK, user, meta
    <2>3. TimesPast' /\ TimesTell' /\ GoneSeen' /\ LossExplained' /\ AlignedIsCurrent'
            /\ DetectionIsCurrent'
      BY <1>3, <1>4, <1>7 DEF TimesPast, TimesTell, TimeTells, GoneSeen, LossExplained,
             AlignedIsCurrent, DetectionIsCurrent, user, meta
    <2>4. Converging'
      BY <1>4, <1>6, <1>7, <2>1 DEF Converging, Settled, user
    <2>5. QED
      BY <2>2, <2>3, <2>4
  <1>8. CASE /\ changes > RebuildOver /\ pc' = "compare"
             /\ op' = [NoOp EXCEPT !.kind = "build"]
    <2>1. op' \in Ops /\ op'.byDiff = FALSE /\ op'.work = NoOp.work /\ op'.kind = "build"
      BY <1>8, EmptyTypes DEF NoOp, Ops
    <2>2. TypeOK'
      BY <1>3, <1>4, <1>8, <2>1 DEF TypeOK, UsedOK, user, meta
    <2>3. TimesPast' /\ TimesTell'
      <3>1. used.edits \in Nat
        BY Kinds DEF TypeOK
      <3>2. \A f \in Files : op'.work[f] = NoEntry
        BY <2>1 DEF NoOp
      <3>3. QED
        BY <3>1, <3>2, <1>3, <1>4 DEF TimesPast, TimesTell, TimeTells, NoEntry, user
    <2>4. GoneSeen' /\ LossExplained' /\ AlignedIsCurrent' /\ DetectionIsCurrent' /\ Converging'
      BY <1>4, <1>8, <2>1 DEF GoneSeen, LossExplained, AlignedIsCurrent, DetectionIsCurrent,
             Converging, user, meta
    <2>5. QED
      BY <2>2, <2>3, <2>4
  <1>9. CASE /\ changes \in 1 .. RebuildOver /\ pc' = "index"
             /\ op' = [op EXCEPT !.deleted = deleted, !.updates = updates, !.todo = updates,
                                 !.work = work]
    <2>1. /\ op' \in Ops /\ op'.work = work /\ op'.todo = updates /\ op'.read = op.read
          /\ op'.kind = op.kind /\ op'.byDiff = op.byDiff
      BY <1>1, <1>9 DEF TypeOK, Ops
    <2>2. TypeOK'
      BY <1>3, <1>4, <1>9, <2>1 DEF TypeOK, UsedOK, user, meta
    <2>3. \A f \in Files : op'.work[f] = IF f \in deleted THEN NoEntry ELSE index[f]
      BY <2>1
    <2>4. TimesPast' /\ TimesTell'
      <3>1. used.edits \in Nat
        BY Kinds DEF TypeOK
      <3>2. QED
        BY <3>1, <2>3, <1>3, <1>4 DEF TimesPast, TimesTell, TimeTells, NoEntry, user
    <2>5. GoneSeen' /\ AlignedIsCurrent' /\ DetectionIsCurrent'
      BY <1>4, <1>9, <2>1 DEF NoOp, GoneSeen, AlignedIsCurrent, DetectionIsCurrent, user
    <2>6. LossExplained'
      BY <1>4, <1>5, <2>3 DEF LossExplained
    <2>7. Converging'
      <3>1. ASSUME quiet', NEW f \in Files
            PROVE  (Underway(f) \/ Settled(op.work[f], f))'
        <4>1. CASE f \in updates
          BY <4>1, <1>1, <1>4, <2>1 DEF Underway, Present, user
        <4>2. CASE f \in deleted
          BY <4>2, <1>1, <1>4, <2>3 DEF Settled, NoEntry, Present, user
        <4>3. CASE f \notin updates /\ f \notin deleted
          BY <4>3, <3>1, <1>4, <1>6, <2>1, <2>3 DEF Settled, user
        <4>4. QED
          BY <4>1, <4>2, <4>3
      <3>2. QED
        BY <3>1, <1>9 DEF Converging
    <2>8. QED
      BY <2>2, <2>4, <2>5, <2>6, <2>7
  <1>10. QED
    BY <1>7, <1>8, <1>9 DEF Compare

LEMMA DiscoverKeepsInv ==
  ASSUME IInv, NEW uncertain \in SUBSET Files, Discover(uncertain)
  PROVE  IInv'
  <1> USE DEF IInv, Facts
  <1>1. /\ UsedOK' /\ used'.edits = used.edits
        /\ quiet' \in BOOLEAN
        /\ quiet' => quiet /\ uncertain = {}
    BY Finite, FaultKeepsBound DEF Discover
  <1>2. /\ pc' = "index" /\ op.kind = "build"
        /\ UNCHANGED <<user, meta, index, aligned, gone>>
        /\ op' = [op EXCEPT !.updates = Present \ uncertain, !.todo = Present \ uncertain]
    BY DEF Discover
  <1>3. /\ op' \in Ops /\ op'.work = op.work /\ op'.kind = "build" /\ op'.read = op.read
        /\ op'.todo = Present \ uncertain
    BY <1>2 DEF TypeOK, Ops, Present
  <1>4. TypeOK'
    BY <1>1, <1>2, <1>3 DEF TypeOK, UsedOK, user, meta
  <1>5. TimesPast' /\ TimesTell' /\ GoneSeen' /\ LossExplained' /\ AlignedIsCurrent'
          /\ DetectionIsCurrent'
    BY <1>1, <1>2, <1>3 DEF TimesPast, TimesTell, TimeTells, GoneSeen, LossExplained,
           AlignedIsCurrent, DetectionIsCurrent, NoOp, user, meta, Discover
  <1>6. Converging'
    <2>1. ASSUME quiet', NEW f \in Files
          PROVE  (Underway(f) \/ Settled(op.work[f], f))'
      <3>1. CASE disk[f] # 0
        BY <3>1, <2>1, <1>1, <1>2, <1>3 DEF Underway, Present, user
      <3>2. CASE disk[f] = 0
        <4>1. op'.work[f].of = 0
          BY <1>2, <1>3 DEF DetectionIsCurrent, NoOp, NoEntry, Discover
        <4>2. QED
          BY <3>2, <4>1, <1>2 DEF Settled, user
      <3>3. QED
        BY <3>1, <3>2
    <2>2. QED
      BY <2>1, <1>2 DEF Converging
  <1>7. QED
    BY <1>4, <1>5, <1>6

-----------------------------------------------------------------------------
(* The transaction *)

LEMMA ReadKeepsInv ==
  ASSUME IInv, NEW f \in Files, Read(f)
  PROVE  IInv'
  <1> USE DEF IInv, Facts, Read, InTransaction
  <1>1. /\ op' \in Ops /\ op'.work = op.work /\ op'.kind = op.kind /\ op'.byDiff = op.byDiff
        /\ op'.todo = op.todo \ {f} /\ op'.read = [op.read EXCEPT ![f] = disk[f]]
    BY DEF TypeOK, Ops
  <1>2. TypeOK'
    BY <1>1 DEF TypeOK, user, meta
  <1>3. TimesPast' /\ TimesTell' /\ GoneSeen' /\ LossExplained' /\ AlignedIsCurrent'
          /\ DetectionIsCurrent'
    BY <1>1 DEF TimesPast, TimesTell, TimeTells, GoneSeen, LossExplained, AlignedIsCurrent,
           DetectionIsCurrent, user, meta
  <1>4. Converging'
    <2>1. ASSUME NEW g \in Files, Underway(g) \/ Settled(op.work[g], g)
          PROVE  (Underway(g) \/ Settled(op.work[g], g))'
      <3>1. CASE g = f
        <4>1. disk[f] # 0 /\ op'.read[f] = disk[f]
          BY <1>1 DEF Present, TypeOK, Ops
        <4>2. QED
          BY <3>1, <4>1 DEF Underway, user
      <3>2. CASE g # f
        BY <2>1, <3>2, <1>1 DEF Underway, Settled, user, TypeOK, Ops
      <3>3. QED
        BY <3>1, <3>2
    <2>2. QED
      BY <2>1, <1>1 DEF Converging
  <1>5. QED
    BY <1>2, <1>3, <1>4

LEMMA SkipKeepsInv ==
  ASSUME IInv, NEW f \in Files, Skip(f)
  PROVE  IInv'
  <1> USE DEF IInv, Facts, InTransaction
  <1>1. /\ UsedOK' /\ used'.edits = used.edits
        /\ quiet' \in BOOLEAN
        /\ quiet' => quiet /\ disk[f] = 0
    BY FaultKeepsBound DEF Skip, Present
  <1>2. /\ op' \in Ops /\ op'.work = op.work /\ op'.kind = op.kind /\ op'.byDiff = op.byDiff
        /\ op'.todo = op.todo \ {f} /\ op'.read = op.read
        /\ pc = "index" /\ UNCHANGED <<user, meta, index, pc, aligned, gone>>
    BY DEF Skip, TypeOK, Ops
  <1>3. TypeOK'
    BY <1>1, <1>2 DEF TypeOK, UsedOK, user, meta
  <1>4. TimesPast' /\ TimesTell' /\ GoneSeen' /\ LossExplained' /\ AlignedIsCurrent'
          /\ DetectionIsCurrent'
    BY <1>1, <1>2 DEF TimesPast, TimesTell, TimeTells, GoneSeen, LossExplained,
           AlignedIsCurrent, DetectionIsCurrent, user, meta
  <1>5. Converging'
    <2>1. ASSUME quiet', NEW g \in Files, Underway(g) \/ Settled(op.work[g], g)
          PROVE  (Underway(g) \/ Settled(op.work[g], g))'
      BY <2>1, <1>1, <1>2 DEF Underway, Settled, user
    <2>2. QED
      BY <2>1, <1>1, <1>2 DEF Converging
  <1>6. QED
    BY <1>3, <1>4, <1>5

LEMMA StampKeepsInv ==
  ASSUME IInv, NEW f \in Files, NEW n \in {0, 1}, Stamp(f, n)
  PROVE  IInv'
  <1> DEFINE entry == [of |-> op.read[f],
                       time |-> IF n = 0 THEN time[f] ELSE 0,
                       late |-> n = 0 /\ disk[f] \notin {0, op.read[f]}]
  <1> USE DEF IInv, Facts, InTransaction
  <1>1. /\ UsedOK' /\ used'.edits = used.edits /\ used.edits \in Nat
        /\ quiet' \in BOOLEAN
        /\ quiet' => quiet
    BY FaultKeepsBound, Kinds DEF Stamp, TypeOK
  <1>2. /\ op.read[f] \in Versions /\ op.read[f] # 0 /\ time[f] \in Times /\ 0 \in Times
        /\ disk[f] \in Contents
    BY LegacyAssumption DEF Stamp, Reading, TypeOK, Ops, Contents, Times
  <1>3. entry \in Entries /\ entry # NoEntry
    <2>1. entry \in [of : Versions, time : Times, late : BOOLEAN]
      BY <1>2
    <2>2. entry.of # NoEntry.of
      BY <1>2 DEF NoEntry
    <2>3. QED
      BY <2>1, <2>2 DEF Entries
  <1>4. /\ op' \in Ops /\ op'.work = [op.work EXCEPT ![f] = entry]
        /\ op'.kind = op.kind /\ op'.byDiff = op.byDiff
        /\ op'.todo = op.todo /\ op'.read = [op.read EXCEPT ![f] = 0]
        /\ pc = "index" /\ UNCHANGED <<user, meta, index, pc, aligned, gone>>
    BY <1>3 DEF Stamp, TypeOK, Ops, Contents
  <1>5. op'.work[f] = entry /\ \A g \in Files \ {f} : op'.work[g] = op.work[g]
    BY <1>4 DEF TypeOK, Ops
  <1>6. TypeOK'
    BY <1>1, <1>4 DEF TypeOK, UsedOK, user, meta
  <1>7. TimesPast'
    <2>1. entry.time <= used.edits + 1
      BY <1>1 DEF TimesPast
    <2>2. QED
      BY <2>1, <1>1, <1>4, <1>5 DEF TimesPast, user
  <1>8. TimesTell'
    <2>1. TimeTells(entry, f)
      <3>1. SUFFICES ASSUME entry.time # 0, ~entry.late PROVE entry.of = disk[f]
        BY DEF TimeTells
      <3>2. n = 0 /\ time[f] # 0
        BY <3>1
      <3>3. disk[f] # 0
        BY <3>2 DEF TimesPast
      <3>4. QED
        BY <3>1, <3>2, <3>3
    <2>2. QED
      BY <2>1, <1>4, <1>5 DEF TimesTell, TimeTells, user
  <1>9. GoneSeen' /\ AlignedIsCurrent' /\ DetectionIsCurrent'
    <2>1. \A g \in Files : op'.read[g] \in {0, op.read[g]}
      BY <1>4 DEF TypeOK, Ops
    <2>2. QED
      BY <2>1, <1>1, <1>4 DEF GoneSeen, AlignedIsCurrent, DetectionIsCurrent, user
  <1>10. LossExplained'
    BY <1>3, <1>4, <1>5 DEF LossExplained
  <1>11. Converging'
    <2>1. ASSUME quiet', NEW g \in Files, Underway(g) \/ Settled(op.work[g], g)
          PROVE  (Underway(g) \/ Settled(op.work[g], g))'
      <3>1. CASE g = f /\ op.read[f] = disk[f]
        BY <3>1, <1>4, <1>5 DEF Settled, user
      <3>2. CASE g # f
        BY <3>2, <2>1, <1>4, <1>5 DEF Underway, Settled, user, TypeOK, Ops
      <3>3. op.read[f] = disk[f]
        BY <2>1, <1>1, <1>2, <1>4 DEF DetectionIsCurrent
      <3>4. QED
        BY <3>1, <3>2, <3>3
    <2>2. QED
      BY <2>1, <1>1, <1>4 DEF Converging
  <1>12. QED
    BY <1>6, <1>7, <1>8, <1>9, <1>10, <1>11

LEMMA CommitBatchKeepsInv ==
  ASSUME IInv, CommitBatch
  PROVE  IInv'
  <1> USE DEF IInv, Facts, CommitBatch
  <1>1. TypeOK'
    BY DEF TypeOK, Ops, user, meta
  <1>2. \A f \in Files : index'[f] \in {index[f], op.work[f]}
    OBVIOUS
  <1>3. TimesPast' /\ TimesTell'
    BY <1>2 DEF TimesPast, TimesTell, TimeTells, user
  <1>4. GoneSeen' /\ LossExplained' /\ AlignedIsCurrent' /\ DetectionIsCurrent'
    BY DEF GoneSeen, LossExplained, AlignedIsCurrent, DetectionIsCurrent, user
  <1>5. Converging'
    <2>1. \A f \in Files : ~Underway(f)
      BY DEF Underway, Reading
    <2>2. QED
      BY <2>1 DEF Converging, Settled, user
  <1>6. QED
    BY <1>1, <1>3, <1>4, <1>5

LEMMA WriteMetaKeepsInv ==
  ASSUME IInv, NEW n \in {0, 1}, NEW m \in {0, 1}, WriteMeta(n, m)
  PROVE  IInv'
  <1> USE DEF IInv, Facts
  <1>1. /\ UsedOK' /\ used'.edits = used.edits
        /\ quiet' \in BOOLEAN
        /\ quiet' => quiet
    BY FaultKeepsBound DEF WriteMeta
  <1>2. /\ last' = head /\ based' \in BOOLEAN /\ marked' \in SUBSET Files
        /\ index' = IF op.kind = "build" THEN op.work ELSE index
        /\ pc = "meta" /\ pc' = "idle"
        /\ UNCHANGED <<user, op, aligned, gone>>
    BY DEF WriteMeta, TypeOK, Ops
  <1>3. TypeOK'
    BY <1>1, <1>2 DEF TypeOK, UsedOK, Ops, user
  <1>4. TimesPast' /\ TimesTell'
    BY <1>1, <1>2 DEF TimesPast, TimesTell, TimeTells, user
  <1>5. GoneSeen' /\ LossExplained' /\ AlignedIsCurrent' /\ DetectionIsCurrent' /\ Converging'
    BY <1>1, <1>2 DEF GoneSeen, LossExplained, AlignedIsCurrent, DetectionIsCurrent,
           Converging, Settled, user
  <1>6. QED
    BY <1>3, <1>4, <1>5

LEMMA StutterKeepsInv ==
  ASSUME IInv, UNCHANGED vars
  PROVE  IInv'
  BY DEF IInv, Facts, TypeOK, TimesPast, TimesTell, TimeTells, GoneSeen, LossExplained,
         AlignedIsCurrent, DetectionIsCurrent, GitDiff, Converging, Settled, Underway,
         vars, user, meta

-----------------------------------------------------------------------------
LEMMA StepKeepsInv == IInv /\ [Next]_vars => IInv'
  <1> SUFFICES ASSUME IInv, [Next]_vars PROVE IInv'
    OBVIOUS
  <1>1. CASE \E f \in Files, v \in Contents : Edit(f, v)
    BY <1>1, EditKeepsInv
  <1>2. CASE Commit \/ Rewrite
    BY <1>2, CommitKeepsInv
  <1>3. CASE Refresh \/ Build \/ \E fs \in SUBSET Files \ {{}} : Targeted(fs)
    BY <1>3, BeginKeepsInv
  <1>4. CASE Run
    <2>1. CASE \E n, m \in {0, 1} : Diff(n) \/ WriteMeta(n, m)
      BY <2>1, DiffKeepsInv, WriteMetaKeepsInv
    <2>2. CASE \E fs \in SUBSET Files :
                 Discover(fs) \/ \E unread \in SUBSET Files : Compare(fs, unread)
      BY <2>2, DiscoverKeepsInv, CompareKeepsInv
    <2>3. CASE \E f \in Files : Read(f) \/ Skip(f) \/ \E n \in {0, 1} : Stamp(f, n)
      BY <2>3, ReadKeepsInv, SkipKeepsInv, StampKeepsInv
    <2>4. CASE CommitBatch
      BY <2>4, CommitBatchKeepsInv
    <2>5. QED
      BY <1>4, <2>1, <2>2, <2>3, <2>4 DEF Run
  <1>5. CASE Abort
    BY <1>5, AbortKeepsInv
  <1>6. CASE UNCHANGED vars
    BY <1>6, StutterKeepsInv
  <1>7. QED
    BY <1>1, <1>2, <1>3, <1>4, <1>5, <1>6 DEF Next

LEMMA Invariance == Spec => []IInv
  BY InitInv, StepKeepsInv, PTL DEF Spec

(* The index, what an operation has found out and the history keep their   *)
(* types.                                                                  *)
THEOREM TypeCorrect == Spec => []TypeOK
  <1>1. IInv => TypeOK
    BY DEF IInv
  <1>2. QED
    BY <1>1, Invariance, PTL

(* A refresh or build that nothing disturbed leaves every file as in the   *)
(* work tree, except for the two kinds of files that LegacyConverges names *)
(* (_detect_changes, _hash_diff).                                          *)
THEOREM Converges == Spec => []LegacyConverges
  <1>1. IInv => LegacyConverges
    <2> SUFFICES ASSUME IInv, Undisturbed, NEW f \in Files
                 PROVE  \/ Fresh(f)
                        \/ op.kind = "refresh"
                             /\ (IF op.byDiff THEN f \notin aligned ELSE index[f].late)
      BY DEF LegacyConverges
    <2>1. Settled(index[f], f)
      BY DEF IInv, Facts, Converging, Undisturbed
    <2>2. QED
      BY <2>1 DEF Settled, Fresh
  <1>2. QED
    BY <1>1, Invariance, PTL

(* No failure of a stat, a read or git takes an entry out of the index     *)
(* (_positively_absent, _classify_candidates).                             *)
THEOREM EvidenceRequired == Spec => LegacyEvidence
  <1> DEFINE Removed(f) == f \in Stored /\ f \notin Stored' /\ op.kind # "build"
  <1>1. ASSUME IInv, [Next]_vars, NEW f \in Files, Removed(f)
        PROVE  f \in gone
    <2>1. index'[f] # index[f]
      BY <1>1 DEF Stored
    <2>2. index' # index
      BY <2>1
    <2>3. CASE CommitBatch
      BY <1>1, <2>3 DEF CommitBatch, Stored, IInv, Facts, LossExplained
    <2>4. CASE \E n, m \in {0, 1} : WriteMeta(n, m)
      BY <1>1, <2>2, <2>4 DEF WriteMeta
    <2>5. QED
      BY <1>1, <2>2, <2>3, <2>4
         DEF Next, Run, Edit, Commit, Rewrite, Disturb, Refresh, Build, Targeted, Begin, Diff,
             Compare, Discover, Read, Skip, Stamp, InTransaction, Abort, vars
  <1>2. IInv /\ [Next]_vars =>
          [\A f \in Files :
             f \in Stored /\ f \notin Stored' /\ op.kind # "build" => f \in gone]_vars
    BY <1>1
  <1>3. QED
    BY <1>2, Invariance, PTL DEF Spec, LegacyEvidence
=============================================================================
