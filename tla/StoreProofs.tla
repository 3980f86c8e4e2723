------------------------------ MODULE StoreProofs ------------------------------
(* The store, for any files, versions of them, branches and bounds: whatever  *)
(* is refreshed, interrupted or refused, the index file holds whole files, a  *)
(* full-text index of its rows, and vectors that follow the chunks.  And the  *)
(* swap, for any readers and any number of builds, commits and stops: who     *)
(* opens the path gets the newest commit, and a build that is through stays.  *)
(* And the PID-file lock of the index file, for any workers, processes and    *)
(* bounds.                                                                    *)
EXTENDS IndexStore, AtomicSwap, PidLock, FiniteSetTheorems, SequenceTheorems, TLAPS

-----------------------------------------------------------------------------
(* The tables and their transactions: IndexStore.                             *)

(* A table of chunks: rows by rowid, one row an id, and a posting for each    *)
(* row, at its rowid.                                                         *)
ChunkIds == [file : Paths, text : Texts]
Row == [id : ChunkIds, labels : SUBSET Branches]
TableNames == {"rows", "fts", "links", "hashes", "active", "vecDirty", "replaced"}

RowsOK(db) ==
  /\ DOMAIN db = TableNames
  /\ db.rows \in [DOMAIN db.rows -> Row]
  /\ DOMAIN db.rows \subseteq Nat /\ IsFiniteSet(DOMAIN db.rows)
  /\ \A r, q \in DOMAIN db.rows : db.rows[r].id = db.rows[q].id => r = q

PostingsOK(db) ==
  /\ db.fts \subseteq Nat \X ChunkIds
  /\ db.replaced \in BOOLEAN
  /\ \A r \in DOMAIN db.rows : <<r, db.rows[r].id>> \in db.fts
  /\ ~db.replaced =>
       \A p \in db.fts : p[1] \in DOMAIN db.rows /\ db.rows[p[1]].id = p[2]

(* The ids of a file, in the index and by the hash it has.                    *)
IdsAt(db, f) == {id \in Ids(db) : id.file = f}
HashedIds(db, f) == IF f \in DOMAIN db.hashes THEN IdsOf(f, db.hashes[f]) ELSE {}

FilesOK(db) ==
  /\ DOMAIN db.hashes \in SUBSET Paths
  /\ db.hashes \in [DOMAIN db.hashes -> FileVersions]
  /\ \A f \in Paths : IdsAt(db, f) = HashedIds(db, f)
  /\ db.links = {"ref", "symbol"} \X Ids(db)

MetaOK(db) == db.active \in Branches \cup {""} /\ db.vecDirty \in SUBSET Paths

Sound(db) == RowsOK(db) /\ PostingsOK(db) /\ FilesOK(db) /\ MetaOK(db)

-----------------------------------------------------------------------------
(* Where the refresh is: the context managers and the transaction that go    *)
(* with each step.                                                           *)
InFile == step \in {"old", "index", "leave"}
Steps == {"idle", "begin", "files", "old", "index", "leave", "vectors", "embed", "label", "meta"}
Transacting == InBatch /\ tx # <<>>

Entry(n, db) == [name |-> n, saved |-> db]

(* The tables the refresh goes on from: in the middle of a file, those of    *)
(* the savepoint.                                                            *)
Base == IF InFile /\ tx # <<>> THEN tx[2].saved ELSE work

Stacks ==
  /\ step \in Steps
  /\ frames = IF InFile THEN <<"batch", "nested">> ELSE IF step = "files" THEN <<"batch">> ELSE <<>>
  /\ depth = IF InFile THEN 2 ELSE IF step = "files" THEN 1 ELSE 0
  /\ raising \in {"none", "chunk", "storage"}
  /\ tx = <<>> => work = disk
  /\ ~InBatch => tx = <<>> /\ raising = "none"
  /\ tx = <<>> /\ InBatch => raising = "storage"
  /\ raising = "chunk" => step = "index" /\ tx # <<>>
  /\ tx # <<>> =>
       IF InFile THEN tx = <<Entry(0, disk), Entry(1, Base)>> ELSE tx = <<Entry(0, disk)>>

InFileWork ==
  Transacting =>
    /\ step = "old" => work = Base
    /\ step = "index" => work = Purge(Base, job.current)
    /\ step = "leave" =>
         /\ job.current \in DOMAIN job.tree
         /\ work = IndexContent(Purge(Base, job.current), job.current, job.tree[job.current], job.branch)

(* The work of the refresh.                                                  *)
JobFields == {"kind", "branch", "tree", "listed", "redo", "delete", "reindex", "label",
              "current", "failed", "old", "new", "exact", "embedded"}
Pending == job.delete \cup job.reindex \cup (IF InFile THEN {job.current} ELSE {})
Finished == job.listed \ (Pending \cup job.failed)

JobTyped ==
  /\ job.branch \in Branches
  /\ DOMAIN job.tree \in SUBSET Paths /\ job.tree \in [DOMAIN job.tree -> FileVersions]
  /\ job.listed \in SUBSET Paths /\ job.redo \in SUBSET job.listed /\ job.label \in SUBSET Paths
  /\ job.old \in SUBSET ChunkIds /\ job.new \in SUBSET ChunkIds
  /\ job.exact \in BOOLEAN /\ job.embedded \in BOOLEAN

JobFiles ==
  /\ job.delete \in SUBSET (job.listed \ DOMAIN job.tree)
  /\ job.reindex \in SUBSET job.redo
  /\ job.delete \cap job.reindex = {} /\ job.label \cap job.listed = {}
  /\ InFile => job.current \in job.redo \ (job.reindex \cup job.delete)
  /\ job.failed \in SUBSET (job.listed \ Pending)
  /\ \A id \in job.old \cup job.new : id.file \in Finished

JobStep ==
  /\ step \in {"vectors", "embed", "label", "meta"} => Pending = {}
  /\ InFile => job.delete = {}
  /\ step = "label" => job.listed = {}
  /\ step \in {"vectors", "embed", "meta"} => job.label = {}
  /\ step = "begin" => job.failed = {} /\ job.old = {} /\ job.new = {} /\ Pending = job.listed

JobOK == DOMAIN job = JobFields /\ JobStep /\ (step # "idle" => JobTyped /\ JobFiles)

(* Files the refresh is through with are as in the tree, the others as they  *)
(* were when it began.                                                       *)
HashAt(db, f) == Restrict(db.hashes, {f} \cap DOMAIN db.hashes)
TreeAt(f) == Restrict(job.tree, {f} \cap DOMAIN job.tree)
Same(db, f) == IdsAt(db, f) = IdsAt(disk, f) /\ HashAt(db, f) = HashAt(disk, f)

Progress ==
  Transacting => \A f \in Paths : IF f \in Finished THEN HashAt(Base, f) = TreeAt(f) ELSE Same(Base, f)

(* The chunks that went and came are known to the vectors.                   *)
VectorsOK ==
  /\ vecs \in SUBSET ChunkIds
  /\ job.exact =>
       /\ step \in {"begin", "files", "old", "index", "leave", "label"} => vecs = Ids(disk)
       /\ Transacting => Ids(Base) = (Ids(disk) \ job.old) \cup job.new
       /\ step = "vectors" => Ids(disk) = (vecs \ job.old) \cup job.new
       /\ step = "embed" => Ids(disk) = vecs \cup job.new
       /\ step = "meta" /\ job.embedded => Ids(disk) = vecs

(* What a finished refresh labels: files it did, and by git objects all.     *)
Labelled(db) ==
  \A r \in DOMAIN db.rows :
    LET f == db.rows[r].id.file
    IN  f \in Finished \/ (job.kind = "git" /\ f \notin job.listed \cup job.label)
          => job.branch \in db.rows[r].labels

LabelsOK ==
  /\ Transacting => Labelled(Base)
  /\ step \in {"begin", "vectors", "embed", "label", "meta"} => Labelled(disk)

StoreInv ==
  /\ Sound(disk) /\ Sound(work) /\ Sound(Base)
  /\ Stacks /\ InFileWork /\ JobOK /\ Progress /\ VectorsOK /\ LabelsOK
-----------------------------------------------------------------------------
(* Induction, with sets in the place of predicates: the smaller sets of      *)
(* FiniteSetTheorems are well-founded.                                       *)

(* A set of numbers with 0 and every successor has all of them.              *)
LEMMA NatInductionSet ==
  ASSUME NEW T \in SUBSET Nat, 0 \in T, \A n \in T : n + 1 \in T
  PROVE  T = Nat
<1> DEFINE Missed == {0 .. n : n \in Nat \ T}
<1>1. SUFFICES ASSUME Nat \ T # {} PROVE FALSE
  OBVIOUS
<1>2. Missed # {} /\ Missed \subseteq FiniteSubsetsOf(Nat)
  <2>1. \A n \in Nat : IsFiniteSet(0 .. n)
    BY FS_Interval
  <2> QED
    BY <1>1, <2>1 DEF FiniteSubsetsOf
<1>3. PICK s \in Missed : \A t \in Missed : <<t, s>> \notin StrictSubsetOrdering(Nat)
  <2> HIDE DEF Missed
  <2> QED
    BY <1>2, WFMin, FS_StrictSubsetOrderingWellFounded
<1>4. PICK n \in Nat \ T : s = 0 .. n
  OBVIOUS
<1>5. n - 1 \in Nat \ T
  <2>1. n # 0 /\ (n - 1) + 1 = n
    OBVIOUS
  <2> QED
    BY <2>1
<1>6. <<0 .. (n - 1), 0 .. n>> \in StrictSubsetOrdering(Nat)
  BY <1>5 DEF StrictSubsetOrdering
<1> QED
  BY <1>3, <1>4, <1>5, <1>6

(* A finite set of numbers has a greatest one.                               *)
LEMMA MaxOfFinite ==
  ASSUME NEW S \in SUBSET Int, IsFiniteSet(S), S # {}
  PROVE  Max(S) \in S /\ \A y \in S : y <= Max(S)
<1> DEFINE T == {n \in Nat : \A U \in SUBSET S :
                   Cardinality(U) = n /\ IsFiniteSet(U) /\ U # {} =>
                     \E x \in U : \A y \in U : x >= y}
<1>1. 0 \in T
  BY FS_EmptySet
<1>2. ASSUME NEW n \in T PROVE n + 1 \in T
  <2>1. SUFFICES ASSUME NEW U \in SUBSET S, Cardinality(U) = n + 1, IsFiniteSet(U), U # {}
                 PROVE  \E x \in U : \A y \in U : x >= y
    OBVIOUS
  <2>2. PICK x \in U : TRUE
    BY <2>1
  <2>3. IsFiniteSet(U \ {x}) /\ Cardinality(U \ {x}) = n
    <3>1. IsFiniteSet(U \ {x}) /\ Cardinality(U \ {x}) = Cardinality(U) - 1
      BY <2>1, <2>2, FS_RemoveElement
    <3> QED
      BY <2>1, <3>1
  <2>4. CASE U \ {x} = {}
    BY <2>2, <2>4
  <2>5. CASE U \ {x} # {}
    <3>1. PICK z \in U \ {x} : \A y \in U \ {x} : z >= y
      BY <2>3, <2>5
    <3>2. CASE x >= z
      BY <3>1, <3>2, <2>2
    <3>3. CASE ~(x >= z)
      BY <3>1, <3>3, <2>2
    <3> QED
      BY <3>2, <3>3
  <2> QED
    BY <2>4, <2>5
<1>3. T = Nat
  <2> HIDE DEF T
  <2>1. T \in SUBSET Nat
    BY DEF T
  <2> QED
    BY <1>1, <1>2, <2>1, NatInductionSet
<1>4. Cardinality(S) \in T
  BY <1>3, FS_CardinalityType
<1>5. \E x \in S : \A y \in S : x >= y
  BY <1>4
<1> QED
  BY <1>5 DEF Max

(* The recursion behind FoldLeft has a solution.                             *)
IsFold(g, db, ids, present, branch, n) ==
  g = [s \in SUBSET (1 .. n) |->
         IF s = {} THEN db ELSE InsertChunk(g[s \ {Max(s)}], ids[Max(s)], present, branch)]

LEMMA FoldIsThere ==
  ASSUME NEW db, NEW n \in Nat, NEW ids, NEW present, NEW branch
  PROVE  \E g : IsFold(g, db, ids, present, branch, n)
<1> USE DEF IsFold
<1> DEFINE D(k) == {s \in SUBSET (1 .. n) : Cardinality(s) <= k}
           Body(g, s) == IF s = {} THEN db
                         ELSE InsertChunk(g[s \ {Max(s)}], ids[Max(s)], present, branch)
           T == {k \in Nat : \E g : g = [s \in D(k) |-> Body(g, s)]}
<1>0. \A s \in SUBSET (1 .. n) : IsFiniteSet(s) /\ Cardinality(s) \in Nat /\ Cardinality(s) <= n
  <2>1. IsFiniteSet(1 .. n) /\ Cardinality(1 .. n) = n
    BY FS_Interval
  <2> QED
    BY <2>1, FS_Subset, FS_CardinalityType
<1>1. 0 \in T
  <2>1. \A s \in D(0) : s = {}
    BY <1>0, FS_EmptySet
  <2> DEFINE h == [s \in D(0) |-> db]
  <2>2. h = [s \in D(0) |-> Body(h, s)]
    BY <2>1
  <2> QED
    BY <2>2
<1>2. ASSUME NEW k \in T PROVE k + 1 \in T
  <2>1. PICK g : g = [s \in D(k) |-> Body(g, s)]
    OBVIOUS
  <2> DEFINE h == [s \in D(k + 1) |-> Body(g, s)]
  <2>2. \A s \in D(k + 1) : s # {} => s \ {Max(s)} \in D(k)
    <3>1. SUFFICES ASSUME NEW s \in D(k + 1), s # {} PROVE s \ {Max(s)} \in D(k)
      OBVIOUS
    <3>2. Max(s) \in s
      BY <1>0, <3>1, MaxOfFinite
    <3>3. Cardinality(s \ {Max(s)}) = Cardinality(s) - 1
      BY <1>0, <3>1, <3>2, FS_RemoveElement
    <3>4. s \in SUBSET (1 .. n) /\ Cardinality(s) <= k + 1 /\ Cardinality(s) \in Nat
      BY <1>0
    <3>5. k \in Nat
      OBVIOUS
    <3> HIDE DEF T, h
    <3>6. Cardinality(s \ {Max(s)}) <= k
      BY <3>3, <3>4, <3>5
    <3> QED
      BY <3>4, <3>6
  <2>3. \A s \in D(k) : s \in D(k + 1) /\ h[s] = g[s]
    <3>1. D(k) \subseteq D(k + 1)
      BY <1>0
    <3>2. \A s \in D(k) : g[s] = Body(g, s)
      <4> HIDE DEF Body, D
      <4> QED
        BY <2>1
    <3> HIDE DEF Body, D
    <3> QED
      BY <3>1, <3>2
  <2>4. \A s \in D(k + 1) : Body(h, s) = Body(g, s)
    <3> HIDE DEF h, D
    <3> QED
      BY <2>2, <2>3
  <2>5. h = [s \in D(k + 1) |-> Body(h, s)]
    <3> DEFINE hh == [s \in D(k+1) |-> Body(h, s)]
    <3> SUFFICES h = hh
      OBVIOUS
    <3> HIDE DEF Body, D
    <3> QED
      BY <2>4
  <2> HIDE DEF h
  <2>6. \E gg : gg = [s \in D(k + 1) |-> Body(gg, s)]
    BY <2>5
  <2> HIDE DEF D, Body
  <2> QED
    BY <2>6
<1>3. n \in T
  <2> HIDE DEF T
  <2>1. T \in SUBSET Nat
    BY DEF T
  <2> QED
    BY <1>1, <1>2, <2>1, NatInductionSet
<1>4. D(n) = SUBSET (1 .. n)
  BY <1>0
<1> QED
  BY <1>3, <1>4

(* InsertChunks takes the chunks one after the other.                        *)
Stepwise(after, db, ids, branch) ==
  /\ after[0] = db
  /\ \A k \in 1 .. Len(ids) :
       after[k] = InsertChunk(after[k - 1], ids[k], Ids(db), branch)
  /\ InsertChunks(db, ids, branch) = after[Len(ids)]

LEMMA InsertChunksStepwise ==
  ASSUME NEW db, NEW ids \in Seq(ChunkIds), NEW branch
  PROVE  \E after : Stepwise(after, db, ids, branch)
<1>1. PICK n \in Nat : n = Len(ids) /\ DOMAIN ids = 1 .. n
  BY LenProperties
<1> DEFINE fold == CHOOSE g : IsFold(g, db, ids, Ids(db), branch, n)
           after == [k \in 0 .. n |-> fold[1 .. k]]
<1>2. IsFold(fold, db, ids, Ids(db), branch, n)
  BY FoldIsThere
<1>3. InsertChunks(db, ids, branch) = fold[1 .. n]
  <2>1. InsertChunks(db, ids, branch) = fold[DOMAIN ids]
    BY <1>1 DEF InsertChunks, FoldLeft, MapThenFoldSet, IsFold
  <2> QED
    BY <1>1, <2>1
<1> HIDE DEF fold
<1>4. after[0] = db
  BY <1>1, <1>2 DEF IsFold
<1>5. ASSUME NEW k \in 1 .. n
      PROVE  after[k] = InsertChunk(after[k - 1], ids[k], Ids(db), branch)
  <2>1. k \in Nat /\ k - 1 \in Nat /\ k <= n /\ k >= 1
    BY <1>1
  <2>2. 1 .. k \in SUBSET (1 .. n)
    BY <1>1, <2>1
  <2>3. 1 .. k \in SUBSET Int /\ IsFiniteSet(1 .. k) /\ k \in 1 .. k
    BY <2>1, FS_Interval
  <2>4. Max(1 .. k) \in 1 .. k /\ k <= Max(1 .. k)
    BY <2>3, MaxOfFinite
  <2>5. Max(1 .. k) = k
    BY <2>1, <2>4
  <2>6. (1 .. k) \ {k} = 1 .. (k - 1)
    BY <2>1
  <2>7. fold[1 .. k] = InsertChunk(fold[1 .. (k - 1)], ids[k], Ids(db), branch)
    BY <1>2, <2>2, <2>3, <2>5, <2>6 DEF IsFold
  <2>8. k \in 0 .. n /\ k - 1 \in 0 .. n
    BY <1>1, <2>1
  <2> QED
    BY <2>7, <2>8
<1>6. after[n] = fold[1 .. n]
  BY <1>1
<1> HIDE DEF after
<1>7. Stepwise(after, db, ids, branch)
  BY <1>1, <1>3, <1>4, <1>5, <1>6 DEF Stepwise
<1> QED
  BY <1>7

-----------------------------------------------------------------------------
(* The tables.                                                               *)

LEMMA NothingIsAFunction == DOMAIN <<>> = {} /\ \A S : <<>> \in [{} -> S]
<1>1. ASSUME NEW S PROVE DOMAIN <<>> = {} /\ <<>> \in [{} -> S]
  <2>1. <<>> \in Seq(S) /\ Len(<<>>) = 0
    BY EmptySeq
  <2>2. DOMAIN <<>> = 1 .. 0 /\ <<>> \in [1 .. 0 -> S]
    BY <2>1, LenProperties
  <2>3. 1 .. 0 = {}
    OBVIOUS
  <2> QED
    BY <2>2, <2>3
<1> QED
  BY <1>1

LEMMA EmptyIsSound == Sound(Empty)
<1> DEFINE E == Empty
<1>1. /\ DOMAIN E = TableNames /\ E.rows = <<>> /\ E.fts = {} /\ E.links = {} /\ E.hashes = <<>>
      /\ E.active = "" /\ E.vecDirty = {} /\ E.replaced = FALSE
  BY DEF Empty, TableNames
<1>2. DOMAIN E.rows = {} /\ DOMAIN E.hashes = {} /\ Ids(E) = {}
  BY <1>1, NothingIsAFunction DEF Ids
<1>3. E.rows \in [{} -> Row] /\ E.hashes \in [{} -> FileVersions]
  BY <1>1, NothingIsAFunction
<1> HIDE DEF E
<1>4. RowsOK(E)
  BY <1>1, <1>2, <1>3, FS_EmptySet DEF RowsOK
<1>5. PostingsOK(E) /\ MetaOK(E)
  BY <1>1, <1>2 DEF PostingsOK, MetaOK
<1>6. FilesOK(E)
  BY <1>1, <1>2, <1>3 DEF FilesOK, IdsAt, HashedIds
<1> QED
  BY <1>4, <1>5, <1>6 DEF Sound, E

LEMMA IdsTyped ==
  ASSUME NEW db, RowsOK(db)
  PROVE  /\ Ids(db) \subseteq ChunkIds
         /\ \A r \in DOMAIN db.rows : db.rows[r] \in Row /\ db.rows[r].id \in Ids(db)
BY DEF RowsOK, Ids, Row

(* The next row is a new one.                                                *)
LEMMA NextRowIsNew ==
  ASSUME NEW db, RowsOK(db)
  PROVE  NextRow(db) \in Nat /\ NextRow(db) \notin DOMAIN db.rows
<1> DEFINE S == {0} \cup DOMAIN db.rows
<1>1. S \in SUBSET Int /\ S \subseteq Nat /\ IsFiniteSet(S) /\ S # {}
  <2> DEFINE R == DOMAIN db.rows
  <2>0. IsFiniteSet(R)
    BY DEF RowsOK
  <2>1. IsFiniteSet(R \cup {0})
    <3> HIDE DEF R
    <3> QED
      BY <2>0, FS_AddElement
  <2>2. S = R \cup {0}
    OBVIOUS
  <2>3. R \subseteq Nat
    BY DEF RowsOK
  <2> HIDE DEF R, S
  <2> QED
    BY <2>1, <2>2, <2>3
<1>2. Max(S) \in S /\ \A y \in S : y <= Max(S)
  BY <1>1, MaxOfFinite
<1>3. NextRow(db) = 1 + Max(S)
  BY DEF NextRow
<1> HIDE DEF S
<1>4. NextRow(db) \in Nat /\ NextRow(db) \notin S
  <2>1. PICK m \in Nat : m = Max(S) /\ \A y \in S : y <= m
    BY <1>1, <1>2
  <2>2. 1 + m \notin S
    BY <2>1
  <2> QED
    BY <1>3, <2>1, <2>2
<1> QED
  BY <1>4 DEF S

LEMMA WithIs ==
  ASSUME NEW fn, NEW key, NEW value
  PROVE  /\ DOMAIN With(fn, key, value) = DOMAIN fn \cup {key}
         /\ With(fn, key, value)[key] = value
         /\ \A k \in DOMAIN fn \ {key} : With(fn, key, value)[k] = fn[k]
BY DEF With

(* Deleting rows takes their postings along and leaves the others.           *)
LEMMA DropRowsKeeps ==
  ASSUME NEW db, RowsOK(db), PostingsOK(db), NEW rs \in SUBSET DOMAIN db.rows,
         NEW d, d = DropRows(db, rs)
  PROVE  /\ RowsOK(d) /\ PostingsOK(d)
         /\ DOMAIN d.rows = DOMAIN db.rows \ rs
         /\ \A r \in DOMAIN d.rows : d.rows[r] = db.rows[r]
         /\ d.links = db.links /\ d.hashes = db.hashes /\ d.active = db.active
         /\ d.vecDirty = db.vecDirty
<1>1. /\ DOMAIN d = TableNames
      /\ d.rows = Without(db.rows, rs) /\ d.fts = db.fts \ {<<r, db.rows[r].id>> : r \in rs}
      /\ d.links = db.links /\ d.hashes = db.hashes /\ d.active = db.active
      /\ d.vecDirty = db.vecDirty /\ d.replaced = db.replaced
  BY DEF DropRows, RowsOK, TableNames
<1>2. /\ DOMAIN d.rows = DOMAIN db.rows \ rs
      /\ \A r \in DOMAIN d.rows : d.rows[r] = db.rows[r]
  BY <1>1 DEF Without, Restrict
<1>3. d.rows \in [DOMAIN d.rows -> Row]
  BY <1>1, <1>2 DEF RowsOK, Without, Restrict
<1>4. IsFiniteSet(DOMAIN d.rows)
  BY <1>2, FS_Subset DEF RowsOK
<1>5. RowsOK(d)
  BY <1>1, <1>2, <1>3, <1>4 DEF RowsOK
<1>6. \A r \in DOMAIN d.rows : <<r, d.rows[r].id>> \in d.fts
  BY <1>1, <1>2 DEF PostingsOK
<1>7. ASSUME ~d.replaced, NEW p \in d.fts
      PROVE  p[1] \in DOMAIN d.rows /\ d.rows[p[1]].id = p[2]
  <2>1. p \in db.fts /\ p[1] \in DOMAIN db.rows /\ db.rows[p[1]].id = p[2]
    BY <1>1, <1>7 DEF PostingsOK
  <2>2. p = <<p[1], p[2]>>
    BY <2>1 DEF PostingsOK
  <2>3. p[1] \notin rs
    BY <1>1, <2>1, <2>2
  <2> QED
    BY <1>2, <2>1, <2>3
<1>8. PostingsOK(d)
  BY <1>1, <1>6, <1>7 DEF PostingsOK
<1> QED
  BY <1>1, <1>2, <1>5, <1>8

(* Purging a file removes what the file has, and nothing else.               *)
LEMMA PurgeKeeps ==
  ASSUME NEW db, Sound(db), NEW f \in Paths, NEW p, p = Purge(db, f)
  PROVE  /\ Sound(p)
         /\ Ids(p) = Ids(db) \ IdsAt(db, f)
         /\ \A g \in Paths : g # f => IdsAt(p, g) = IdsAt(db, g) /\ HashAt(p, g) = HashAt(db, g)
         /\ IdsAt(p, f) = {} /\ f \notin DOMAIN p.hashes
         /\ DOMAIN p.rows \subseteq DOMAIN db.rows
         /\ \A r \in DOMAIN p.rows : p.rows[r] = db.rows[r]
<1> DEFINE rs == RowsOf(db, f)
           d == DropRows(db, rs)
<1>0. rs \in SUBSET DOMAIN db.rows
  BY DEF RowsOf
<1>1. /\ RowsOK(d) /\ PostingsOK(d)
      /\ DOMAIN d.rows = DOMAIN db.rows \ rs
      /\ \A r \in DOMAIN d.rows : d.rows[r] = db.rows[r]
      /\ d.links = db.links /\ d.hashes = db.hashes /\ d.active = db.active
      /\ d.vecDirty = db.vecDirty
  BY <1>0, DropRowsKeeps DEF Sound
<1> HIDE DEF d
<1>2. /\ DOMAIN p = TableNames /\ p.rows = d.rows /\ p.fts = d.fts /\ p.replaced = d.replaced
      /\ p.links = {l \in d.links : l[2].file # f} /\ p.hashes = Without(d.hashes, {f})
      /\ p.active = d.active /\ p.vecDirty = d.vecDirty
  BY <1>1 DEF Purge, DeleteHash, DeleteChunks, d, RowsOK, TableNames
<1>3. RowsOK(p) /\ PostingsOK(p)
  BY <1>1, <1>2 DEF RowsOK, PostingsOK
<1>4. Ids(p) = {id \in Ids(db) : id.file # f}
  BY <1>1, <1>2 DEF Ids, RowsOf
<1>5. Ids(p) = Ids(db) \ IdsAt(db, f)
  BY <1>4 DEF IdsAt
<1>6. DOMAIN p.hashes = DOMAIN db.hashes \ {f} /\ \A g \in DOMAIN p.hashes : p.hashes[g] = db.hashes[g]
  BY <1>1, <1>2 DEF Without, Restrict
<1>7. p.hashes \in [DOMAIN p.hashes -> FileVersions]
  BY <1>1, <1>2, <1>6 DEF Sound, FilesOK, Without, Restrict
<1>8. \A g \in Paths : g # f => IdsAt(p, g) = IdsAt(db, g) /\ HashAt(p, g) = HashAt(db, g)
  <2>1. \A g \in Paths : g # f => IdsAt(p, g) = IdsAt(db, g)
    BY <1>4 DEF IdsAt
  <2>2. ASSUME NEW g \in Paths, g # f
        PROVE  HashAt(p, g) = HashAt(db, g)
    <3>1. {g} \cap DOMAIN p.hashes = {g} \cap DOMAIN db.hashes
      BY <1>6, <2>2
    <3>2. \A k \in {g} \cap DOMAIN p.hashes : p.hashes[k] = db.hashes[k]
      BY <1>6
    <3> QED
      BY <3>1, <3>2 DEF HashAt, Restrict
  <2> QED
    BY <2>1, <2>2
<1>9. IdsAt(p, f) = {}
  BY <1>4 DEF IdsAt
<1>10. FilesOK(p)
  <2>1. \A g \in Paths : IdsAt(p, g) = HashedIds(p, g)
    <3>1. \A g \in Paths : g # f => HashedIds(p, g) = HashedIds(db, g)
      BY <1>6 DEF HashedIds
    <3>2. HashedIds(p, f) = {}
      BY <1>6 DEF HashedIds
    <3> QED
      BY <1>8, <1>9, <3>1, <3>2 DEF Sound, FilesOK
  <2>2. p.links = {"ref", "symbol"} \X Ids(p)
    BY <1>1, <1>2, <1>4 DEF Sound, FilesOK
  <2> QED
    BY <1>6, <1>7, <2>1, <2>2 DEF Sound, FilesOK
<1>11. MetaOK(p)
  BY <1>1, <1>2 DEF Sound, MetaOK
<1> QED
  BY <1>1, <1>2, <1>3, <1>5, <1>6, <1>8, <1>9, <1>10, <1>11 DEF Sound

(* A label more changes neither the ids nor anything but labels.             *)
LEMMA AddLabelKeepsRows ==
  ASSUME NEW db, RowsOK(db), PostingsOK(db), NEW rs, NEW b \in Branches,
         NEW d, d = AddLabel(db, rs, b)
  PROVE  /\ RowsOK(d) /\ PostingsOK(d)
         /\ DOMAIN d.rows = DOMAIN db.rows /\ Ids(d) = Ids(db)
         /\ \A r \in DOMAIN d.rows :
              /\ d.rows[r].id = db.rows[r].id
              /\ r \in rs => b \in d.rows[r].labels
              /\ db.rows[r].labels \subseteq d.rows[r].labels
              /\ r \notin rs => d.rows[r] = db.rows[r]
         /\ d.links = db.links /\ d.hashes = db.hashes /\ d.active = db.active
         /\ d.vecDirty = db.vecDirty
<1> DEFINE labelled(r) == [id |-> db.rows[r].id, labels |-> db.rows[r].labels \cup IF r \in rs THEN {b} ELSE {}]
<1>1. /\ DOMAIN d = TableNames /\ d.fts = db.fts /\ d.replaced = db.replaced
      /\ d.rows = [r \in DOMAIN db.rows |-> labelled(r)]
      /\ d.links = db.links /\ d.hashes = db.hashes /\ d.active = db.active
      /\ d.vecDirty = db.vecDirty
  BY DEF AddLabel, RowsOK, TableNames
<1>2. \A r \in DOMAIN db.rows :
        /\ db.rows[r] \in Row /\ labelled(r) \in Row
        /\ labelled(r).id = db.rows[r].id /\ db.rows[r].labels \subseteq labelled(r).labels
        /\ r \in rs => b \in labelled(r).labels
        /\ r \notin rs => labelled(r) = db.rows[r]
  BY DEF RowsOK, Row
<1> HIDE DEF labelled
<1>3. /\ DOMAIN d.rows = DOMAIN db.rows
      /\ d.rows \in [DOMAIN d.rows -> Row]
      /\ \A r \in DOMAIN d.rows :
           /\ d.rows[r].id = db.rows[r].id
           /\ r \in rs => b \in d.rows[r].labels
           /\ db.rows[r].labels \subseteq d.rows[r].labels
           /\ r \notin rs => d.rows[r] = db.rows[r]
  BY <1>1, <1>2
<1>4. RowsOK(d)
  <2>1. DOMAIN d.rows \subseteq Nat /\ IsFiniteSet(DOMAIN d.rows)
    BY <1>3 DEF RowsOK
  <2>2. \A r, q \in DOMAIN d.rows : d.rows[r].id = d.rows[q].id => r = q
    BY <1>3 DEF RowsOK
  <2> QED
    BY <1>1, <1>3, <2>1, <2>2 DEF RowsOK
<1>5. PostingsOK(d)
  BY <1>1, <1>3 DEF PostingsOK
<1>6. Ids(d) = Ids(db)
  BY <1>3 DEF Ids
<1> QED
  BY <1>1, <1>3, <1>4, <1>5, <1>6

LEMMA AddLabelKeeps ==
  ASSUME NEW db, Sound(db), NEW rs, NEW b \in Branches, NEW d, d = AddLabel(db, rs, b)
  PROVE  /\ Sound(d)
         /\ Ids(d) = Ids(db) /\ \A f \in Paths : IdsAt(d, f) = IdsAt(db, f)
         /\ d.hashes = db.hashes /\ \A f \in Paths : HashAt(d, f) = HashAt(db, f)
<1>1. /\ RowsOK(d) /\ PostingsOK(d) /\ Ids(d) = Ids(db)
      /\ d.links = db.links /\ d.hashes = db.hashes /\ d.active = db.active
      /\ d.vecDirty = db.vecDirty
  BY AddLabelKeepsRows DEF Sound
<1> QED
  BY <1>1 DEF Sound, FilesOK, MetaOK, IdsAt, HashedIds, HashAt

(* A new row takes the place of one with the same id; if it does, the index  *)
(* is marked as one in which that has happened.                              *)
LEMMA InsertRowKeeps ==
  ASSUME NEW db, RowsOK(db), PostingsOK(db), NEW id \in ChunkIds, NEW b \in Branches,
         NEW d, d = InsertRow(db, id, b)
  PROVE  /\ RowsOK(d) /\ PostingsOK(d)
         /\ Ids(d) = Ids(db) \cup {id}
         /\ \A r \in DOMAIN d.rows :
              \/ d.rows[r].id = id /\ b \in d.rows[r].labels
              \/ r \in DOMAIN db.rows /\ d.rows[r] = db.rows[r]
         /\ d.links \subseteq db.links /\ \A l \in db.links : l[2] # id => l \in d.links
         /\ d.hashes = db.hashes /\ d.active = db.active /\ d.vecDirty = db.vecDirty
<1> DEFINE n == NextRow(db)
           same == {q \in DOMAIN db.rows : db.rows[q].id = id}
           row == [id |-> id, labels |-> {b}]
<1>1. n \in Nat /\ n \notin DOMAIN db.rows
  BY NextRowIsNew
<1>2. row \in Row /\ row.id = id /\ row.labels = {b}
  BY DEF Row
<1>3. /\ DOMAIN d = TableNames
      /\ d.rows = With(Without(db.rows, same), n, row)
      /\ d.fts = db.fts \cup {<<n, id>>}
      /\ d.links = {l \in db.links : same = {} \/ l[2] # id}
      /\ d.replaced = (db.replaced \/ same # {})
      /\ d.hashes = db.hashes /\ d.active = db.active /\ d.vecDirty = db.vecDirty
  BY DEF InsertRow, RowsOK, TableNames
<1> HIDE DEF n, row
<1>4. /\ DOMAIN d.rows = (DOMAIN db.rows \ same) \cup {n}
      /\ d.rows[n] = row
      /\ \A r \in DOMAIN db.rows \ same : d.rows[r] = db.rows[r]
  BY <1>1, <1>3 DEF With, Without, Restrict
<1>5. RowsOK(d)
  <2>1. d.rows \in [DOMAIN d.rows -> Row]
    <3>1. d.rows = [k \in DOMAIN d.rows |-> d.rows[k]]
      BY <1>3 DEF With
    <3>2. \A r \in DOMAIN d.rows : d.rows[r] \in Row
      BY <1>2, <1>4 DEF RowsOK
    <3> QED
      BY <3>1, <3>2
  <2>2. IsFiniteSet(DOMAIN d.rows)
    <3> DEFINE rest == DOMAIN db.rows \ same
    <3>1. IsFiniteSet(rest)
      BY FS_Subset DEF RowsOK
    <3> HIDE DEF rest
    <3>2. IsFiniteSet(rest \cup {n})
      BY <3>1, FS_AddElement
    <3> QED
      BY <1>4, <3>2 DEF rest
  <2>3. \A r, q \in DOMAIN d.rows : d.rows[r].id = d.rows[q].id => r = q
    BY <1>2, <1>4 DEF RowsOK
  <2>4. DOMAIN d.rows \subseteq Nat
    BY <1>1, <1>4 DEF RowsOK
  <2> QED
    BY <1>3, <2>1, <2>2, <2>3, <2>4 DEF RowsOK
<1>6. PostingsOK(d)
  <2>1. d.fts \subseteq Nat \X ChunkIds
    BY <1>1, <1>3 DEF PostingsOK
  <2>2. \A r \in DOMAIN d.rows : <<r, d.rows[r].id>> \in d.fts
    BY <1>2, <1>3, <1>4 DEF PostingsOK
  <2>3. ASSUME ~d.replaced, NEW p \in d.fts
        PROVE  p[1] \in DOMAIN d.rows /\ d.rows[p[1]].id = p[2]
    <3>1. same = {} /\ ~db.replaced
      BY <1>3, <2>3 DEF PostingsOK
    <3>2. CASE p = <<n, id>>
      BY <1>2, <1>4, <3>2
    <3>3. CASE p \in db.fts
      BY <1>4, <3>1, <3>3 DEF PostingsOK
    <3> QED
      BY <1>3, <3>2, <3>3
  <2>4. d.replaced \in BOOLEAN
    BY <1>3 DEF PostingsOK
  <2> QED
    BY <2>1, <2>2, <2>3, <2>4 DEF PostingsOK
<1>7. Ids(d) = Ids(db) \cup {id}
  <2>1. \A r \in DOMAIN d.rows : d.rows[r].id \in Ids(db) \cup {id}
    BY <1>2, <1>4 DEF Ids
  <2>2. id \in Ids(d)
    BY <1>2, <1>4 DEF Ids
  <2>3. \A r \in DOMAIN db.rows : db.rows[r].id \in Ids(d) \cup {id}
    BY <1>4 DEF Ids
  <2> QED
    BY <2>1, <2>2, <2>3 DEF Ids
<1>8. \A r \in DOMAIN d.rows :
        \/ d.rows[r].id = id /\ b \in d.rows[r].labels
        \/ r \in DOMAIN db.rows /\ d.rows[r] = db.rows[r]
  BY <1>2, <1>4
<1> QED
  BY <1>3, <1>5, <1>6, <1>7, <1>8

(* What the loop of insert_chunks has made of db when the chunks of done are *)
(* in.                                                                       *)
Inserted(db, done, b, d) ==
  /\ RowsOK(d) /\ PostingsOK(d)
  /\ Ids(d) = Ids(db) \cup done
  /\ \A r \in DOMAIN d.rows :
       \/ d.rows[r].id \in done /\ b \in d.rows[r].labels
       \/ r \in DOMAIN db.rows /\ d.rows[r] = db.rows[r]
  /\ d.links \subseteq db.links /\ \A l \in db.links : l[2] \notin done => l \in d.links
  /\ d.hashes = db.hashes /\ d.active = db.active /\ d.vecDirty = db.vecDirty

LEMMA InsertChunkKeeps ==
  ASSUME NEW db, NEW acc, NEW done, NEW b \in Branches, Inserted(db, done, b, acc),
         NEW id \in ChunkIds, NEW d, d = InsertChunk(acc, id, Ids(db), b)
  PROVE  Inserted(db, done \cup {id}, b, d)
<1>1. CASE id \in Ids(db)
  <2> DEFINE rs == {r \in DOMAIN acc.rows : acc.rows[r].id = id}
  <2>1. d = AddLabel(acc, rs, b)
    BY <1>1 DEF InsertChunk
  <2>2. /\ RowsOK(d) /\ PostingsOK(d)
        /\ DOMAIN d.rows = DOMAIN acc.rows /\ Ids(d) = Ids(acc)
        /\ \A r \in DOMAIN d.rows :
             /\ d.rows[r].id = acc.rows[r].id
             /\ r \in rs => b \in d.rows[r].labels
             /\ acc.rows[r].labels \subseteq d.rows[r].labels
             /\ r \notin rs => d.rows[r] = acc.rows[r]
        /\ d.links = acc.links /\ d.hashes = acc.hashes /\ d.active = acc.active
        /\ d.vecDirty = acc.vecDirty
    <3> HIDE DEF rs
    <3> QED
      BY <2>1, AddLabelKeepsRows DEF Inserted
  <2>3. \A r \in DOMAIN d.rows :
          \/ d.rows[r].id \in done \cup {id} /\ b \in d.rows[r].labels
          \/ r \in DOMAIN db.rows /\ d.rows[r] = db.rows[r]
    BY <2>2 DEF Inserted
  <2>4. Ids(d) = Ids(db) \cup (done \cup {id})
    BY <1>1, <2>2 DEF Inserted
  <2> QED
    BY <2>2, <2>3, <2>4 DEF Inserted
<1>2. CASE id \notin Ids(db)
  <2>1. d = InsertRow(acc, id, b)
    BY <1>2 DEF InsertChunk
  <2>2. /\ RowsOK(d) /\ PostingsOK(d)
        /\ Ids(d) = Ids(acc) \cup {id}
        /\ \A r \in DOMAIN d.rows :
             \/ d.rows[r].id = id /\ b \in d.rows[r].labels
             \/ r \in DOMAIN acc.rows /\ d.rows[r] = acc.rows[r]
        /\ d.links \subseteq acc.links /\ \A l \in acc.links : l[2] # id => l \in d.links
        /\ d.hashes = acc.hashes /\ d.active = acc.active /\ d.vecDirty = acc.vecDirty
    BY <2>1, InsertRowKeeps DEF Inserted
  <2> QED
    BY <2>2 DEF Inserted
<1> QED
  BY <1>1, <1>2

(* The whole loop.                                                           *)
LEMMA InsertChunksKeeps ==
  ASSUME NEW db, RowsOK(db), PostingsOK(db), NEW ids \in Seq(ChunkIds), NEW b \in Branches
  PROVE  Inserted(db, Range(ids), b, InsertChunks(db, ids, b))
<1>0. PICK after : Stepwise(after, db, ids, b)
  BY InsertChunksStepwise
<1>1. /\ after[0] = db
      /\ \A k \in 1 .. Len(ids) : after[k] = InsertChunk(after[k - 1], ids[k], Ids(db), b)
      /\ InsertChunks(db, ids, b) = after[Len(ids)]
  BY <1>0 DEF Stepwise
<1>2. PICK n \in Nat : n = Len(ids) /\ DOMAIN ids = 1 .. n /\ \A k \in 1 .. n : ids[k] \in ChunkIds
  BY LenProperties
<1> DEFINE Done(k) == {ids[j] : j \in 1 .. k}
           T == {k \in Nat : k <= n => Inserted(db, Done(k), b, after[k])}
<1>3. 0 \in T
  <2>1. Done(0) = {}
    OBVIOUS
  <2>2. Inserted(db, {}, b, db)
    BY DEF Inserted
  <2> QED
    BY <1>1, <2>1, <2>2
<1>4. ASSUME NEW k \in T PROVE k + 1 \in T
  <2>0. k \in Nat /\ (k <= n => Inserted(db, Done(k), b, after[k]))
    <3> HIDE DEF Done
    <3> QED
      OBVIOUS
  <2>1. SUFFICES ASSUME k + 1 <= n PROVE Inserted(db, Done(k + 1), b, after[k + 1])
    <3> HIDE DEF Done
    <3> QED
      BY <2>0
  <2> HIDE DEF T
  <2>2. k + 1 \in 1 .. n /\ (k + 1) - 1 = k /\ k <= n
    BY <2>0, <2>1
  <2>3. after[k + 1] = InsertChunk(after[k], ids[k + 1], Ids(db), b) /\ ids[k + 1] \in ChunkIds
    BY <1>1, <1>2, <2>2
  <2>4. Done(k + 1) = Done(k) \cup {ids[k + 1]}
    <3>1. 1 .. (k + 1) = (1 .. k) \cup {k + 1}
      BY <2>0
    <3> QED
      BY <3>1
  <2> HIDE DEF Done
  <2>5. Inserted(db, Done(k), b, after[k])
    BY <2>0, <2>2
  <2>6. Inserted(db, Done(k) \cup {ids[k + 1]}, b, after[k + 1])
    BY <2>3, <2>5, InsertChunkKeeps
  <2> QED
    BY <2>4, <2>6
<1>5. T = Nat
  <2> HIDE DEF T
  <2>1. T \in SUBSET Nat
    BY DEF T
  <2> QED
    BY <1>3, <1>4, <2>1, NatInductionSet
<1>6. Inserted(db, Done(n), b, after[n])
  <2> HIDE DEF Done
  <2>1. n \in T
    BY <1>5
  <2> QED
    BY <2>1
<1>7. Done(n) = Range(ids)
  BY <1>2 DEF Range
<1> HIDE DEF Done
<1> QED
  BY <1>1, <1>2, <1>6, <1>7

(* Indexing a file that has nothing gives it the chunks of its version, each *)
(* of the branch, and leaves the others.                                     *)
LEMMA IndexContentKeeps ==
  ASSUME NEW db, Sound(db), NEW f \in Paths, IdsAt(db, f) = {},
         NEW version \in FileVersions, NEW b \in Branches,
         NEW d, d = IndexContent(db, f, version, b)
  PROVE  /\ Sound(d)
         /\ Ids(d) = Ids(db) \cup IdsOf(f, version)
         /\ \A g \in Paths : g # f => IdsAt(d, g) = IdsAt(db, g) /\ HashAt(d, g) = HashAt(db, g)
         /\ IdsAt(d, f) = IdsOf(f, version) /\ f \in DOMAIN d.hashes /\ d.hashes[f] = version
         /\ \A r \in DOMAIN d.rows :
              \/ d.rows[r].id.file = f /\ b \in d.rows[r].labels
              \/ r \in DOMAIN db.rows /\ d.rows[r] = db.rows[r]
<1> DEFINE ids == [k \in DOMAIN version |-> Id(f, version[k])]
           c == InsertChunks(db, ids, b)
<1>1. version \in Seq(Texts) /\ Len(version) \in Nat /\ DOMAIN version = 1 .. Len(version)
      /\ \A k \in DOMAIN version : version[k] \in Texts
  BY FileVersionsAssumption, LenProperties
<1>2. \A k \in DOMAIN version : ids[k] \in ChunkIds /\ ids[k].file = f
  BY <1>1 DEF Id, ChunkIds
<1>3. ids \in Seq(ChunkIds)
  <2>1. ids \in [1 .. Len(version) -> ChunkIds]
    BY <1>1, <1>2
  <2> HIDE DEF ids
  <2> QED
    BY <1>1, <2>1, SeqDef
<1>4. Range(ids) = IdsOf(f, version)
  BY DEF Range, IdsOf
<1> HIDE DEF ids
<1>5. Inserted(db, IdsOf(f, version), b, c)
  BY <1>3, <1>4, InsertChunksKeeps DEF Sound
<1>6. \A id \in IdsOf(f, version) : id \in ChunkIds /\ id.file = f
  BY <1>1 DEF IdsOf, Id, ChunkIds
<1> HIDE DEF c
<1>7. /\ DOMAIN d = TableNames /\ d.rows = c.rows /\ d.fts = c.fts /\ d.replaced = c.replaced
      /\ d.links = c.links \cup ({"ref", "symbol"} \X IdsOf(f, version))
      /\ d.hashes = With(c.hashes, f, version)
      /\ d.active = c.active /\ d.vecDirty = c.vecDirty
  BY <1>4, <1>5 DEF IndexContent, UpsertHash, InsertLinks, ids, c, Inserted, RowsOK, TableNames
<1>8. RowsOK(d) /\ PostingsOK(d) /\ MetaOK(d)
  <2>1. RowsOK(c) /\ PostingsOK(c) /\ c.active = db.active /\ c.vecDirty = db.vecDirty
    BY <1>5 DEF Inserted
  <2>2. RowsOK(d)
    BY <1>7, <2>1 DEF RowsOK
  <2>3. PostingsOK(d)
    BY <1>7, <2>1 DEF PostingsOK
  <2>4. MetaOK(d)
    BY <1>7, <2>1 DEF Sound, MetaOK
  <2> QED
    BY <2>2, <2>3, <2>4
<1>9. Ids(d) = Ids(db) \cup IdsOf(f, version)
  BY <1>5, <1>7 DEF Inserted, Ids
<1>10. /\ \A g \in Paths : g # f => IdsAt(d, g) = IdsAt(db, g)
       /\ IdsAt(d, f) = IdsOf(f, version)
  BY <1>6, <1>9 DEF IdsAt
<1>11. /\ DOMAIN d.hashes = DOMAIN db.hashes \cup {f} /\ d.hashes[f] = version
       /\ \A g \in DOMAIN db.hashes \ {f} : d.hashes[g] = db.hashes[g]
       /\ d.hashes = [g \in DOMAIN d.hashes |-> d.hashes[g]]
  BY <1>5, <1>7 DEF With, Inserted
<1>12. ASSUME NEW g \in Paths, g # f PROVE HashAt(d, g) = HashAt(db, g)
  <2>1. {g} \cap DOMAIN d.hashes = {g} \cap DOMAIN db.hashes
    BY <1>11, <1>12
  <2>2. \A k \in {g} \cap DOMAIN d.hashes : d.hashes[k] = db.hashes[k]
    BY <1>11, <1>12
  <2> QED
    BY <2>1, <2>2 DEF HashAt, Restrict
<1>13. FilesOK(d)
  <2>1. DOMAIN d.hashes \in SUBSET Paths /\ d.hashes \in [DOMAIN d.hashes -> FileVersions]
    BY <1>11 DEF Sound, FilesOK
  <2>2. \A g \in Paths : IdsAt(d, g) = HashedIds(d, g)
    BY <1>10, <1>11 DEF Sound, FilesOK, HashedIds
  <2>3. d.links = {"ref", "symbol"} \X Ids(d)
    <3>1. db.links = {"ref", "symbol"} \X Ids(db)
      BY DEF Sound, FilesOK
    <3>2. c.links \subseteq db.links /\ \A l \in db.links : l[2] \notin IdsOf(f, version) => l \in c.links
      BY <1>5 DEF Inserted
    <3> QED
      BY <1>7, <1>9, <3>1, <3>2
  <2> QED
    BY <2>1, <2>2, <2>3 DEF FilesOK
<1>14. \A r \in DOMAIN d.rows :
         \/ d.rows[r].id.file = f /\ b \in d.rows[r].labels
         \/ r \in DOMAIN db.rows /\ d.rows[r] = db.rows[r]
  BY <1>5, <1>6, <1>7 DEF Inserted
<1> QED
  BY <1>8, <1>9, <1>10, <1>11, <1>12, <1>13, <1>14 DEF Sound

-----------------------------------------------------------------------------
(* The invariant: it holds of an index without files, and every step keeps   *)
(* it.                                                                       *)
LEMMA StoreInitInv ==
  ASSUME StoreInit
  PROVE  StoreInv
<1>1. /\ disk = Empty /\ work = Empty /\ tx = <<>> /\ frames = <<>> /\ depth = 0
      /\ raising = "none" /\ vecs = {} /\ step = "idle" /\ job = NoJob
  BY DEF StoreInit
<1>2. Base = Empty /\ ~InFile /\ ~InBatch /\ ~Transacting
  BY <1>1 DEF Base, InFile, InBatch, Transacting
<1>3. Stacks /\ InFileWork /\ Progress /\ LabelsOK
  BY <1>1, <1>2 DEF Stacks, Steps, InFileWork, Progress, LabelsOK
<1>4. JobOK
  BY <1>1, <1>2 DEF JobOK, NoJob, JobFields, JobStep
<1>5. VectorsOK
  BY <1>1, <1>2 DEF VectorsOK, NoJob
<1> QED
  BY <1>1, <1>2, <1>3, <1>4, <1>5, EmptyIsSound DEF StoreInv

(* What follows from where the refresh is.                                   *)
LEMMA OutsideBatch ==
  ASSUME StoreInv, ~InBatch
  PROVE  /\ tx = <<>> /\ work = disk /\ Base = disk /\ frames = <<>> /\ depth = 0
         /\ raising = "none" /\ ~InFile /\ ~Transacting
BY DEF StoreInv, Stacks, InBatch, InFile, Base, Transacting

LEMMA BetweenFiles ==
  ASSUME StoreInv, step = "files", raising = "none"
  PROVE  /\ tx = <<Entry(0, disk)>> /\ frames = <<"batch">> /\ depth = 1 /\ Base = work
         /\ ~InFile /\ Transacting /\ tx # <<>>
<1>1. ~InFile /\ InBatch
  BY DEF InFile, InBatch
<1> QED
  BY <1>1 DEF StoreInv, Stacks, Base, Transacting

LEMMA InsideFile ==
  ASSUME StoreInv, InFile
  PROVE  /\ frames = <<"batch", "nested">> /\ depth = 2 /\ InBatch
         /\ raising # "storage" => tx # <<>>
         /\ tx # <<>> => tx = <<Entry(0, disk), Entry(1, Base)>> /\ Transacting
BY DEF StoreInv, Stacks, Base, Transacting, InFile, InBatch

LEMMA OneOfTwo ==
  ASSUME NEW a, NEW b
  PROVE  SubSeq(<<a, b>>, 1, 1) = <<a>>
<1> DEFINE S == {a, b}
           two == <<a, b>>
           one == <<a>>
           sub == SubSeq(two, 1, 1)
<1>1. two \in Seq(S) /\ one \in Seq(S) /\ Len(one) = 1 /\ one[1] = a /\ two[1] = a /\ a \in S
  OBVIOUS
<1> HIDE DEF two, one, S
<1>2. sub \in Seq(S) /\ Len(sub) = 1 /\ sub[1] = two[1]
  <2>1. \A k \in 1 .. 1 : two[k] \in S
    BY <1>1
  <2> QED
    BY <2>1, SubSeqProperties
<1> HIDE DEF sub
<1>3. sub = one
  BY <1>1, <1>2, SeqEqual
<1> QED
  BY <1>3 DEF sub, one, two

(* A savepoint is found where it was set, and nothing in an empty stack.     *)
LEMMA SavepointPlace ==
  ASSUME tx = <<Entry(0, disk), Entry(1, Base)>>
  PROVE  /\ HasSavepoint(1) /\ Place(1) = 2 /\ tx[2].saved = Base
         /\ SubSeq(tx, 1, Place(1) - 1) = <<Entry(0, disk)>>
<1>1. Len(tx) = 2 /\ tx[2] = Entry(1, Base) /\ tx[1] = Entry(0, disk)
  OBVIOUS
<1>2. tx[2].name = 1 /\ tx[2].saved = Base
  BY <1>1 DEF Entry
<1>3. HasSavepoint(1) /\ Place(1) = 2
  BY <1>1, <1>2 DEF HasSavepoint, Place
<1>4. SubSeq(tx, 1, 1) = <<Entry(0, disk)>>
  BY OneOfTwo
<1> QED
  BY <1>2, <1>3, <1>4

LEMMA NoSavepoint ==
  ASSUME tx = <<>>, NEW n
  PROVE  ~HasSavepoint(n)
<1>1. Len(tx) = 0
  OBVIOUS
<1> QED
  BY <1>1 DEF HasSavepoint

(* Outside of a batch.                                                       *)
LEMMA StartKeeps ==
  ASSUME StoreInv, NEW tree \in Trees, NEW b \in Branches, NEW kind \in {"git", "legacy", "targeted"},
         NEW asked \in SUBSET Paths, Start(tree, b, kind, asked)
  PROVE  StoreInv'
<1> DEFINE known == DOMAIN disk.hashes
           deleted == IF kind = "targeted" THEN {} ELSE known \ DOMAIN tree
           reindexed == IF kind = "targeted" THEN asked
                        ELSE {f \in DOMAIN tree : f \notin known \/ disk.hashes[f] # tree[f]}
                               \cup (disk.vecDirty \cap DOMAIN tree)
           same == IF kind = "git" THEN DOMAIN tree \ reindexed ELSE {}
<1>0. DOMAIN tree \in SUBSET Paths /\ tree \in [DOMAIN tree -> FileVersions]
  BY DEF Trees
<1>1. /\ tx = <<>> /\ work = disk /\ Base = disk /\ frames = <<>> /\ depth = 0
      /\ raising = "none" /\ step = "idle"
  BY OutsideBatch DEF Start, Idle, InBatch
<1>2. /\ disk' = disk /\ work' = work /\ tx' = tx /\ frames' = frames /\ depth' = depth
      /\ raising' = raising /\ vecs' = vecs
      /\ step' \in {"begin", "label", "meta"}
      /\ step' = "begin" <=> deleted \cup reindexed # {}
      /\ step' = "meta" => same = {}
  BY DEF Start, Unaffected
<1>3. /\ DOMAIN job' = JobFields
      /\ job'.kind = kind /\ job'.branch = b /\ job'.tree = tree /\ job'.current = ""
      /\ job'.listed = deleted \cup reindexed /\ job'.redo = reindexed /\ job'.delete = deleted
      /\ job'.reindex = reindexed /\ job'.label = same /\ job'.exact = (vecs = Ids(disk))
      /\ job'.failed = {} /\ job'.old = {} /\ job'.new = {} /\ job'.embedded = TRUE
  BY DEF Start, NoJob, JobFields
<1>4. /\ reindexed \subseteq Paths /\ deleted \subseteq Paths /\ deleted \cap DOMAIN tree = {}
      /\ deleted \cap reindexed = {} /\ same \subseteq Paths /\ same \cap (deleted \cup reindexed) = {}
  BY <1>0 DEF StoreInv, Sound, FilesOK
<1>5. kind = "git" => known \subseteq deleted \cup reindexed \cup same
  OBVIOUS
<1> HIDE DEF known, deleted, reindexed, same
<1>6. ~InFile' /\ ~InBatch' /\ ~Transacting' /\ Base' = disk
  BY <1>1, <1>2 DEF InFile, InBatch, Transacting, Base
<1>7. Stacks' /\ InFileWork' /\ Progress'
  BY <1>1, <1>2, <1>6 DEF Stacks, Steps, InFileWork, Progress
<1>8. Pending' = deleted \cup reindexed /\ Finished' = {}
  BY <1>3, <1>6 DEF Pending, Finished
<1>9. JobOK'
  <2>1. JobTyped'
    BY <1>0, <1>3, <1>4 DEF JobTyped
  <2>2. JobFiles'
    BY <1>3, <1>4, <1>6, <1>8 DEF JobFiles
  <2>3. JobStep'
    BY <1>2, <1>3, <1>6, <1>8 DEF JobStep
  <2> QED
    BY <1>3, <2>1, <2>2, <2>3 DEF JobOK
<1>10. VectorsOK'
  <2>1. job'.exact => vecs' = Ids(disk')
    BY <1>2, <1>3
  <2>2. vecs' \in SUBSET ChunkIds
    BY <1>2 DEF VectorsOK, StoreInv
  <2> QED
    BY <1>2, <1>6, <2>1, <2>2 DEF VectorsOK
<1>11. LabelsOK'
  <2>1. \A r \in DOMAIN disk.rows : disk.rows[r].id.file \in known
    BY IdsTyped DEF StoreInv, Sound, FilesOK, IdsAt, HashedIds, ChunkIds, known
  <2>2. Labelled(disk)'
    BY <1>2, <1>3, <1>5, <1>8, <2>1 DEF Labelled
  <2> QED
    BY <1>6, <2>2 DEF LabelsOK
<1> QED
  BY <1>1, <1>2, <1>6, <1>7, <1>9, <1>10, <1>11 DEF StoreInv

LEMMA BeginBatchKeeps ==
  ASSUME StoreInv, BeginBatch
  PROVE  StoreInv'
<1>1. /\ tx = <<>> /\ work = disk /\ frames = <<>> /\ depth = 0 /\ raising = "none" /\ step = "begin"
      /\ ~InFile
  BY OutsideBatch DEF BeginBatch, InBatch
<1>2. /\ disk' = disk /\ work' = disk /\ tx' = <<Entry(0, disk)>> /\ frames' = <<"batch">> /\ depth' = 1
      /\ raising' = "none" /\ vecs' = vecs /\ step' = "files" /\ job' = job
  BY <1>1 DEF BeginBatch, Begin, Entry
<1>3. ~InFile' /\ InBatch' /\ Base' = disk /\ tx' # <<>> /\ Transacting'
  BY <1>2 DEF InFile, InBatch, Transacting, Base
<1>4. Pending' = Pending /\ Finished' = {} /\ job.old = {} /\ job.new = {} /\ job.failed = {}
  BY <1>1, <1>2, <1>3 DEF Pending, Finished, StoreInv, JobOK, JobStep
<1>5. Stacks' /\ InFileWork'
  BY <1>2, <1>3 DEF Stacks, Steps, InFileWork
<1>6. JobOK'
  BY <1>1, <1>2, <1>3, <1>4 DEF JobOK, JobTyped, JobFiles, JobStep, StoreInv
<1>7. Progress'
  BY <1>2, <1>3, <1>4 DEF Progress, Same, IdsAt, Ids, HashAt
<1>8. VectorsOK'
  BY <1>1, <1>2, <1>3, <1>4 DEF VectorsOK, StoreInv, Ids
<1>9. LabelsOK'
  <2>1. Labelled(disk)
    BY <1>1 DEF StoreInv, LabelsOK
  <2>2. Labelled(Base)'
    BY <1>2, <1>3, <1>4, <2>1 DEF Labelled
  <2> QED
    BY <1>2, <2>2 DEF LabelsOK
<1> QED
  BY <1>2, <1>3, <1>5, <1>6, <1>7, <1>8, <1>9 DEF StoreInv

(* The files of the work.                                                    *)
LEMMA DeleteFileKeeps ==
  ASSUME StoreInv, NEW f \in Paths, DeleteFile(f)
  PROVE  StoreInv'
<1>1. /\ step = "files" /\ tx = <<Entry(0, disk)>> /\ frames = <<"batch">> /\ depth = 1
      /\ raising = "none" /\ Base = work /\ ~InFile /\ Transacting /\ tx # <<>>
  BY BetweenFiles DEF DeleteFile, Running
<1>2. /\ disk' = disk /\ tx' = tx /\ frames' = frames /\ depth' = depth /\ raising' = raising
      /\ vecs' = vecs /\ step' = step /\ work' = Purge(work, f)
  BY <1>1 DEF DeleteFile, Write
<1>3. /\ DOMAIN job' = JobFields /\ f \in job.delete
      /\ job'.delete = job.delete \ {f} /\ job'.old = job.old \cup IdsAt(work, f)
      /\ job'.kind = job.kind /\ job'.branch = job.branch /\ job'.tree = job.tree
      /\ job'.listed = job.listed /\ job'.redo = job.redo /\ job'.reindex = job.reindex
      /\ job'.label = job.label /\ job'.current = job.current /\ job'.failed = job.failed
      /\ job'.new = job.new /\ job'.exact = job.exact /\ job'.embedded = job.embedded
  <2>1. {work.rows[r].id : r \in RowsOf(work, f)} = IdsAt(work, f)
    BY DEF RowsOf, IdsAt, Ids
  <2> QED
    BY <2>1 DEF DeleteFile, StoreInv, JobOK, JobFields
<1>4. ~InFile' /\ Transacting' /\ Base' = work' /\ tx' # <<>> /\ InBatch'
  BY <1>1, <1>2 DEF InFile, InBatch, Transacting, Base
<1>5. JobTyped /\ JobFiles /\ JobStep
  BY <1>1 DEF StoreInv, JobOK
<1>6. /\ Pending' = Pending \ {f} /\ Finished' = Finished \cup {f} /\ f \notin Finished
      /\ f \notin job.failed /\ f \notin DOMAIN job.tree
  BY <1>1, <1>3, <1>4, <1>5 DEF Pending, Finished, JobFiles
<1>7. /\ Sound(work')
      /\ Ids(work') = Ids(work) \ IdsAt(work, f)
      /\ \A g \in Paths : g # f => IdsAt(work', g) = IdsAt(work, g) /\ HashAt(work', g) = HashAt(work, g)
      /\ IdsAt(work', f) = {} /\ f \notin DOMAIN work'.hashes
      /\ DOMAIN work'.rows \subseteq DOMAIN work.rows
      /\ \A r \in DOMAIN work'.rows : work'.rows[r] = work.rows[r]
  BY <1>2, PurgeKeeps DEF StoreInv
<1>8. Stacks' /\ InFileWork'
  BY <1>1, <1>2, <1>4 DEF StoreInv, Stacks, InFileWork
<1>9. JobOK'
  <2>1. IdsAt(work, f) \subseteq ChunkIds
    BY IdsTyped DEF StoreInv, Sound, IdsAt
  <2>2. JobTyped'
    BY <1>3, <1>5, <2>1 DEF JobTyped
  <2>3. JobFiles'
    BY <1>3, <1>4, <1>5, <1>6 DEF JobFiles, IdsAt
  <2>4. JobStep'
    BY <1>1, <1>2, <1>4 DEF JobStep
  <2> QED
    BY <1>3, <2>2, <2>3, <2>4 DEF JobOK
<1>10. Progress'
  <2>1. \A g \in Paths : IF g \in Finished THEN HashAt(work, g) = TreeAt(g) ELSE Same(work, g)
    BY <1>1 DEF StoreInv, Progress
  <2>2. HashAt(work', f) = TreeAt(f)'
    <3>1. {f} \cap DOMAIN work'.hashes = {} /\ {f} \cap DOMAIN job'.tree = {}
      BY <1>3, <1>6, <1>7
    <3> QED
      BY <3>1 DEF HashAt, TreeAt, Restrict
  <2>3. \A g \in Paths : TreeAt(g)' = TreeAt(g)
    BY <1>3 DEF TreeAt
  <2>4. \A g \in Paths : g # f /\ Same(work, g) => Same(work, g)'
    BY <1>2, <1>7 DEF Same, IdsAt, Ids, HashAt
  <2> QED
    BY <1>4, <1>6, <1>7, <2>1, <2>2, <2>3, <2>4 DEF Progress
<1>11. VectorsOK'
  <2>1. \A id \in job.new : id \notin IdsAt(work, f)
    BY <1>5, <1>6 DEF JobFiles, IdsAt
  <2>2. job.exact => Ids(work') = (Ids(disk) \ job'.old) \cup job'.new
    BY <1>1, <1>3, <1>7, <2>1 DEF StoreInv, VectorsOK
  <2> QED
    BY <1>1, <1>2, <1>3, <1>4, <2>2 DEF StoreInv, VectorsOK
<1>12. LabelsOK'
  <2>1. Labelled(work)
    BY <1>1 DEF StoreInv, LabelsOK
  <2>2. \A r \in DOMAIN work'.rows : work'.rows[r].id.file # f
    BY <1>7 DEF IdsAt, Ids
  <2>3. Labelled(work)'
    BY <1>3, <1>6, <1>7, <2>1, <2>2 DEF Labelled
  <2> QED
    BY <1>1, <1>2, <1>4, <2>3 DEF LabelsOK
<1> QED
  BY <1>2, <1>4, <1>7, <1>8, <1>9, <1>10, <1>11, <1>12 DEF StoreInv

LEMMA ProgressCarries ==
  ASSUME Progress, Transacting, Base' = Base, disk' = disk, Finished' = Finished, job'.tree = job.tree
  PROVE  Progress'
<1>1. \A g \in Paths : Same(Base, g)' <=> Same(Base, g)
  BY DEF Same, IdsAt, Ids, HashAt
<1>2. \A g \in Paths : HashAt(Base, g)' = HashAt(Base, g) /\ TreeAt(g)' = TreeAt(g)
  BY DEF HashAt, TreeAt
<1>3. \A g \in Paths : IF g \in Finished THEN HashAt(Base, g) = TreeAt(g) ELSE Same(Base, g)
  BY DEF Progress
<1> QED
  BY <1>1, <1>2, <1>3 DEF Progress

(* Entering a file, deleting what it has, and indexing it leave the tables   *)
(* of the savepoint, and all the rest, as they are.                          *)
LEMMA AppendToOne ==
  ASSUME NEW a, NEW b
  PROVE  Append(<<a>>, b) = <<a, b>>
<1> DEFINE S == {a, b}
           s == Append(<<a>>, b)
           t == <<a, b>>
<1>1. <<a>> \in Seq(S) /\ b \in S /\ t \in Seq(S) /\ Len(<<a>>) = 1 /\ <<a>>[1] = a
  OBVIOUS
<1>2. s \in Seq(S) /\ Len(s) = 2 /\ s[1] = a /\ s[2] = b
  BY <1>1, AppendProperties
<1>3. Len(t) = 2 /\ t[1] = a /\ t[2] = b
  OBVIOUS
<1> HIDE DEF s, t, S
<1>4. \A k \in 1 .. 2 : s[k] = t[k]
  <2>1. 1 .. 2 = {1, 2}
    OBVIOUS
  <2> QED
    BY <1>2, <1>3, <2>1
<1>5. s = t
  BY <1>1, <1>2, <1>3, <1>4, SeqEqual
<1> QED
  BY <1>5 DEF s, t

LEMMA FrontOfTwo ==
  ASSUME NEW a, NEW b
  PROVE  Front(<<a, b>>) = <<a>>
<1>1. Len(<<a, b>>) = 2
  OBVIOUS
<1>2. SubSeq(<<a, b>>, 1, 1) = <<a>>
  BY OneOfTwo
<1> QED
  BY <1>1, <1>2 DEF Front

LEMMA EnterFileKeeps ==
  ASSUME StoreInv, NEW f \in Paths, EnterFile(f)
  PROVE  StoreInv'
<1>1. /\ step = "files" /\ tx = <<Entry(0, disk)>> /\ frames = <<"batch">> /\ depth = 1
      /\ raising = "none" /\ Base = work /\ ~InFile /\ Transacting /\ tx # <<>>
  BY BetweenFiles DEF EnterFile, Running
<1>2. /\ disk' = disk /\ work' = work /\ tx' = <<Entry(0, disk), Entry(1, work)>>
      /\ frames' = <<"batch", "nested">> /\ depth' = 2
      /\ raising' = "none" /\ vecs' = vecs /\ step' = "old"
  <2>1. tx' = Append(<<Entry(0, disk)>>, Entry(1, work)) /\ frames' = Append(<<"batch">>, "nested")
    BY <1>1 DEF EnterFile, Savepoint, Entry
  <2>2. tx' = <<Entry(0, disk), Entry(1, work)>> /\ frames' = <<"batch", "nested">>
    BY <2>1, AppendToOne
  <2>3. disk' = disk /\ work' = work
    BY DEF EnterFile, Savepoint
  <2>4. depth' = 2 /\ raising' = "none" /\ vecs' = vecs /\ step' = "old"
    BY <1>1 DEF EnterFile
  <2> QED
    BY <2>2, <2>3, <2>4
<1>3. /\ DOMAIN job' = JobFields /\ f \in job.reindex /\ job.delete = {}
      /\ job'.reindex = job.reindex \ {f} /\ job'.current = f
      /\ job'.kind = job.kind /\ job'.branch = job.branch /\ job'.tree = job.tree
      /\ job'.listed = job.listed /\ job'.redo = job.redo /\ job'.delete = job.delete
      /\ job'.label = job.label /\ job'.failed = job.failed /\ job'.old = job.old
      /\ job'.new = job.new /\ job'.exact = job.exact /\ job'.embedded = job.embedded
  BY DEF EnterFile, StoreInv, JobOK, JobFields
<1>4. InFile' /\ Transacting' /\ Base' = work /\ tx' # <<>> /\ InBatch'
  BY <1>1, <1>2 DEF InFile, InBatch, Transacting, Base, Entry
<1>5. JobTyped /\ JobFiles /\ JobStep
  BY <1>1 DEF StoreInv, JobOK
<1>6. Pending' = Pending /\ Finished' = Finished
  BY <1>1, <1>3, <1>4 DEF Pending, Finished
<1>7. Stacks' /\ InFileWork'
  BY <1>1, <1>2, <1>4 DEF StoreInv, Stacks, InFileWork, Steps
<1>8. JobOK'
  <2>1. JobTyped'
    BY <1>3, <1>5 DEF JobTyped
  <2>2. JobFiles'
    BY <1>3, <1>4, <1>5, <1>6 DEF JobFiles
  <2>3. JobStep'
    BY <1>2, <1>3 DEF JobStep
  <2> QED
    BY <1>3, <2>1, <2>2, <2>3 DEF JobOK
<1>9. Progress'
  BY <1>1, <1>2, <1>3, <1>4, <1>6, ProgressCarries DEF StoreInv
<1>10. VectorsOK'
  BY <1>1, <1>2, <1>3, <1>4 DEF StoreInv, VectorsOK, Ids
<1>11. LabelsOK'
  BY <1>1, <1>2, <1>3, <1>4, <1>6 DEF StoreInv, LabelsOK, Labelled
<1> QED
  BY <1>1, <1>2, <1>4, <1>7, <1>8, <1>9, <1>10, <1>11 DEF StoreInv

(* A step inside of a file that leaves the tables of the savepoint.          *)
LEMMA InsideKeeps ==
  ASSUME StoreInv, InFile, InFile', UNCHANGED <<disk, tx, frames, depth, vecs, job>>
  PROVE  /\ Base' = Base \/ tx = <<>>
         /\ JobOK' /\ Progress' /\ VectorsOK' /\ LabelsOK'
         /\ InBatch' /\ (Transacting <=> Transacting')
<1>1. InBatch /\ InBatch' /\ (Transacting <=> Transacting') /\ (Transacting => tx # <<>> /\ Base' = Base)
  BY DEF InFile, InBatch, Transacting, Base
<1>2. Pending' = Pending /\ Finished' = Finished
  BY DEF Pending, Finished
<1>3. JobTyped /\ JobFiles /\ JobStep /\ DOMAIN job = JobFields
  BY DEF StoreInv, JobOK, InFile
<1>4. JobOK'
  <2>1. JobTyped' /\ JobFiles'
    BY <1>2, <1>3 DEF JobTyped, JobFiles
  <2>2. JobStep'
    BY <1>3 DEF JobStep, InFile
  <2> QED
    BY <1>3, <2>1, <2>2 DEF JobOK
<1>5. Progress'
  <2>1. Transacting' => Progress'
    BY <1>1, <1>2, ProgressCarries DEF StoreInv
  <2> QED
    BY <2>1 DEF Progress
<1>6. VectorsOK'
  BY <1>1 DEF StoreInv, VectorsOK, InFile, Ids
<1>7. LabelsOK'
  BY <1>1, <1>2 DEF StoreInv, LabelsOK, Labelled, InFile
<1> QED
  BY <1>1, <1>4, <1>5, <1>6, <1>7 DEF Transacting

LEMMA DeleteOldKeeps ==
  ASSUME StoreInv, DeleteOld
  PROVE  StoreInv'
<1>1. InFile /\ InFile' /\ step = "old" /\ step' = "index" /\ raising = "none"
  BY DEF DeleteOld, Running, InFile
<1>2. /\ tx = <<Entry(0, disk), Entry(1, Base)>> /\ Transacting /\ depth = 2
      /\ frames = <<"batch", "nested">>
  BY <1>1, InsideFile
<1>3. /\ disk' = disk /\ tx' = tx /\ frames' = frames /\ depth' = depth /\ raising' = raising
      /\ vecs' = vecs /\ job' = job /\ work' = Purge(work, job.current)
  BY <1>2 DEF DeleteOld, Write
<1>4. Base' = Base /\ JobOK' /\ Progress' /\ VectorsOK' /\ LabelsOK'
  BY <1>1, <1>2, <1>3, InsideKeeps DEF Transacting
<1>5. work = Base /\ job.current \in Paths
  BY <1>1, <1>2 DEF StoreInv, InFileWork, JobOK, JobTyped, JobFiles
<1>6. Sound(work')
  BY <1>3, <1>5, PurgeKeeps DEF StoreInv
<1>7. InFileWork'
  BY <1>1, <1>3, <1>4, <1>5 DEF InFileWork
<1>8. Stacks'
  BY <1>1, <1>2, <1>3, <1>4 DEF StoreInv, Stacks, Steps, Transacting, InBatch
<1> QED
  BY <1>3, <1>4, <1>6, <1>7, <1>8 DEF StoreInv

LEMMA ChunkingFailsKeeps ==
  ASSUME StoreInv, ChunkingFails
  PROVE  StoreInv'
<1>1. InFile /\ InFile' /\ step = "index" /\ step' = "index" /\ raising = "none"
  BY DEF ChunkingFails, Running, InFile
<1>2. /\ tx = <<Entry(0, disk), Entry(1, Base)>> /\ Transacting /\ depth = 2
      /\ frames = <<"batch", "nested">>
  BY <1>1, InsideFile
<1>3. /\ disk' = disk /\ tx' = tx /\ frames' = frames /\ depth' = depth /\ raising' = "chunk"
      /\ vecs' = vecs /\ job' = job /\ work' = work
  BY DEF ChunkingFails
<1>4. Base' = Base /\ JobOK' /\ Progress' /\ VectorsOK' /\ LabelsOK' /\ InBatch'
  BY <1>1, <1>2, <1>3, InsideKeeps DEF Transacting
<1>5. InFileWork'
  BY <1>1, <1>2, <1>3, <1>4 DEF InFileWork, StoreInv
<1>6. Stacks'
  BY <1>1, <1>2, <1>3, <1>4 DEF StoreInv, Stacks, Steps, Transacting
<1> QED
  BY <1>3, <1>4, <1>5, <1>6 DEF StoreInv

LEMMA IndexFileKeeps ==
  ASSUME StoreInv, IndexFile
  PROVE  StoreInv'
<1> DEFINE c == job.current
<1>1. InFile /\ InFile' /\ step = "index" /\ step' = "leave" /\ raising = "none" /\ c \in DOMAIN job.tree
  BY DEF IndexFile, Running, InFile
<1>2. /\ tx = <<Entry(0, disk), Entry(1, Base)>> /\ Transacting /\ depth = 2
      /\ frames = <<"batch", "nested">>
  BY <1>1, InsideFile
<1>3. /\ disk' = disk /\ tx' = tx /\ frames' = frames /\ depth' = depth /\ raising' = raising
      /\ vecs' = vecs /\ job' = job /\ work' = IndexContent(work, c, job.tree[c], job.branch)
  BY <1>2 DEF IndexFile, Write
<1>4. Base' = Base /\ JobOK' /\ Progress' /\ VectorsOK' /\ LabelsOK' /\ InBatch'
  BY <1>1, <1>2, <1>3, InsideKeeps DEF Transacting
<1>5. /\ work = Purge(Base, c) /\ c \in Paths /\ job.tree[c] \in FileVersions /\ job.branch \in Branches
  BY <1>1, <1>2 DEF StoreInv, InFileWork, JobOK, JobTyped, JobFiles
<1>6. IdsAt(work, c) = {}
  BY <1>5, PurgeKeeps DEF StoreInv
<1>7. Sound(work')
  <2> HIDE DEF c
  <2> QED
    BY <1>3, <1>5, <1>6, IndexContentKeeps DEF StoreInv
<1>8. InFileWork'
  BY <1>1, <1>3, <1>4, <1>5 DEF InFileWork
<1>9. Stacks'
  BY <1>1, <1>2, <1>3, <1>4 DEF StoreInv, Stacks, Steps, Transacting
<1> QED
  BY <1>3, <1>4, <1>7, <1>8, <1>9 DEF StoreInv

(* Leaving a file: what it had goes, and what it has comes.                  *)
LEMMA LeaveFileKeeps ==
  ASSUME StoreInv, LeaveFile
  PROVE  StoreInv'
<1> DEFINE c == job.current
           v == job.tree[c]
           before == IdsAt(Base, c)
<1>1. InFile /\ step = "leave" /\ raising = "none"
  BY DEF LeaveFile, Running, InFile
<1>2. /\ tx = <<Entry(0, disk), Entry(1, Base)>> /\ tx # <<>> /\ Transacting /\ depth = 2
      /\ frames = <<"batch", "nested">>
  BY <1>1, InsideFile
<1>3. HasSavepoint(1) /\ Place(1) = 2 /\ tx[2].saved = Base /\ SubSeq(tx, 1, Place(1) - 1) = <<Entry(0, disk)>>
  BY <1>2, SavepointPlace
<1>4. JobTyped /\ JobFiles /\ JobStep /\ DOMAIN job = JobFields
  BY <1>1 DEF StoreInv, JobOK
<1>5. depth - 1 = 1 /\ Front(frames) = <<"batch">>
  BY <1>2, FrontOfTwo
<1>6. /\ disk' = disk /\ work' = work /\ tx' = <<Entry(0, disk)>> /\ frames' = <<"batch">>
      /\ depth' = 1 /\ raising' = "none" /\ vecs' = vecs /\ step' = "files"
  BY <1>1, <1>3, <1>5 DEF LeaveFile, Release
<1>7. /\ DOMAIN job' = JobFields
      /\ job'.old = job.old \cup before /\ job'.new = job.new \cup IdsOf(c, v)
      /\ job'.kind = job.kind /\ job'.branch = job.branch /\ job'.tree = job.tree
      /\ job'.listed = job.listed /\ job'.redo = job.redo /\ job'.delete = job.delete
      /\ job'.reindex = job.reindex /\ job'.label = job.label /\ job'.current = c
      /\ job'.failed = job.failed /\ job'.exact = job.exact /\ job'.embedded = job.embedded
  <2>1. {Base.rows[r].id : r \in RowsOf(Base, c)} = before
    BY DEF RowsOf, IdsAt, Ids
  <2>2. job' = [job EXCEPT !.old = @ \cup {tx[Place(1)].saved.rows[r].id : r \in RowsOf(tx[Place(1)].saved, c)},
                           !.new = @ \cup IdsOf(c, v)]
    BY <1>3, <1>5 DEF LeaveFile
  <2>3. job' = [job EXCEPT !.old = @ \cup before, !.new = @ \cup IdsOf(c, v)]
    BY <1>3, <2>1, <2>2
  <2> HIDE DEF before, c, v
  <2> QED
    BY <1>4, <2>3 DEF JobFields, c
<1>8. ~InFile' /\ Transacting' /\ Base' = work /\ tx' # <<>> /\ InBatch'
  BY <1>6 DEF InFile, InBatch, Transacting, Base
<1>9. /\ c \in Paths /\ c \in DOMAIN job.tree /\ v \in FileVersions /\ job.branch \in Branches
      /\ c \in job.listed /\ c \notin job.reindex \cup job.delete \cup job.failed
      /\ work = IndexContent(Purge(Base, c), c, v, job.branch)
  BY <1>1, <1>2, <1>4 DEF StoreInv, InFileWork, JobTyped, JobFiles, Pending
<1>10. Pending' = Pending \ {c} /\ Finished' = Finished \cup {c} /\ c \notin Finished
  BY <1>1, <1>7, <1>8, <1>9 DEF Pending, Finished
<1> HIDE DEF c, v, before
<1>11. PICK p : p = Purge(Base, c)
  OBVIOUS
<1>12. /\ Sound(p) /\ Ids(p) = Ids(Base) \ before
       /\ \A g \in Paths : g # c => IdsAt(p, g) = IdsAt(Base, g) /\ HashAt(p, g) = HashAt(Base, g)
       /\ IdsAt(p, c) = {}
       /\ DOMAIN p.rows \subseteq DOMAIN Base.rows /\ \A r \in DOMAIN p.rows : p.rows[r] = Base.rows[r]
  BY <1>9, <1>11, PurgeKeeps DEF StoreInv, before
<1>13. /\ Sound(work) /\ Ids(work) = Ids(p) \cup IdsOf(c, v)
       /\ \A g \in Paths : g # c => IdsAt(work, g) = IdsAt(p, g) /\ HashAt(work, g) = HashAt(p, g)
       /\ IdsAt(work, c) = IdsOf(c, v) /\ c \in DOMAIN work.hashes /\ work.hashes[c] = v
       /\ \A r \in DOMAIN work.rows :
            \/ work.rows[r].id.file = c /\ job.branch \in work.rows[r].labels
            \/ r \in DOMAIN p.rows /\ work.rows[r] = p.rows[r]
  BY <1>9, <1>11, <1>12, IndexContentKeeps
<1>14. Stacks' /\ InFileWork'
  BY <1>6, <1>8 DEF Stacks, Steps, InFileWork
<1>15. JobOK'
  <2>1. IdsOf(c, v) \subseteq ChunkIds /\ \A id \in IdsOf(c, v) : id.file = c
    BY <1>13, IdsTyped DEF Sound, IdsAt
  <2>2. before \subseteq ChunkIds /\ \A id \in before : id.file = c
    BY IdsTyped DEF StoreInv, Sound, IdsAt, before
  <2>3. JobTyped'
    BY <1>4, <1>7, <2>1, <2>2 DEF JobTyped
  <2>4. JobFiles'
    BY <1>4, <1>7, <1>8, <1>9, <1>10, <2>1, <2>2 DEF JobFiles
  <2>5. JobStep'
    BY <1>6, <1>8 DEF JobStep
  <2> QED
    BY <1>7, <2>3, <2>4, <2>5 DEF JobOK
<1>16. Progress'
  <2>1. \A g \in Paths : IF g \in Finished THEN HashAt(Base, g) = TreeAt(g) ELSE Same(Base, g)
    BY <1>2 DEF StoreInv, Progress
  <2>2. HashAt(work, c) = TreeAt(c)
    <3>1. {c} \cap DOMAIN work.hashes = {c} /\ {c} \cap DOMAIN job.tree = {c} /\ work.hashes[c] = job.tree[c]
      BY <1>9, <1>13 DEF v
    <3>2. HashAt(work, c) = [x \in {c} |-> work.hashes[x]] /\ TreeAt(c) = [x \in {c} |-> job.tree[x]]
      BY <3>1 DEF HashAt, TreeAt, Restrict
    <3> QED
      BY <3>1, <3>2
  <2>3. \A g \in Paths : TreeAt(g)' = TreeAt(g) /\ HashAt(work, g)' = HashAt(work, g)
    BY <1>6, <1>7 DEF TreeAt, HashAt
  <2>4. \A g \in Paths : g # c /\ Same(Base, g) => Same(work, g)'
    <3>1. \A g \in Paths : g # c => IdsAt(work, g) = IdsAt(Base, g) /\ HashAt(work, g) = HashAt(Base, g)
      BY <1>12, <1>13
    <3>2. \A g \in Paths : Same(work, g)' <=> Same(work, g)
      BY <1>6 DEF Same, IdsAt, Ids, HashAt
    <3> QED
      BY <3>1, <3>2 DEF Same
  <2> QED
    BY <1>6, <1>8, <1>10, <1>12, <1>13, <2>1, <2>2, <2>3, <2>4 DEF Progress
<1>17. VectorsOK'
  <2>1. \A id \in job.new : id \notin before
    BY <1>4, <1>10 DEF JobFiles, IdsAt, before
  <2>2. job.exact => Ids(Base) = (Ids(disk) \ job.old) \cup job.new
    BY <1>2 DEF StoreInv, VectorsOK
  <2>3. job.exact => Ids(work) = (Ids(disk) \ job'.old) \cup job'.new
    BY <1>7, <1>12, <1>13, <2>1, <2>2
  <2> QED
    BY <1>1, <1>6, <1>7, <1>8, <2>3 DEF StoreInv, VectorsOK, Ids
<1>18. LabelsOK'
  <2>1. Labelled(Base)
    BY <1>2 DEF StoreInv, LabelsOK
  <2>2. \A r \in DOMAIN p.rows : p.rows[r].id.file # c
    BY <1>12 DEF IdsAt, Ids
  <2>3. Labelled(work)'
    BY <1>6, <1>7, <1>10, <1>12, <1>13, <2>1, <2>2 DEF Labelled
  <2> QED
    BY <1>6, <1>8, <2>3 DEF LabelsOK
<1> QED
  BY <1>6, <1>8, <1>13, <1>14, <1>15, <1>16, <1>17, <1>18 DEF StoreInv

(* A failure, and what unwinds it.                                           *)
LEMMA StorageFailsKeeps ==
  ASSUME StoreInv, StorageFails
  PROVE  StoreInv'
<1>1. /\ InBatch /\ raising = "none" /\ raising' = "storage"
      /\ frames' = frames /\ depth' = depth /\ vecs' = vecs /\ step' = step /\ job' = job
  BY DEF StorageFails, Running
<1>2. (InFile' <=> InFile) /\ InBatch' /\ Pending' = Pending /\ Finished' = Finished
  BY <1>1 DEF InFile, InBatch, Pending, Finished
<1>3. JobOK'
  BY <1>1, <1>2 DEF StoreInv, JobOK, JobTyped, JobFiles, JobStep
<1>4. CASE UNCHANGED <<disk, work, tx>>
  <2>1. Base' = Base /\ (Transacting' <=> Transacting)
    BY <1>1, <1>2, <1>4 DEF Base, Transacting
  <2>2. Stacks'
    BY <1>1, <1>2, <1>4, <2>1 DEF StoreInv, Stacks, InBatch
  <2>3. Progress'
    <3>1. Transacting' => Progress'
      BY <1>1, <1>2, <1>4, <2>1, ProgressCarries DEF StoreInv
    <3> QED
      BY <3>1 DEF Progress
  <2>4. InFileWork'
    BY <1>1, <1>4, <2>1 DEF StoreInv, InFileWork
  <2>5. VectorsOK'
    BY <1>1, <1>4, <2>1 DEF StoreInv, VectorsOK, Ids
  <2>6. LabelsOK'
    BY <1>1, <1>2, <1>4, <2>1 DEF StoreInv, LabelsOK, Labelled
  <2> QED
    BY <1>3, <1>4, <2>1, <2>2, <2>3, <2>4, <2>5, <2>6 DEF StoreInv
<1>5. CASE Rollback
  <2>1. disk' = disk /\ work' = disk /\ tx' = <<>> /\ Base' = disk /\ ~Transacting'
    BY <1>5 DEF Rollback, Base, Transacting
  <2>2. Stacks'
    BY <1>1, <1>2, <2>1 DEF StoreInv, Stacks, InBatch
  <2>3. InFileWork' /\ Progress' /\ LabelsOK'
    BY <1>1, <2>1 DEF InFileWork, Progress, LabelsOK, InBatch
  <2>4. VectorsOK'
    BY <1>1, <2>1 DEF StoreInv, VectorsOK, Ids
  <2> QED
    BY <1>3, <2>1, <2>2, <2>3, <2>4 DEF StoreInv
<1> QED
  BY <1>4, <1>5 DEF StorageFails

LEMMA UnwindNestedKeeps ==
  ASSUME StoreInv, UnwindNested
  PROVE  StoreInv'
<1> DEFINE c == job.current
<1>1. InFile /\ raising # "none" /\ frames = <<"batch", "nested">>
  <2>1. Len(frames) = 2
    BY DEF UnwindNested
  <2>2. Len(<<>>) = 0 /\ Len(<<"batch">>) = 1
    OBVIOUS
  <2> QED
    BY <2>1, <2>2 DEF StoreInv, Stacks, UnwindNested
<1>2. InBatch /\ depth = 2 /\ depth - 1 = 1 /\ Front(frames) = <<"batch">> /\ step # "idle"
  BY <1>1, InsideFile, FrontOfTwo DEF InFile
<1>3. JobTyped /\ JobFiles /\ JobStep /\ DOMAIN job = JobFields
  BY <1>2 DEF StoreInv, JobOK
<1>4. depth' = 1 /\ frames' = <<"batch">> /\ step' = "files" /\ vecs' = vecs /\ ~InFile' /\ InBatch'
  BY <1>2 DEF UnwindNested, InFile, InBatch
<1>5. /\ DOMAIN job' = JobFields /\ job'.failed = job.failed \cup {c}
      /\ job'.kind = job.kind /\ job'.branch = job.branch /\ job'.tree = job.tree
      /\ job'.listed = job.listed /\ job'.redo = job.redo /\ job'.delete = job.delete
      /\ job'.reindex = job.reindex /\ job'.label = job.label /\ job'.current = c
      /\ job'.old = job.old /\ job'.new = job.new /\ job'.exact = job.exact
      /\ job'.embedded = job.embedded
  BY <1>3 DEF UnwindNested, JobFields
<1>6. Pending' = Pending \ {c} /\ Finished' = Finished
  BY <1>1, <1>3, <1>4, <1>5 DEF Pending, Finished, JobFiles
<1>7. JobOK'
  <2>1. JobTyped'
    BY <1>3, <1>5 DEF JobTyped
  <2>2. JobFiles'
    BY <1>1, <1>3, <1>4, <1>5, <1>6 DEF JobFiles, Pending, JobTyped
  <2>3. JobStep'
    BY <1>4 DEF JobStep
  <2> QED
    BY <1>5, <2>1, <2>2, <2>3 DEF JobOK
<1>8. CASE tx = <<>>
  <2>1. /\ disk' = disk /\ work' = work /\ tx' = <<>> /\ raising' = "storage" /\ work = disk
        /\ Base' = disk /\ ~Transacting'
    BY <1>2, <1>8, NoSavepoint DEF UnwindNested, StoreInv, Stacks, Base, Transacting
  <2>2. Stacks' /\ InFileWork' /\ Progress' /\ LabelsOK'
    BY <1>4, <2>1 DEF Stacks, Steps, InFileWork, Progress, LabelsOK
  <2>3. VectorsOK'
    BY <1>1, <1>4, <1>5, <2>1 DEF StoreInv, VectorsOK, Ids, InFile
  <2> QED
    BY <1>7, <2>1, <2>2, <2>3 DEF StoreInv
<1>9. CASE tx # <<>>
  <2>1. tx = <<Entry(0, disk), Entry(1, Base)>> /\ Transacting
    BY <1>1, <1>9, InsideFile
  <2>2. HasSavepoint(1) /\ Place(1) = 2 /\ tx[2].saved = Base /\ SubSeq(tx, 1, Place(1) - 1) = <<Entry(0, disk)>>
    BY <2>1, SavepointPlace
  <2>3. /\ disk' = disk /\ work' = Base /\ tx' = <<Entry(0, disk)>>
        /\ raising' = IF raising = "chunk" THEN "none" ELSE raising
    BY <1>2, <2>2 DEF UnwindNested, RollbackAndRelease
  <2>4. Base' = Base /\ Transacting' /\ tx' # <<>>
    BY <1>4, <2>3 DEF Base, Transacting
  <2>5. Stacks' /\ InFileWork'
    BY <1>1, <1>4, <2>3, <2>4 DEF StoreInv, Stacks, Steps, InFileWork
  <2>6. Progress'
    BY <1>5, <1>6, <2>1, <2>3, <2>4, ProgressCarries DEF StoreInv
  <2>7. VectorsOK'
    BY <1>1, <1>4, <1>5, <2>1, <2>3, <2>4 DEF StoreInv, VectorsOK, Ids, InFile
  <2>8. LabelsOK'
    BY <1>4, <1>5, <1>6, <2>1, <2>4 DEF StoreInv, LabelsOK, Labelled
  <2> QED
    BY <1>7, <2>3, <2>4, <2>5, <2>6, <2>7, <2>8 DEF StoreInv
<1> QED
  BY <1>8, <1>9

(* The end of a refresh, however it ends.                                    *)
LEMMA BackToIdle ==
  ASSUME StoreInv, Sound(disk)', work' = disk', tx' = <<>>, frames' = <<>>, depth' = 0,
         raising' = "none", vecs' = vecs, step' = "idle", job' = NoJob
  PROVE  StoreInv'
<1>1. ~InFile' /\ ~InBatch' /\ ~Transacting' /\ Base' = disk'
  BY DEF InFile, InBatch, Transacting, Base
<1>2. Stacks' /\ InFileWork' /\ Progress' /\ LabelsOK'
  BY <1>1 DEF Stacks, Steps, InFileWork, Progress, LabelsOK
<1>3. JobOK'
  BY <1>1 DEF JobOK, JobStep, NoJob, JobFields
<1>4. VectorsOK'
  BY DEF StoreInv, VectorsOK, NoJob
<1> QED
  BY <1>1, <1>2, <1>3, <1>4 DEF StoreInv

LEMMA UnwindBatchKeeps ==
  ASSUME StoreInv, UnwindBatch
  PROVE  StoreInv'
<1>1. Sound(disk)'
  BY DEF StoreInv, UnwindBatch, Rollback
<1> QED
  BY <1>1, BackToIdle DEF UnwindBatch, Rollback

LEMMA DieKeeps ==
  ASSUME StoreInv, Die
  PROVE  StoreInv'
<1>1. Sound(disk)'
  BY DEF StoreInv, Die, Rollback
<1> QED
  BY <1>1, BackToIdle DEF Die, Rollback

LEMMA WriteMetaKeeps ==
  ASSUME StoreInv, WriteMeta
  PROVE  StoreInv' /\ disk'.rows = disk.rows /\ disk'.hashes = disk.hashes /\ disk'.active = job.branch
<1>1. tx = <<>> /\ work = disk /\ frames = <<>> /\ depth = 0 /\ raising = "none" /\ step = "meta"
  BY OutsideBatch DEF WriteMeta, InBatch
<1>2. Sound(disk) /\ job.branch \in Branches /\ job.redo \subseteq Paths
  BY <1>1 DEF StoreInv, JobOK, JobTyped
<1>3. DOMAIN disk = TableNames
  BY <1>2 DEF Sound, RowsOK
<1>4. /\ DOMAIN disk' = TableNames /\ disk'.rows = disk.rows /\ disk'.fts = disk.fts
      /\ disk'.links = disk.links /\ disk'.hashes = disk.hashes /\ disk'.replaced = disk.replaced
      /\ disk'.active = job.branch
      /\ disk'.vecDirty = IF job.listed = {} THEN disk.vecDirty ELSE IF job.embedded THEN {} ELSE job.redo
  BY <1>1, <1>3 DEF WriteMeta, Write, TableNames
<1>5. Sound(disk)'
  <2>1. RowsOK(disk)'
    BY <1>2, <1>4 DEF Sound, RowsOK
  <2>2. PostingsOK(disk)'
    BY <1>2, <1>4 DEF Sound, PostingsOK
  <2>3. FilesOK(disk)'
    BY <1>2, <1>4 DEF Sound, FilesOK, IdsAt, HashedIds, Ids
  <2>4. MetaOK(disk)'
    BY <1>2, <1>4 DEF Sound, MetaOK
  <2> QED
    BY <2>1, <2>2, <2>3, <2>4 DEF Sound
<1>6. work' = disk' /\ tx' = <<>>
  BY <1>1 DEF WriteMeta, Write
<1>7. /\ frames' = <<>> /\ depth' = 0 /\ raising' = "none" /\ vecs' = vecs
      /\ step' = "idle" /\ job' = NoJob
  BY <1>1 DEF WriteMeta
<1>8. StoreInv'
  BY <1>5, <1>6, <1>7, BackToIdle
<1> QED
  BY <1>4, <1>8

(* Labelling the files that have not changed, in the batch or by itself.     *)
LEMMA LabelFileKeeps ==
  ASSUME StoreInv, NEW f \in Paths, LabelFile(f)
  PROVE  StoreInv' /\ \A g \in Paths : IdsAt(disk', g) = IdsAt(disk, g) /\ HashAt(disk', g) = HashAt(disk, g)
<1> DEFINE rs == RowsOf(work, f)
<1>1. /\ step \in {"files", "label"} /\ step # "idle" /\ raising = "none" /\ ~InFile /\ ~InFile'
      /\ f \in job.label /\ frames' = frames /\ depth' = depth /\ raising' = raising
      /\ vecs' = vecs /\ step' = step /\ work' = AddLabel(work, rs, job.branch)
  BY DEF LabelFile, Running, InFile, Write
<1>2. JobTyped /\ JobFiles /\ JobStep /\ DOMAIN job = JobFields
  BY <1>1 DEF StoreInv, JobOK
<1>3. /\ DOMAIN job' = JobFields /\ job'.label = job.label \ {f}
      /\ job'.kind = job.kind /\ job'.branch = job.branch /\ job'.tree = job.tree
      /\ job'.listed = job.listed /\ job'.redo = job.redo /\ job'.delete = job.delete
      /\ job'.reindex = job.reindex /\ job'.current = job.current /\ job'.failed = job.failed
      /\ job'.old = job.old /\ job'.new = job.new /\ job'.exact = job.exact
      /\ job'.embedded = job.embedded
  BY <1>2 DEF LabelFile, JobFields
<1>4. Pending' = Pending /\ Finished' = Finished
  BY <1>1, <1>3 DEF Pending, Finished
<1>5. /\ Sound(work') /\ Ids(work') = Ids(work)
      /\ \A g \in Paths : IdsAt(work', g) = IdsAt(work, g) /\ HashAt(work', g) = HashAt(work, g)
      /\ DOMAIN work'.rows = DOMAIN work.rows
      /\ \A r \in DOMAIN work'.rows :
           /\ work'.rows[r].id = work.rows[r].id /\ work.rows[r].labels \subseteq work'.rows[r].labels
           /\ r \in rs => job.branch \in work'.rows[r].labels
  <2>1. job.branch \in Branches /\ Sound(work)
    BY <1>2 DEF JobTyped, StoreInv
  <2> HIDE DEF rs
  <2> QED
    BY <1>1, <2>1, AddLabelKeeps, AddLabelKeepsRows DEF Sound
<1>6. JobOK'
  <2>1. JobTyped'
    BY <1>2, <1>3 DEF JobTyped
  <2>2. JobFiles'
    BY <1>1, <1>2, <1>3, <1>4 DEF JobFiles
  <2>3. JobStep'
    BY <1>1, <1>2, <1>3, <1>4 DEF JobStep
  <2> QED
    BY <1>3, <2>1, <2>2, <2>3 DEF JobOK
<1>7. Labelled(work) => Labelled(work)'
  <2> HIDE DEF rs
  <2>1. ASSUME Labelled(work), NEW r \in DOMAIN work'.rows,
               work'.rows[r].id.file \in Finished' \/
                 (job'.kind = "git" /\ work'.rows[r].id.file \notin job'.listed \cup job'.label)
        PROVE  job'.branch \in work'.rows[r].labels
    <3>1. CASE work.rows[r].id.file = f
      <4>1. r \in rs
        BY <1>5, <2>1, <3>1 DEF rs, RowsOf
      <4> QED
        BY <1>3, <1>5, <4>1
    <3>2. CASE work.rows[r].id.file # f
      <4>1. work.rows[r].id.file \in Finished \/
              (job.kind = "git" /\ work.rows[r].id.file \notin job.listed \cup job.label)
        BY <1>3, <1>4, <1>5, <2>1, <3>2
      <4>2. job.branch \in work.rows[r].labels
        BY <1>5, <2>1, <4>1 DEF Labelled
      <4> QED
        BY <1>3, <1>5, <4>2
    <3> QED
      BY <3>1, <3>2
  <2> QED
    BY <2>1 DEF Labelled
<1>8. CASE step = "files"
  <2>1. /\ tx = <<Entry(0, disk)>> /\ depth = 1 /\ Base = work /\ Transacting /\ tx # <<>>
        /\ frames = <<"batch">>
    BY <1>1, <1>8, BetweenFiles
  <2>2. disk' = disk /\ tx' = tx
    BY <2>1 DEF LabelFile, Write
  <2>3. Base' = work' /\ Transacting' /\ InBatch'
    BY <1>1, <1>8, <2>1, <2>2 DEF Base, Transacting, InBatch
  <2>4. Stacks' /\ InFileWork'
    BY <1>1, <1>8, <2>1, <2>2, <2>3 DEF StoreInv, Stacks, InFileWork
  <2>5. Progress'
    <3>1. \A g \in Paths : IF g \in Finished THEN HashAt(work, g) = TreeAt(g) ELSE Same(work, g)
      BY <2>1 DEF StoreInv, Progress
    <3>2. \A g \in Paths : Same(work, g) => Same(work, g)'
      BY <1>5, <2>2 DEF Same, IdsAt, Ids, HashAt
    <3>3. \A g \in Paths : TreeAt(g)' = TreeAt(g)
      BY <1>3 DEF TreeAt
    <3> QED
      BY <1>4, <1>5, <2>3, <3>1, <3>2, <3>3 DEF Progress
  <2>6. VectorsOK'
    BY <1>1, <1>3, <1>5, <1>8, <2>1, <2>2, <2>3 DEF StoreInv, VectorsOK, Ids
  <2>7. LabelsOK'
    BY <1>1, <1>7, <1>8, <2>1, <2>3 DEF StoreInv, LabelsOK, Labelled
  <2>8. Sound(disk)'
    BY <2>2 DEF StoreInv
  <2>9. StoreInv'
    BY <1>5, <1>6, <2>3, <2>4, <2>5, <2>6, <2>7, <2>8 DEF StoreInv
  <2> QED
    BY <2>2, <2>9
<1>9. CASE step = "label"
  <2>1. tx = <<>> /\ work = disk /\ Base = disk /\ frames = <<>> /\ depth = 0
    BY <1>9, OutsideBatch DEF InBatch
  <2>2. disk' = work' /\ tx' = <<>> /\ Base' = work' /\ ~InBatch' /\ ~Transacting'
    BY <1>1, <1>9, <2>1 DEF LabelFile, Write, Base, InBatch, Transacting
  <2>3. Stacks' /\ InFileWork' /\ Progress'
    BY <1>1, <1>9, <2>1, <2>2 DEF Stacks, Steps, InFileWork, Progress
  <2>4. VectorsOK'
    BY <1>1, <1>3, <1>5, <1>9, <2>1, <2>2 DEF StoreInv, VectorsOK, Ids
  <2>5. LabelsOK'
    BY <1>1, <1>7, <1>9, <2>1, <2>2 DEF StoreInv, LabelsOK, Labelled
  <2>6. StoreInv'
    BY <1>5, <1>6, <2>2, <2>3, <2>4, <2>5 DEF StoreInv
  <2> QED
    BY <1>5, <2>1, <2>2, <2>6
<1> QED
  BY <1>1, <1>8, <1>9

(* The commit.                                                               *)
LEMMA CommitBatchKeeps ==
  ASSUME StoreInv, CommitBatch
  PROVE  StoreInv' /\ disk' = Base /\ Transacting /\ Finished = job.listed \ job.failed
<1>1. /\ step = "files" /\ tx = <<Entry(0, disk)>> /\ depth = 1 /\ raising = "none"
      /\ Base = work /\ ~InFile /\ Transacting
  BY BetweenFiles DEF CommitBatch, Running
<1>2. /\ disk' = work /\ work' = work /\ tx' = <<>> /\ frames' = <<>> /\ depth' = 0
      /\ raising' = "none" /\ vecs' = vecs /\ step' = "vectors" /\ job' = job
      /\ job.delete = {} /\ job.reindex = {} /\ job.label = {}
  BY <1>1 DEF CommitBatch, Commit, NoneLeft
<1>3. ~InFile' /\ ~InBatch' /\ ~Transacting' /\ Base' = work
  BY <1>2 DEF InFile, InBatch, Transacting, Base
<1>4. Pending = {} /\ Pending' = {} /\ Finished' = Finished /\ Finished = job.listed \ job.failed
  BY <1>1, <1>2, <1>3 DEF Pending, Finished
<1>5. JobOK'
  <2>1. JobTyped /\ JobFiles /\ DOMAIN job = JobFields
    BY <1>1 DEF StoreInv, JobOK
  <2>2. JobTyped' /\ JobFiles' /\ JobStep'
    BY <1>2, <1>3, <1>4, <2>1 DEF JobTyped, JobFiles, JobStep
  <2> QED
    BY <1>2, <2>1, <2>2 DEF JobOK
<1>6. Stacks' /\ InFileWork' /\ Progress'
  BY <1>2, <1>3 DEF Stacks, Steps, InFileWork, Progress
<1>7. VectorsOK'
  BY <1>1, <1>2, <1>3 DEF StoreInv, VectorsOK, Ids
<1>8. LabelsOK'
  BY <1>1, <1>2, <1>3, <1>4 DEF StoreInv, LabelsOK, Labelled
<1>9. StoreInv'
  BY <1>2, <1>3, <1>5, <1>6, <1>7, <1>8 DEF StoreInv
<1> QED
  BY <1>1, <1>2, <1>4, <1>9

(* What comes after it.                                                      *)
LEMMA OutsideKeeps ==
  ASSUME StoreInv, step \in {"label", "vectors", "embed"}, step' \in {"meta", "embed"},
         UNCHANGED <<disk, work, tx, frames, depth, raising>>,
         job' = job \/ job' = [job EXCEPT !.embedded = FALSE], job.label = {},
         VectorsOK'
  PROVE  StoreInv'
<1>1. /\ tx = <<>> /\ work = disk /\ Base = disk /\ frames = <<>> /\ depth = 0 /\ raising = "none"
      /\ ~InFile
  BY OutsideBatch DEF InBatch
<1>2. ~InFile' /\ ~InBatch' /\ ~Transacting' /\ Base' = disk
  BY <1>1 DEF InFile, InBatch, Transacting, Base
<1>3. JobTyped /\ JobFiles /\ JobStep /\ DOMAIN job = JobFields
  BY DEF StoreInv, JobOK
<1>4. /\ DOMAIN job' = JobFields /\ job'.label = {}
      /\ job'.kind = job.kind /\ job'.branch = job.branch /\ job'.tree = job.tree
      /\ job'.listed = job.listed /\ job'.redo = job.redo /\ job'.delete = job.delete
      /\ job'.reindex = job.reindex /\ job'.current = job.current /\ job'.failed = job.failed
      /\ job'.old = job.old /\ job'.new = job.new /\ job'.exact = job.exact
      /\ job'.embedded \in BOOLEAN
  BY <1>3 DEF JobFields, JobTyped
<1>5. Pending' = Pending /\ Finished' = Finished /\ Pending = {}
  BY <1>1, <1>2, <1>3, <1>4 DEF Pending, Finished, JobStep
<1>6. JobOK'
  <2>1. JobTyped'
    BY <1>3, <1>4 DEF JobTyped
  <2>2. JobFiles'
    BY <1>2, <1>3, <1>4, <1>5 DEF JobFiles
  <2>3. JobStep'
    BY <1>2, <1>4, <1>5 DEF JobStep
  <2> QED
    BY <1>4, <2>1, <2>2, <2>3 DEF JobOK
<1>7. Stacks' /\ InFileWork' /\ Progress'
  BY <1>1, <1>2 DEF Stacks, Steps, InFileWork, Progress
<1>8. LabelsOK'
  BY <1>2, <1>4, <1>5 DEF StoreInv, LabelsOK, Labelled
<1> QED
  BY <1>1, <1>2, <1>6, <1>7, <1>8 DEF StoreInv

LEMMA PhaseTwoKeeps ==
  ASSUME StoreInv, LabelsDone \/ DeleteVectors \/ EmbedAndInsert \/ EmbeddingFails
  PROVE  StoreInv'
<1>1. /\ VectorsOK /\ step \in {"label", "vectors", "embed"} /\ ~InBatch /\ JobStep /\ JobTyped
      /\ DOMAIN job = JobFields
  BY DEF StoreInv, JobOK, LabelsDone, DeleteVectors, EmbedAndInsert, EmbeddingFails, InBatch
<1>2. CASE LabelsDone
  <2>1. VectorsOK'
    BY <1>1, <1>2 DEF LabelsDone, Unaffected, VectorsOK, Transacting, InBatch, Ids
  <2>2. job' = job /\ job.label = {}
    BY <1>1, <1>2 DEF LabelsDone, NoneLeft, JobTyped, JobFields
  <2> QED
    BY <1>1, <1>2, <2>1, <2>2, OutsideKeeps DEF LabelsDone, Unaffected
<1>3. CASE DeleteVectors
  <2>1. VectorsOK'
    BY <1>1, <1>3 DEF DeleteVectors, VectorsOK, Transacting, InBatch, Ids
  <2>2. job' = job /\ job.label = {}
    BY <1>1, <1>3 DEF DeleteVectors, JobTyped, JobFields, JobStep
  <2> QED
    BY <1>1, <1>3, <2>1, <2>2, OutsideKeeps DEF DeleteVectors
<1>4. CASE EmbedAndInsert
  <2>1. VectorsOK'
    BY <1>1, <1>4 DEF EmbedAndInsert, VectorsOK, Transacting, InBatch, Ids, JobTyped
  <2>2. job' = job /\ job.label = {}
    BY <1>1, <1>4 DEF EmbedAndInsert, JobTyped, JobFields, JobStep
  <2> QED
    BY <1>1, <1>4, <2>1, <2>2, OutsideKeeps DEF EmbedAndInsert
<1>5. CASE EmbeddingFails
  <2>1. job'.embedded = FALSE /\ job' = [job EXCEPT !.embedded = FALSE] /\ job.label = {}
    BY <1>1, <1>5 DEF EmbeddingFails, JobFields, JobStep
  <2>2. VectorsOK'
    BY <1>1, <1>5, <2>1 DEF EmbeddingFails, Unaffected, VectorsOK, Transacting, InBatch, Ids
  <2> QED
    BY <1>1, <1>5, <2>1, <2>2, OutsideKeeps DEF EmbeddingFails, Unaffected
<1> QED
  BY <1>2, <1>3, <1>4, <1>5

LEMMA StutterKeeps ==
  ASSUME StoreInv, UNCHANGED storeVars
  PROVE  StoreInv'
<1>1. /\ disk' = disk /\ work' = work /\ tx' = tx /\ frames' = frames /\ depth' = depth
      /\ raising' = raising /\ vecs' = vecs /\ step' = step /\ job' = job
  BY DEF storeVars
<1>2. /\ (InFile' <=> InFile) /\ (InBatch' <=> InBatch) /\ Base' = Base /\ (Transacting' <=> Transacting)
      /\ Pending' = Pending /\ Finished' = Finished
  BY <1>1 DEF InFile, InBatch, Base, Transacting, Pending, Finished
<1>3. Stacks' /\ InFileWork' /\ JobOK'
  BY <1>1, <1>2 DEF StoreInv, Stacks, InFileWork, JobOK, JobTyped, JobFiles, JobStep
<1>4. Progress'
  <2>1. Transacting' => Progress'
    BY <1>1, <1>2, ProgressCarries DEF StoreInv
  <2> QED
    BY <2>1 DEF Progress
<1>5. VectorsOK'
  BY <1>1, <1>2 DEF StoreInv, VectorsOK, Ids
<1>6. LabelsOK'
  BY <1>1, <1>2 DEF StoreInv, LabelsOK, Labelled
<1> QED
  BY <1>1, <1>2, <1>3, <1>4, <1>5, <1>6 DEF StoreInv

LEMMA StoreNextKeeps ==
  ASSUME StoreInv, [StoreNext]_storeVars
  PROVE  StoreInv'
<1>1. ASSUME NEW tree \in Trees, NEW b \in Branches, NEW kind \in {"git", "legacy"},
             Start(tree, b, kind, {})
      PROVE  StoreInv'
  BY <1>1, StartKeeps
<1>2. ASSUME NEW tree \in Trees, NEW b \in Branches, NEW asked \in SUBSET Paths \ {{}},
             Start(tree, b, "targeted", asked)
      PROVE  StoreInv'
  BY <1>2, StartKeeps
<1>3. ASSUME NEW f \in Paths, DeleteFile(f) \/ EnterFile(f) \/ LabelFile(f)
      PROVE  StoreInv'
  BY <1>3, DeleteFileKeeps, EnterFileKeeps, LabelFileKeeps
<1>4. CASE BeginBatch
  BY <1>4, BeginBatchKeeps
<1>5. CASE DeleteOld
  BY <1>5, DeleteOldKeeps
<1>6. CASE ChunkingFails
  BY <1>6, ChunkingFailsKeeps
<1>7. CASE IndexFile
  BY <1>7, IndexFileKeeps
<1>8. CASE LeaveFile
  BY <1>8, LeaveFileKeeps
<1>9. CASE StorageFails
  BY <1>9, StorageFailsKeeps
<1>10. CASE UnwindNested
  BY <1>10, UnwindNestedKeeps
<1>11. CASE UnwindBatch
  BY <1>11, UnwindBatchKeeps
<1>12. CASE CommitBatch
  BY <1>12, CommitBatchKeeps
<1>13. CASE LabelsDone \/ DeleteVectors \/ EmbedAndInsert \/ EmbeddingFails
  BY <1>13, PhaseTwoKeeps
<1>14. CASE WriteMeta
  BY <1>14, WriteMetaKeeps
<1>15. CASE Die
  BY <1>15, DieKeeps
<1>16. CASE UNCHANGED storeVars
  BY <1>16, StutterKeeps
<1> QED
  BY <1>1, <1>2, <1>3, <1>4, <1>5, <1>6, <1>7, <1>8, <1>9, <1>10, <1>11, <1>12, <1>13, <1>14,
     <1>15, <1>16 DEF StoreNext

(* Every reachable state satisfies the invariant.                            *)
THEOREM StoreInvariant == StoreSpec => []StoreInv
<1>1. StoreInit => StoreInv
  BY StoreInitInv
<1>2. StoreInv /\ [StoreNext]_storeVars => StoreInv'
  BY StoreNextKeeps
<1> QED
  BY <1>1, <1>2, PTL DEF StoreSpec

-----------------------------------------------------------------------------
(* The invariants of the runs.                                               *)
LEMMA SoundTables ==
  ASSUME NEW db, Sound(db)
  PROVE  IsTables(db)
<1>1. /\ DOMAIN db.rows \subseteq Nat /\ Ids(db) \subseteq ChunkIds
      /\ \A r \in DOMAIN db.rows : db.rows[r].labels \subseteq Branches
  BY IdsTyped DEF Sound, RowsOK, Row
<1>2. db.fts \subseteq Nat \X ChunkIds /\ db.replaced \in BOOLEAN
  BY DEF Sound, PostingsOK
<1>3. db.links \subseteq {"ref", "symbol"} \X ChunkIds
  BY <1>1 DEF Sound, FilesOK
<1>4. DOMAIN db.hashes \subseteq Paths /\ Range(db.hashes) \subseteq FileVersions
  BY DEF Sound, FilesOK, Range
<1>5. db.active \in Branches \cup {""} /\ db.vecDirty \subseteq Paths
  BY DEF Sound, MetaOK
<1> QED
  BY <1>1, <1>2, <1>3, <1>4, <1>5 DEF IsTables, ChunkIds

(* The depth, the context managers and the savepoints count the same, and    *)
(* nothing is left of them once the refresh is over (StacksAligned).         *)
THEOREM StoreStacks == StoreSpec => []StacksAligned
<1>1. ASSUME StoreInv PROVE StacksAligned
  <2>1. IsTables(disk) /\ IsTables(work) /\ IsTables(Base)
    BY <1>1, SoundTables DEF StoreInv
  <2>2. Len(<<>>) = 0 /\ Len(<<"batch">>) = 1 /\ Len(<<"batch", "nested">>) = 2
    OBVIOUS
  <2>3. depth = Len(frames) /\ depth \in 0 .. 2 /\ frames \in {<<>>, <<"batch">>, <<"batch", "nested">>}
    BY <1>1, <2>2 DEF StoreInv, Stacks, InFile
  <2>4. CASE tx = <<>>
    <3>1. DOMAIN tx = {}
      BY <2>4, NothingIsAFunction
    <3> QED
      BY <1>1, <2>1, <2>3, <2>4, <3>1 DEF StacksAligned, StoreTypeOK, StoreInv, Stacks, Idle, InFile
  <2>5. CASE tx # <<>>
    <3>1. InBatch
      BY <1>1, <2>5 DEF StoreInv, Stacks
    <3>2. Len(tx) = Len(frames) /\ \A k \in DOMAIN tx : IsTables(tx[k].saved)
      <4>1. CASE InFile
        <5>1. tx = <<Entry(0, disk), Entry(1, Base)>>
          BY <1>1, <2>5, <4>1 DEF StoreInv, Stacks
        <5>2. Len(tx) = 2 /\ DOMAIN tx = {1, 2} /\ tx[1] = Entry(0, disk) /\ tx[2] = Entry(1, Base)
          BY <5>1
        <5> QED
          BY <1>1, <2>1, <2>2, <4>1, <5>2 DEF Entry, StoreInv, Stacks
      <4>2. CASE ~InFile
        <5>1. tx = <<Entry(0, disk)>> /\ frames = <<"batch">>
          BY <1>1, <2>5, <3>1, <4>2 DEF StoreInv, Stacks, InBatch, InFile
        <5>2. Len(tx) = 1 /\ DOMAIN tx = {1} /\ tx[1] = Entry(0, disk)
          BY <5>1
        <5> QED
          BY <2>1, <2>2, <5>1, <5>2 DEF Entry
      <4> QED
        BY <4>1, <4>2
    <3> QED
      BY <1>1, <2>1, <2>3, <2>5, <3>1, <3>2
      DEF StacksAligned, StoreTypeOK, StoreInv, Stacks, Idle, InBatch
  <2> QED
    BY <2>4, <2>5
<1> QED
  BY <1>1, StoreInvariant, PTL

(* What is committed has every file whole (FilesWhole): a file with a hash   *)
(* has the chunks of that version, one row each, and one without has none.   *)
THEOREM StoreFilesWhole == StoreSpec => []FilesWhole
<1>1. ASSUME StoreInv PROVE FilesWhole
  <2>0. RowsOK(disk) /\ FilesOK(disk)
    BY <1>1 DEF StoreInv, Sound
  <2> SUFFICES ASSUME NEW f \in Paths
               PROVE  /\ {disk.rows[r].id : r \in RowsOf(disk, f)} = HashedIds(disk, f)
                      /\ Cardinality(RowsOf(disk, f)) = Cardinality(HashedIds(disk, f))
                      /\ {l \in disk.links : l[2].file = f} = {"ref", "symbol"} \X HashedIds(disk, f)
    BY DEF FilesWhole, HashedIds
  <2>1. IdsAt(disk, f) = HashedIds(disk, f)
    BY <2>0 DEF FilesOK
  <2>2. {disk.rows[r].id : r \in RowsOf(disk, f)} = IdsAt(disk, f)
    BY DEF RowsOf, IdsAt, Ids
  <2>3. {l \in disk.links : l[2].file = f} = {"ref", "symbol"} \X IdsAt(disk, f)
    BY <2>0 DEF FilesOK, IdsAt
  <2>4. Cardinality(RowsOf(disk, f)) = Cardinality(IdsAt(disk, f))
    <3> DEFINE R == RowsOf(disk, f)
               idOf == [r \in R |-> disk.rows[r].id]
    <3>1. IsFiniteSet(R)
      BY <2>0, FS_Subset DEF RowsOK, RowsOf
    <3>2. idOf \in Bijection(R, IdsAt(disk, f))
      <4>1. \A r \in R : idOf[r] \in IdsAt(disk, f)
        BY DEF RowsOf, IdsAt, Ids
      <4>2. \A r, q \in R : idOf[r] = idOf[q] => r = q
        BY <2>0 DEF RowsOK, RowsOf
      <4>3. \A id \in IdsAt(disk, f) : \E r \in R : idOf[r] = id
        BY DEF RowsOf, IdsAt, Ids
      <4> HIDE DEF R
      <4>4. idOf \in [R -> IdsAt(disk, f)]
        BY <4>1
      <4> HIDE DEF idOf
      <4>5. idOf \in Injection(R, IdsAt(disk, f)) /\ idOf \in Surjection(R, IdsAt(disk, f))
        BY <4>2, <4>3, <4>4 DEF Injection, Surjection, IsInjective
      <4> QED
        BY <4>5 DEF Bijection
    <3> HIDE DEF idOf, R
    <3> QED
      BY <3>1, <3>2, FS_Bijection DEF R, ExistsBijection
  <2> QED
    BY <2>1, <2>2, <2>3, <2>4
<1> QED
  BY <1>1, StoreInvariant, PTL

(* A search finds a chunk that is there and, unless REPLACE ever met a row,  *)
(* nothing else (SearchExact).                                               *)
THEOREM StoreSearch == StoreSpec => []SearchExact
<1>1. ASSUME StoreInv PROVE SearchExact
  <2>1. PostingsOK(disk)
    BY <1>1 DEF StoreInv, Sound
  <2> SUFFICES ASSUME NEW id \in [file : Paths, text : Texts]
               PROVE  /\ id \in Ids(disk) => id \in Search(disk, id)
                      /\ ~disk.replaced => Search(disk, id) \subseteq {id} \cap Ids(disk)
    BY DEF SearchExact
  <2>2. ASSUME id \in Ids(disk) PROVE id \in Search(disk, id)
    BY <2>1, <2>2 DEF Ids, Search, PostingsOK
  <2>3. ASSUME ~disk.replaced, NEW r \in DOMAIN disk.rows, <<r, id>> \in disk.fts
        PROVE  disk.rows[r].id = id
    <3>1. <<r, id>>[1] = r /\ <<r, id>>[2] = id
      OBVIOUS
    <3> QED
      BY <2>1, <2>3, <3>1 DEF PostingsOK
  <2> QED
    BY <2>2, <2>3 DEF Search, Ids
<1> QED
  BY <1>1, StoreInvariant, PTL

-----------------------------------------------------------------------------
(* The properties of steps.                                                  *)
Counted == spent \in [refreshes : Nat, failures : Nat, deaths : Nat]

LEMMA SpentCounts == StoreSpec => []Counted
<1>1. StoreInit => Counted
  BY DEF StoreInit, Counted
<1>2. StoreNext => spent' = spent \/ \E what \in {"refreshes", "failures", "deaths"} : Spend(what)
  BY DEF StoreNext, Start, DeleteFile, EnterFile, LabelFile, BeginBatch, DeleteOld, ChunkingFails,
     IndexFile, LeaveFile, StorageFails, UnwindNested, UnwindBatch, LabelsDone, CommitBatch,
     DeleteVectors, EmbedAndInsert, EmbeddingFails, WriteMeta, Die
<1>3. ASSUME Counted, NEW what \in {"refreshes", "failures", "deaths"}, Spend(what) PROVE Counted'
  BY <1>3 DEF Counted, Spend
<1>4. Counted /\ [StoreNext]_storeVars => Counted'
  BY <1>2, <1>3 DEF Counted, storeVars
<1> QED
  BY <1>1, <1>4, PTL DEF StoreSpec

(* Where what is committed can change.                                       *)
LEMMA WhatChangesDisk ==
  ASSUME StoreInv, [StoreNext]_storeVars
  PROVE  disk' = disk \/ CommitBatch \/ WriteMeta \/ \E f \in Paths : LabelFile(f)
<1>1. ASSUME NEW f \in Paths, DeleteFile(f) PROVE disk' = disk
  <2>1. depth = 1
    BY <1>1, BetweenFiles DEF DeleteFile, Running
  <2> QED
    BY <1>1, <2>1 DEF DeleteFile, Write
<1>2. ASSUME DeleteOld \/ IndexFile PROVE disk' = disk
  <2>1. depth = 2
    BY <1>2, InsideFile DEF DeleteOld, IndexFile, InFile
  <2> QED
    BY <1>2, <2>1 DEF DeleteOld, IndexFile, Write
<1>3. StorageFails \/ UnwindNested \/ UnwindBatch \/ Die => disk' = disk
  BY DEF StorageFails, UnwindNested, UnwindBatch, Die, Rollback, RollbackAndRelease
<1>4. LeaveFile \/ BeginBatch \/ ChunkingFails => disk' = disk
  BY DEF LeaveFile, Release, BeginBatch, Begin, ChunkingFails
<1>5. LabelsDone \/ DeleteVectors \/ EmbedAndInsert \/ EmbeddingFails => disk' = disk
  BY DEF LabelsDone, DeleteVectors, EmbedAndInsert, EmbeddingFails, Unaffected
<1>6. ASSUME NEW f \in Paths, EnterFile(f) PROVE disk' = disk
  BY <1>6 DEF EnterFile, Savepoint
<1>7. ASSUME NEW tree, NEW b, NEW kind, NEW asked, Start(tree, b, kind, asked) PROVE disk' = disk
  BY <1>7 DEF Start, Unaffected
<1>8. UNCHANGED storeVars => disk' = disk
  BY DEF storeVars
<1> QED
  BY <1>1, <1>2, <1>3, <1>4, <1>5, <1>6, <1>7, <1>8 DEF StoreNext

(* The content of the index changes in the commit of a refresh, and there    *)
(* every file it is through with is in its new version and every other one   *)
(* as it was (CommitsWhole).                                                 *)
THEOREM StoreCommits == StoreSpec => CommitsWhole
<1> DEFINE Whole ==
      (\E f \in Paths : Indexed(disk', f) # Indexed(disk, f)) =>
         \A f \in Paths :
           IF f \in job.listed \ job.failed
             THEN Restrict(disk'.hashes, {f} \cap DOMAIN disk'.hashes)
                    = Restrict(job.tree, {f} \cap DOMAIN job.tree)
             ELSE Indexed(disk', f) = Indexed(disk, f)
<1>1. ASSUME StoreInv, [StoreNext]_storeVars PROVE Whole
  <2>1. \A f \in Paths :
          /\ Indexed(disk, f) = [ids |-> IdsAt(disk, f), hash |-> HashAt(disk, f)]
          /\ Indexed(disk', f) = [ids |-> IdsAt(disk', f), hash |-> HashAt(disk', f)]
    <3>1. ASSUME NEW db, NEW f PROVE {db.rows[r].id : r \in RowsOf(db, f)} = IdsAt(db, f)
      BY DEF RowsOf, IdsAt, Ids
    <3> QED
      BY <3>1 DEF Indexed, HashAt
  <2>2. CASE disk' = disk
    BY <2>2
  <2>3. ASSUME NEW f \in Paths, LabelFile(f) PROVE Whole
    BY <1>1, <2>1, <2>3, LabelFileKeeps
  <2>4. CASE WriteMeta
    <3>1. \A f \in Paths : IdsAt(disk', f) = IdsAt(disk, f) /\ HashAt(disk', f) = HashAt(disk, f)
      BY <1>1, <2>4, WriteMetaKeeps DEF IdsAt, Ids, HashAt
    <3> QED
      BY <2>1, <3>1
  <2>5. CASE CommitBatch
    <3>1. disk' = Base /\ Transacting /\ Finished = job.listed \ job.failed
      BY <1>1, <2>5, CommitBatchKeeps
    <3>2. \A f \in Paths : IF f \in Finished THEN HashAt(disk', f) = TreeAt(f) ELSE Same(disk', f)
      BY <1>1, <3>1 DEF StoreInv, Progress
    <3>3. \A f \in Paths : Same(disk', f) => Indexed(disk', f) = Indexed(disk, f)
      BY <2>1 DEF Same
    <3> QED
      BY <3>1, <3>2, <3>3 DEF HashAt, TreeAt
  <2> QED
    BY <1>1, <2>2, <2>3, <2>4, <2>5, WhatChangesDisk
<1>2. StoreInv /\ [StoreNext]_storeVars => [Whole]_storeVars
  BY <1>1
<1> QED
  BY <1>2, StoreInvariant, PTL DEF StoreSpec, CommitsWhole

(* The only step that ends the meta phase without a death is the last one.   *)
LEMMA LastStep ==
  ASSUME StoreInv, Counted, StoreNext, step = "meta", spent' = spent
  PROVE  WriteMeta
<1>1. ~Die
  <2>1. spent.deaths + 1 # spent.deaths
    BY DEF Counted
  <2> QED
    BY <2>1 DEF Die, Spend, Counted
<1>2. ~UnwindNested /\ ~UnwindBatch
  BY OutsideBatch DEF UnwindNested, UnwindBatch, InBatch
<1> QED
  BY <1>1, <1>2 DEF StoreNext, Start, Idle, DeleteFile, EnterFile, LabelFile, BeginBatch,
     DeleteOld, ChunkingFails, IndexFile, LeaveFile, StorageFails, InBatch, LabelsDone,
     CommitBatch, DeleteVectors, EmbedAndInsert, EmbeddingFails

(* A refresh that gets through leaves every chunk it answers for in the      *)
(* active branch (ActiveBranchLabelled).                                     *)
THEOREM StoreLabels == StoreSpec => ActiveBranchLabelled
<1> DEFINE Active ==
      (step = "meta" /\ spent' = spent) =>
         \A r \in DOMAIN disk'.rows :
           LET f == disk'.rows[r].id.file
           IN  (f \notin job.failed /\ (job.kind = "git" \/ f \in job.listed))
                 => disk'.active \in disk'.rows[r].labels
<1>1. ASSUME StoreInv, Counted, StoreNext, step = "meta", spent' = spent,
             NEW r \in DOMAIN disk'.rows,
             disk'.rows[r].id.file \notin job.failed,
             job.kind = "git" \/ disk'.rows[r].id.file \in job.listed
      PROVE  disk'.active \in disk'.rows[r].labels
  <2>1. disk'.rows = disk.rows /\ disk'.active = job.branch
    BY <1>1, LastStep, WriteMetaKeeps
  <2>2. Labelled(disk) /\ Pending = {} /\ job.label = {}
    BY <1>1 DEF StoreInv, LabelsOK, JobOK, JobStep
  <2> QED
    BY <1>1, <2>1, <2>2 DEF Labelled, Finished
<1>2. StoreInv /\ Counted /\ [StoreNext]_storeVars => [Active]_storeVars
  BY <1>1
<1> QED
  BY <1>2, StoreInvariant, SpentCounts, PTL DEF StoreSpec, ActiveBranchLabelled

(* A refresh that gets through, and found the vectors to be those of the     *)
(* chunks, leaves them so (VectorsFollowChunks).                             *)
THEOREM StoreVectors == StoreSpec => VectorsFollowChunks
<1> DEFINE Follow == (step = "meta" /\ spent' = spent /\ job.exact /\ job.embedded) => vecs' = Ids(disk')
<1>1. ASSUME StoreInv, Counted, StoreNext, step = "meta", spent' = spent, job.exact, job.embedded
      PROVE  vecs' = Ids(disk')
  <2>1. WriteMeta /\ vecs' = vecs /\ disk'.rows = disk.rows
    BY <1>1, LastStep, WriteMetaKeeps DEF WriteMeta
  <2>2. Ids(disk) = vecs
    BY <1>1 DEF StoreInv, VectorsOK
  <2> QED
    BY <2>1, <2>2 DEF Ids
<1>2. StoreInv /\ Counted /\ [StoreNext]_storeVars => [Follow]_storeVars
  BY <1>1
<1> QED
  BY <1>2, StoreInvariant, SpentCounts, PTL DEF StoreSpec, VectorsFollowChunks

-----------------------------------------------------------------------------
(* The swap: AtomicSwap.                                                     *)

Generations == 1 .. 1 + MaxBuilds
FileStates == [gen : Generations, main : Int, old : BOOLEAN]
LogStates == [gen : 0 .. 1 + MaxBuilds, upto : Int, frames : BOOLEAN]

Types ==
  /\ SwapTypeOK
  /\ latest \in [gen : 0 .. 1 + MaxBuilds, upto : Int]
  /\ previous \in FileStates \union {NoFile}
  /\ windowed \in BOOLEAN
  /\ counted \in [builds : 0 .. MaxBuilds, commits : Nat, stops : Nat]

(* A file is of a build that was counted; a build that has not renamed its    *)
(* file has a generation of its own.                                          *)
BuildsCounted ==
  /\ file.gen <= 1 + counted.builds
  /\ building \notin {"no", "renamed"} => file.gen <= counted.builds

(* What is renamed has everything, and survives a power failure.              *)
TmpPrepared ==
  /\ building \in {"copied", "synced", "unlinked", "renamed"} => tmp.whole
  /\ building \in {"synced", "unlinked", "renamed"} => tmp.durable

(* Outside of the window the log is that of the file; within, it is empty.    *)
Current ==
  ~windowed =>
    IF InWindow THEN ~log.frames
    ELSE Content = latest /\ latest.gen = file.gen

(* Before the next rename nothing can come back, or the window was hit.       *)
Settled == building \notin {"unlinked", "renamed"} /\ ~windowed => previous = NoFile

IInv == Types /\ BuildsCounted /\ TmpPrepared /\ Current /\ Settled

-----------------------------------------------------------------------------
LEMMA Basics ==
  /\ MaxBuilds \in Nat
  /\ 1 \in Generations /\ 0 \in 0 .. MaxBuilds
  /\ NoLog \in LogStates /\ ~NoLog.frames
  /\ NoTmp \in [whole : BOOLEAN, durable : BOOLEAN]
  <1>1. MaxBuilds \in Nat
    BY SwapAssumption
  <1>2. QED
    BY <1>1 DEF Generations, LogStates, NoLog, NoTmp

LEMMA ContentType ==
  ASSUME Types
  PROVE  /\ Content.gen \in 0 .. 1 + MaxBuilds /\ Content.upto \in Int
         /\ Content \in [gen : 0 .. 1 + MaxBuilds, upto : Int]
  BY Basics DEF Types, SwapTypeOK, Content

LEMMA InitInv == SwapInit => IInv
  <1> SUFFICES ASSUME SwapInit PROVE IInv
    OBVIOUS
  <1>1. Types
    <2>1. file \in FileStates /\ latest \in [gen : 0 .. 1 + MaxBuilds, upto : Int]
      BY Basics DEF SwapInit, FileStates
    <2>2. counted \in [builds : 0 .. MaxBuilds, commits : Nat, stops : Nat]
      BY Basics DEF SwapInit
    <2>3. conns \in [Readers -> 0 .. file.gen]
      BY DEF SwapInit
    <2>4. QED
      BY <2>1, <2>2, <2>3, Basics
      DEF SwapInit, Types, SwapTypeOK, FileStates, Generations, LogStates
  <1>2. BuildsCounted /\ TmpPrepared /\ Settled
    BY DEF SwapInit, BuildsCounted, TmpPrepared, Settled
  <1>3. Current
    BY DEF SwapInit, Current, Content, NoLog, InWindow
  <1>4. QED
    BY <1>1, <1>2, <1>3 DEF IInv

(* A commit keeps to the newest file, in the log or in the file itself.       *)
LEMMA CommittedKeepsTypes ==
  ASSUME Types, NEW closing \in BOOLEAN, Committed(closing)
  PROVE  /\ file' \in FileStates /\ file'.gen = file.gen
         /\ log' \in LogStates
         /\ latest' \in [gen : 0 .. 1 + MaxBuilds, upto : Int]
  <1> DEFINE n == Content.upto + 1
             entry == [gen |-> Content.gen, upto |-> n]
  <1>1. n \in Int /\ entry \in [gen : 0 .. 1 + MaxBuilds, upto : Int]
    BY ContentType
  <1>2. latest' \in {entry, latest}
    BY DEF Committed
  <1>3. file \in FileStates
    BY DEF Types, SwapTypeOK, FileStates, Generations
  <1>4. CASE file' = [file EXCEPT !.main = n, !.old = FALSE] /\ log' = NoLog
    BY <1>1, <1>2, <1>3, <1>4, Basics DEF FileStates, LogStates, Types
  <1>5. CASE /\ log' = [gen |-> entry.gen, upto |-> n, frames |-> TRUE]
             /\ file' = [file EXCEPT !.old = FALSE]
    BY <1>1, <1>2, <1>3, <1>5 DEF FileStates, LogStates, Types
  <1>6. QED
    BY <1>4, <1>5 DEF Committed

LEMMA CommittedIsCurrent ==
  ASSUME Types, NEW closing \in BOOLEAN, Committed(closing),
         Content = latest, latest.gen = file.gen
  PROVE  Content' = latest' /\ latest'.gen = file'.gen
  <1> DEFINE n == Content.upto + 1
             entry == [gen |-> Content.gen, upto |-> n]
  <1>1. latest' = entry /\ entry.gen = file.gen
    BY DEF Committed
  <1>2. file \in FileStates
    BY DEF Types, SwapTypeOK, FileStates, Generations
  <1>3. CASE file' = [file EXCEPT !.main = n, !.old = FALSE] /\ log' = NoLog
    <2>1. file'.main = n /\ file'.gen = file.gen /\ ~log'.frames
      BY <1>2, <1>3 DEF FileStates, NoLog
    <2>2. QED
      BY <1>1, <2>1 DEF Content
  <1>4. CASE /\ log' = [gen |-> entry.gen, upto |-> n, frames |-> TRUE]
             /\ file' = [file EXCEPT !.old = FALSE]
    <2>1. file'.gen = file.gen /\ log'.frames /\ log'.gen = entry.gen /\ log'.upto = n
      BY <1>2, <1>4 DEF FileStates
    <2>2. QED
      BY <1>1, <2>1 DEF Content
  <1>5. QED
    BY <1>3, <1>4 DEF Committed

-----------------------------------------------------------------------------
(* Refreshes and readers *)

LEMMA RefreshKeepsInv ==
  ASSUME IInv, Refresh
  PROVE  IInv'
  <1> USE DEF IInv
  <1>1. Committed(TRUE) /\ building = "no"
        /\ UNCHANGED <<previous, tmp, conns, building, windowed>>
        /\ counted' = [counted EXCEPT !["commits"] = @ + 1]
    BY DEF Refresh, Count
  <1>2. counted' \in [builds : 0 .. MaxBuilds, commits : Nat, stops : Nat]
        /\ counted'.builds = counted.builds
    BY <1>1 DEF Types
  <1>3. Types'
    BY <1>1, <1>2, CommittedKeepsTypes DEF Types, SwapTypeOK, FileStates, Generations, LogStates
  <1>4. BuildsCounted' /\ TmpPrepared' /\ Settled'
    BY <1>1, <1>2, CommittedKeepsTypes DEF BuildsCounted, TmpPrepared, Settled
  <1>5. Current'
    BY <1>1, CommittedIsCurrent DEF Current, InWindow
  <1>6. QED
    BY <1>3, <1>4, <1>5

LEMMA OpenKeepsInv ==
  ASSUME IInv, NEW r \in Readers, Open(r)
  PROVE  IInv'
  <1> USE DEF IInv
  <1>1. /\ conns' = [conns EXCEPT ![r] = file.gen]
        /\ UNCHANGED <<previous, tmp, building, counted>>
    BY DEF Open
  <1>2. conns' \in [Readers -> 0 .. file.gen]
    BY <1>1, Basics DEF Types, SwapTypeOK
  <1>3. CASE file.old
    <2>1. Committed(FALSE) /\ windowed' = (windowed \/ InWindow)
      BY <1>3 DEF Open
    <2>2. Types'
      BY <1>1, <1>2, <2>1, CommittedKeepsTypes
      DEF Types, SwapTypeOK, FileStates, Generations, LogStates
    <2>3. BuildsCounted' /\ TmpPrepared' /\ Settled'
      BY <1>1, <2>1, CommittedKeepsTypes DEF BuildsCounted, TmpPrepared, Settled, Types
    <2>4. Current'
      BY <1>1, <2>1, CommittedIsCurrent DEF Current, InWindow, Types
    <2>5. QED
      BY <2>2, <2>3, <2>4
  <1>4. CASE ~file.old
    <2>1. /\ UNCHANGED <<file, latest, windowed>>
          /\ \/ UNCHANGED log
             \/ log = NoLog /\ log' = [gen |-> file.gen, upto |-> file.main, frames |-> FALSE]
      BY <1>4 DEF Open
    <2>2. file.gen \in 0 .. 1 + MaxBuilds /\ file.main \in Int
      BY Basics DEF Types, SwapTypeOK
    <2>3. log' \in LogStates /\ log'.frames = log.frames
      <3>1. CASE UNCHANGED log
        BY <3>1 DEF Types, SwapTypeOK, LogStates
      <3>2. CASE log = NoLog /\ log' = [gen |-> file.gen, upto |-> file.main, frames |-> FALSE]
        BY <3>2, <2>2, Basics DEF LogStates
      <3>3. QED
        BY <2>1, <3>1, <3>2
    <2>4. Content' = Content
      BY <2>1, Basics DEF Content
    <2>5. Types'
      BY <1>1, <1>2, <2>1, <2>3 DEF Types, SwapTypeOK, LogStates
    <2>6. QED
      BY <1>1, <2>1, <2>3, <2>4, <2>5 DEF BuildsCounted, TmpPrepared, Settled, Current, InWindow
  <1>5. QED
    BY <1>3, <1>4

LEMMA CloseKeepsInv ==
  ASSUME IInv, NEW r \in Readers, Close(r)
  PROVE  IInv'
  <1> USE DEF IInv
  <1>1. /\ conns' = [conns EXCEPT ![r] = 0]
        /\ UNCHANGED <<previous, tmp, latest, building, windowed, counted>>
    BY DEF Close
  <1>2. conns' \in [Readers -> 0 .. file.gen]
    BY <1>1, Basics DEF Types, SwapTypeOK
  <1>3. file \in FileStates
    BY DEF Types, SwapTypeOK, FileStates, Generations
  <1>4. CASE UNCHANGED <<file, log>>
    BY <1>1, <1>2, <1>4
    DEF Types, SwapTypeOK, BuildsCounted, TmpPrepared, Settled, Current, InWindow, Content
  <1>5. CASE /\ log' = NoLog
             /\ file' = IF log.frames /\ log.gen = file.gen
                          THEN [file EXCEPT !.main = log.upto] ELSE file
    <2>1. file' \in FileStates /\ file'.gen = file.gen
      BY <1>3, <1>5 DEF FileStates, Types, SwapTypeOK
    <2>2. Types'
      BY <1>1, <1>2, <1>5, <2>1, Basics DEF Types, SwapTypeOK, FileStates, Generations, LogStates
    <2>3. BuildsCounted' /\ TmpPrepared' /\ Settled'
      BY <1>1, <2>1 DEF BuildsCounted, TmpPrepared, Settled
    <2>4. ASSUME ~windowed, ~InWindow
          PROVE  Content' = Content
      <3>1. log.frames => log.gen = file.gen
        BY <2>4 DEF Current, Content
      <3>2. CASE log.frames
        <4>1. file'.main = log.upto /\ file'.gen = log.gen
          BY <1>3, <1>5, <3>1, <3>2 DEF FileStates
        <4>2. QED
          BY <1>5, <3>2, <4>1 DEF Content, NoLog
      <3>3. CASE ~log.frames
        BY <1>5, <3>3 DEF Content, NoLog
      <3>4. QED
        BY <3>2, <3>3
    <2>5. Current'
      BY <1>1, <1>5, <2>1, <2>4 DEF Current, InWindow, NoLog
    <2>6. QED
      BY <2>2, <2>3, <2>5
  <1>6. QED
    BY <1>4, <1>5 DEF Close

-----------------------------------------------------------------------------
(* The build *)

LEMMA PrepareKeepsInv ==
  ASSUME IInv, BuildTmp \/ Checkpoint \/ SyncFile \/ Refuse
  PROVE  IInv'
  <1> USE DEF IInv
  <1>1. UNCHANGED <<file, log, previous, conns, latest, windowed>>
    BY DEF BuildTmp, Checkpoint, SyncFile, Refuse, Quiet
  <1>2. counted' \in [builds : 0 .. MaxBuilds, commits : Nat, stops : Nat]
        /\ BuildsCounted'
    <2>1. CASE BuildTmp
      <3>1. counted' = [counted EXCEPT !["builds"] = @ + 1] /\ counted.builds < MaxBuilds
        BY <2>1 DEF BuildTmp, Count
      <3>2. counted' \in [builds : 0 .. MaxBuilds, commits : Nat, stops : Nat]
            /\ counted'.builds = counted.builds + 1
        BY <3>1, Basics DEF Types
      <3>3. QED
        BY <1>1, <3>2, Basics DEF BuildsCounted, Types, SwapTypeOK
    <2>2. CASE Checkpoint \/ SyncFile \/ Refuse
      BY <1>1, <2>2, Basics
      DEF Checkpoint, SyncFile, Refuse, Quiet, BuildsCounted, Types, SwapTypeOK
    <2>3. QED
      BY <2>1, <2>2
  <1>3. /\ building' \in {"no", "built", "copied", "synced"}
        /\ building \in {"no", "built", "copied", "synced"}
    BY DEF BuildTmp, Checkpoint, SyncFile, Refuse, NoTmp
  <1>4. tmp' \in [whole : BOOLEAN, durable : BOOLEAN]
    BY Basics DEF BuildTmp, Checkpoint, SyncFile, Refuse, Types, SwapTypeOK
  <1>5. Types'
    BY <1>1, <1>2, <1>3, <1>4 DEF Types, SwapTypeOK
  <1>6. TmpPrepared'
    BY DEF TmpPrepared, BuildTmp, Checkpoint, SyncFile, Refuse, Types, SwapTypeOK
  <1>7. Current' /\ Settled'
    BY <1>1, <1>3 DEF Current, Settled, InWindow, Content
  <1>8. QED
    BY <1>2, <1>5, <1>6, <1>7

LEMMA UnlinkKeepsInv ==
  ASSUME IInv, UnlinkSidecars
  PROVE  IInv'
  <1> USE DEF IInv, UnlinkSidecars
  <1>1. Types'
    BY Basics DEF Types, SwapTypeOK, LogStates
  <1>2. BuildsCounted' /\ TmpPrepared' /\ Settled'
    BY DEF BuildsCounted, TmpPrepared, Settled
  <1>3. Current'
    BY Basics DEF Current, InWindow
  <1>4. QED
    BY <1>1, <1>2, <1>3

LEMMA RenameKeepsInv ==
  ASSUME IInv, Rename
  PROVE  IInv'
  <1> USE DEF IInv
  <1>1. /\ building = "unlinked" /\ building' = "renamed" /\ previous' = file
        /\ file' = [gen |-> 1 + counted.builds, main |-> IF tmp.whole THEN 0 ELSE -1,
                    old |-> FALSE]
        /\ latest' = [gen |-> 1 + counted.builds, upto |-> 0]
        /\ UNCHANGED <<log, tmp, conns, windowed, counted>>
    BY DEF Rename
  <1>2. file.gen < file'.gen /\ file' \in FileStates /\ file'.main = 0
    BY <1>1, Basics DEF BuildsCounted, Types, SwapTypeOK, TmpPrepared, FileStates, Generations
  <1>3. conns \in [Readers -> 0 .. file'.gen]
    <2>1. \A r \in Readers : conns[r] \in 0 .. file'.gen
      BY <1>2, Basics DEF Types, SwapTypeOK, FileStates, Generations
    <2>2. QED
      BY <2>1 DEF Types, SwapTypeOK
  <1>4. Types'
    BY <1>1, <1>2, <1>3, Basics DEF Types, SwapTypeOK, FileStates, Generations
  <1>5. BuildsCounted' /\ TmpPrepared' /\ Settled'
    BY <1>1, <1>2 DEF BuildsCounted, TmpPrepared, Settled, Types
  <1>6. Current'
    BY <1>1, <1>2 DEF Current, InWindow, Content
  <1>7. QED
    BY <1>4, <1>5, <1>6

LEMMA SyncDirectoryKeepsInv ==
  ASSUME IInv, SyncDirectory
  PROVE  IInv'
  BY DEF IInv, SyncDirectory, Types, SwapTypeOK, BuildsCounted, TmpPrepared, Current, Settled,
         InWindow, NoTmp, NoFile, Content

LEMMA StopKeepsInv ==
  ASSUME IInv, Dies \/ PowerFails
  PROVE  IInv'
  <1> USE DEF IInv
  <1>1. /\ counted' = [counted EXCEPT !["stops"] = @ + 1]
        /\ building' = "no" /\ tmp' = NoTmp /\ UNCHANGED log
    BY DEF Dies, PowerFails, Count
  <1>2. counted' \in [builds : 0 .. MaxBuilds, commits : Nat, stops : Nat]
        /\ counted'.builds = counted.builds
    BY <1>1 DEF Types
  <1>3. CASE Dies
    <2>1. /\ UNCHANGED <<file, previous, conns, latest>>
          /\ windowed' = (windowed \/ building \in {"unlinked", "renamed"})
      BY <1>3 DEF Dies
    <2>2. Types'
      BY <1>1, <1>2, <2>1 DEF Types, SwapTypeOK, NoTmp
    <2>3. BuildsCounted' /\ TmpPrepared' /\ Settled'
      BY <1>1, <1>2, <2>1 DEF BuildsCounted, TmpPrepared, Settled, Types
    <2>4. Current'
      BY <1>1, <2>1 DEF Current, InWindow, Content
    <2>5. QED
      BY <2>2, <2>3, <2>4
  <1>4. CASE PowerFails
    <2>1. /\ previous' = NoFile
          /\ conns' = [r \in Readers |-> 0]
          /\ windowed' = (windowed \/ InWindow \/ file'.gen # file.gen)
      BY <1>4 DEF PowerFails
    <2>2. CASE file' = file /\ latest' = latest
      <3>1. Types'
        BY <1>1, <1>2, <2>1, <2>2, Basics DEF Types, SwapTypeOK, NoTmp
      <3>2. BuildsCounted' /\ TmpPrepared' /\ Settled'
        BY <1>1, <1>2, <2>1, <2>2 DEF BuildsCounted, TmpPrepared, Settled
      <3>3. Current'
        BY <1>1, <2>1, <2>2 DEF Current, InWindow, Content
      <3>4. QED
        BY <3>1, <3>2, <3>3
    <2>3. CASE /\ previous # NoFile /\ file' = previous
               /\ latest' = [gen |-> previous.gen, upto |-> previous.main]
      <3>1. previous \in FileStates /\ previous.gen < file.gen
        BY <2>3 DEF Types, SwapTypeOK
      <3>2. Types'
        BY <1>1, <1>2, <2>1, <2>3, <3>1, Basics
        DEF Types, SwapTypeOK, NoTmp, FileStates, Generations
      <3>3. BuildsCounted'
        BY <1>1, <1>2, <2>3, <3>1, Basics
        DEF BuildsCounted, Types, SwapTypeOK, FileStates, Generations
      <3>4. windowed'
        <4>1. file.gen \in Nat /\ previous.gen \in Nat
          BY <3>1 DEF Types, SwapTypeOK, FileStates, Generations
        <4>2. file'.gen # file.gen
          BY <2>3, <3>1, <4>1
        <4>3. QED
          BY <2>1, <4>2
      <3>5. QED
        BY <1>1, <3>2, <3>3, <3>4 DEF TmpPrepared, Settled, Current
    <2>4. QED
      BY <1>4, <2>2, <2>3 DEF PowerFails, TmpPrepared
  <1>5. QED
    BY <1>3, <1>4

-----------------------------------------------------------------------------
LEMMA StepKeepsInv == IInv /\ [SwapNext]_swapVars => IInv'
  <1> SUFFICES ASSUME IInv, [SwapNext]_swapVars PROVE IInv'
    OBVIOUS
  <1>1. CASE UNCHANGED swapVars
    BY <1>1 DEF swapVars, IInv, Types, SwapTypeOK, BuildsCounted, TmpPrepared, Current, Settled,
                InWindow, Content
  <1>2. QED
    BY <1>1, RefreshKeepsInv, OpenKeepsInv, CloseKeepsInv, PrepareKeepsInv, UnlinkKeepsInv,
       RenameKeepsInv, SyncDirectoryKeepsInv, StopKeepsInv
    DEF SwapNext

LEMMA Invariance == SwapSpec => []IInv
  BY InitInv, StepKeepsInv, PTL DEF SwapSpec

(* Whoever opens the path reads the newest commit of the newest file, unless  *)
(* between unlink and rename or after something fell in there (atomic_swap,   *)
(* _checkpoint and the removal of the sidecars).                              *)
THEOREM NewestIsOpened == SwapSpec => []OpenedIsLatest
  <1>1. IInv => OpenedIsLatest
    BY DEF IInv, Types, Current, OpenedIsLatest
  <1>2. QED
    BY <1>1, Invariance, PTL

(* A power failure after a build never brings back the file it replaced       *)
(* (atomic_swap syncs the directory).                                         *)
THEOREM BuildsStay == SwapSpec => BuiltStays
  <1>1. ASSUME IInv, [SwapNext]_swapVars, building = "no", ~windowed
        PROVE  file'.gen >= file.gen
    <2> USE DEF IInv
    <2>1. file \in FileStates /\ file.gen \in Int /\ previous = NoFile
      BY <1>1 DEF Types, SwapTypeOK, FileStates, Generations, Settled
    <2>2. ASSUME NEW closing \in BOOLEAN, Committed(closing)
          PROVE  file'.gen = file.gen
      BY <1>1, <2>2, CommittedKeepsTypes
    <2>3. ASSUME NEW r \in Readers, Close(r)
          PROVE  file'.gen = file.gen
      BY <2>1, <2>3 DEF Close, FileStates
    <2>4. CASE Refresh \/ \E r \in Readers : Open(r)
      <3>1. CASE file' = file
        BY <2>1, <3>1
      <3>2. CASE \E closing \in BOOLEAN : Committed(closing)
        BY <2>1, <2>2, <3>2
      <3>3. QED
        BY <2>4, <3>1, <3>2 DEF Refresh, Open
    <2>5. CASE PowerFails
      BY <1>1, <2>1, <2>5 DEF PowerFails
    <2>6. CASE file' = file
      BY <2>1, <2>6
    <2>7. QED
      BY <1>1, <2>1, <2>3, <2>4, <2>5, <2>6
      DEF SwapNext, swapVars, BuildTmp, Checkpoint, SyncFile, Refuse, Quiet, UnlinkSidecars,
          Rename, SyncDirectory, Dies
  <1>2. IInv /\ [SwapNext]_swapVars =>
          [(building = "no" /\ ~windowed) => file'.gen >= file.gen]_swapVars
    BY <1>1
  <1>3. QED
    BY <1>2, Invariance, PTL DEF SwapSpec, BuiltStays

-----------------------------------------------------------------------------
(* The PID-file lock: PidLock.  The exclusive create serialises the writers   *)
(* as long as nobody unlinks the file of a live worker, and no live process   *)
(* leaves a complete lock file behind.                                        *)

(* The lock file on disk is the file of whoever guards one.                *)
OwnFileOnDisk ==
  ~stolen => \A w \in Workers : Guarding(w) => lock.maker = w

(* A complete file whose maker is alive belongs to a worker that holds.    *)
CompleteIsHeld ==
  \A w \in Workers :
    (lock.maker = w /\ lock.written) => (Holding(w) \/ pc[w] = "dead")

LockIInv == PidTypeOK /\ OwnFileOnDisk /\ CompleteIsHeld

LEMMA LockInitInv == PidInit => LockIInv
  <1> SUFFICES ASSUME PidInit PROVE LockIInv
    OBVIOUS
  <1>1. PidTypeOK
    BY DEF PidInit, PidTypeOK, PidPlaces
  <1>2. OwnFileOnDisk
    BY DEF PidInit, OwnFileOnDisk, Guarding
  <1>3. CompleteIsHeld
    BY DEF PidInit, CompleteIsHeld, NoLockFile
  <1>4. QED
    BY <1>1, <1>2, <1>3 DEF LockIInv

(* The unlink of a path takes away nobody's file, or is remembered.        *)
LEMMA UnlinkRemembers ==
  ASSUME LockIInv, NEW w \in Workers, Unlink(w), pc' = [pc EXCEPT ![w] = "try"]
           \/ pc' = [pc EXCEPT ![w] = "idle"]
  PROVE  OwnFileOnDisk' /\ CompleteIsHeld'
  <1> USE DEF LockIInv, PidTypeOK, PidPlaces
  <1>1. OwnFileOnDisk'
    <2> SUFFICES ASSUME ~stolen', NEW v \in Workers, Guarding(v)'
                 PROVE  FALSE
      BY DEF OwnFileOnDisk
    <2>1. v # w /\ Guarding(v)
      BY DEF Guarding
    <2>2. lock.maker = v
      BY <2>1 DEF Unlink, OwnFileOnDisk
    <2>3. QED
      BY <2>1, <2>2 DEF Unlink
  <1>2. CompleteIsHeld'
    BY DEF CompleteIsHeld, Unlink, NoLockFile
  <1>3. QED
    BY <1>1, <1>2

LEMMA WorkKeepsLockInv ==
  ASSUME LockIInv, NEW w \in Workers, Call(w) \/ Work(w) \/ DeadlinePasses(w)
  PROVE  LockIInv'
  <1> USE DEF LockIInv, PidTypeOK, PidPlaces, Goto, world, Files
  <1>1. CASE Call(w)
    BY <1>1 DEF Call, OwnFileOnDisk, CompleteIsHeld, Guarding, Holding
  <1>2. CASE Create(w)
    <2>1. PidTypeOK'
      BY <1>2 DEF Create
    <2>2. OwnFileOnDisk'
      <3>1. ~stolen => \A v \in Workers : ~Guarding(v)
        BY <1>2, NoneAssumption DEF Create, Exists, NoLockFile, OwnFileOnDisk
      <3>2. QED
        BY <1>2, <3>1 DEF Create, OwnFileOnDisk, Guarding
    <2>3. CompleteIsHeld'
      BY <1>2 DEF Create, CompleteIsHeld
    <2>4. QED
      BY <2>1, <2>2, <2>3
  <1>3. CASE FileExists(w)
    BY <1>3 DEF FileExists, OwnFileOnDisk, CompleteIsHeld, Guarding, Holding
  <1>4. CASE WritePayload(w)
    <2>0. CASE lock.maker # w
      BY <1>4, <2>0 DEF WritePayload, OwnFileOnDisk, CompleteIsHeld, Guarding, Holding
    <2> SUFFICES ASSUME lock.maker = w PROVE LockIInv'
      BY <2>0
    <2>1. lock' \in Files /\ lock'.maker = w
      <3>1. lock \in Files
        BY NoneAssumption DEF NoLockFile
      <3>2. QED
        BY <1>4, <3>1 DEF WritePayload
    <2>2. PidTypeOK'
      BY <1>4, <2>1 DEF WritePayload
    <2>3. OwnFileOnDisk'
      BY <1>4, <2>1 DEF WritePayload, OwnFileOnDisk, Guarding
    <2>4. CompleteIsHeld'
      BY <1>4, <2>1 DEF WritePayload, CompleteIsHeld, Holding
    <2>5. QED
      BY <2>2, <2>3, <2>4
  <1>5. CASE WriteFails(w)
    BY <1>5 DEF WriteFails, OwnFileOnDisk, CompleteIsHeld, Guarding, Holding
  <1>6. CASE ReadLock(w)
    BY <1>6 DEF ReadLock, OwnFileOnDisk, CompleteIsHeld, Guarding, Holding
  <1>7. CASE CheckAge(w)
    BY <1>7 DEF CheckAge, OwnFileOnDisk, CompleteIsHeld, Guarding, Holding
  <1>8. CASE Steal(w)
    <2>1. PidTypeOK'
      BY <1>8 DEF Steal, Unlink
    <2>2. QED
      BY <1>8, <2>1, UnlinkRemembers DEF Steal
  <1>9. CASE Sleep(w)
    BY <1>9 DEF Sleep, OwnFileOnDisk, CompleteIsHeld, Guarding, Holding
  <1>10. CASE GiveUp(w)
    BY <1>10 DEF GiveUp, OwnFileOnDisk, CompleteIsHeld, Guarding, Holding
  <1>11. CASE ReleaseLock(w)
    BY <1>11 DEF ReleaseLock, OwnFileOnDisk, CompleteIsHeld, Guarding, Holding
  <1>12. CASE ReadOwn(w)
    <2>1. PidTypeOK' /\ OwnFileOnDisk'
      BY <1>12 DEF ReadOwn, OwnFileOnDisk, Guarding
    <2>2. CompleteIsHeld'
      <3>1. (lock.maker = w /\ lock.written) => pc'[w] = "unlinkOwn"
        BY <1>12, NoneAssumption DEF ReadOwn, ReleaseDeletes, Exists, NoLockFile
      <3>2. QED
        BY <1>12, <3>1 DEF ReadOwn, CompleteIsHeld, Holding
    <2>3. QED
      BY <2>1, <2>2
  <1>13. CASE UnlinkOwn(w)
    <2>1. PidTypeOK'
      BY <1>13 DEF UnlinkOwn, Unlink
    <2>2. QED
      BY <1>13, <2>1, UnlinkRemembers DEF UnlinkOwn
  <1>14. CASE DeadlinePasses(w)
    BY <1>14 DEF DeadlinePasses, OwnFileOnDisk, CompleteIsHeld, Guarding, Holding
  <1>15. QED
    BY <1>1, <1>2, <1>3, <1>4, <1>5, <1>6, <1>7, <1>8, <1>9, <1>10, <1>11, <1>12,
       <1>13, <1>14 DEF Work

LEMMA EnvironmentKeepsLockInv ==
  ASSUME LockIInv, LockAges \/ \E p \in Processes : Crash(p) \/ Recycle(p)
  PROVE  LockIInv'
  <1> USE DEF LockIInv, PidTypeOK, PidPlaces, world, Files
  <1>1. CASE LockAges
    <2>1. lock.age < 2 /\ lock \in Files
      BY <1>1, BoundsAssumption DEF LockAges, Exists
    <2>2. lock' \in Files /\ lock'.maker = lock.maker /\ lock'.written = lock.written
      BY <1>1, <2>1 DEF LockAges
    <2>3. QED
      BY <1>1, <2>2 DEF LockAges, OwnFileOnDisk, CompleteIsHeld, Guarding, Holding
  <1>2. ASSUME NEW p \in Processes, Crash(p)
        PROVE  LockIInv'
    <2>1. \A w \in Workers : pc'[w] = pc[w] \/ pc'[w] = "dead"
      BY <1>2 DEF Crash
    <2>2. PidTypeOK'
      BY <1>2, BoundsAssumption DEF Crash
    <2>3. OwnFileOnDisk' /\ CompleteIsHeld'
      BY <1>2, <2>1 DEF Crash, OwnFileOnDisk, CompleteIsHeld, Guarding, Holding
    <2>4. QED
      BY <2>2, <2>3
  <1>3. ASSUME NEW p \in Processes, Recycle(p)
        PROVE  LockIInv'
    BY <1>3 DEF Recycle, OwnFileOnDisk, CompleteIsHeld, Guarding, Holding
  <1>4. QED
    BY <1>1, <1>2, <1>3

THEOREM LockInvariant == PidSpec => []LockIInv
  <1>1. LockIInv /\ [PidNext]_pidVars => LockIInv'
    <2> SUFFICES ASSUME LockIInv, [PidNext]_pidVars PROVE LockIInv'
      OBVIOUS
    <2>1. CASE PidNext
      BY <2>1, WorkKeepsLockInv, EnvironmentKeepsLockInv DEF PidNext
    <2>2. CASE UNCHANGED pidVars
      BY <2>2 DEF pidVars, LockIInv, PidTypeOK, OwnFileOnDisk, CompleteIsHeld, Guarding, Holding
    <2>3. QED
      BY <2>1, <2>2
  <1>2. QED
    BY <1>1, LockInitInv, PTL DEF PidSpec

(* The lock file, the workers and the processes are what they should be,   *)
(* however many calls, crashes and pids there are.                         *)
THEOREM LockTypeCorrect == PidSpec => []PidTypeOK
  <1>1. LockIInv => PidTypeOK
    BY DEF LockIInv
  <1>2. QED
    BY <1>1, LockInvariant, PTL

(* Two builds or refreshes run at a time only after somebody unlinked the  *)
(* lock file of a live worker: the exclusive create itself never lets two  *)
(* in.                                                                     *)
THEOREM SerialisedUnlessStolen == PidSpec => []ExclusionUnlessStolen
  <1>1. LockIInv => ExclusionUnlessStolen
    BY DEF LockIInv, OwnFileOnDisk, ExclusionUnlessStolen, WritersSerialised, Guarding, Holding
  <1>2. QED
    BY <1>1, LockInvariant, PTL

(* A worker that is in no call has left no complete lock file behind.      *)
THEOREM LocksAreReleased == PidSpec => []NoLockLeaked
  <1>1. LockIInv => NoLockLeaked
    BY DEF LockIInv, CompleteIsHeld, NoLockLeaked, Holding
  <1>2. QED
    BY <1>1, LockInvariant, PTL
=============================================================================
