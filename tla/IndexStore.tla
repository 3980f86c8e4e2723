-------------------------------- MODULE IndexStore --------------------------------
(* The tables of an index under a refresh: store.py (batch_mode,              *)
(* _transaction, the writers of chunks, links, hashes and vectors) and the    *)
(* part of builder.py that drives them.                                       *)
(*                                                                            *)
(* A chunk is a file and a text: its id hashes both and nothing of its place. *)
(* A version of a file is the sequence of its texts, and stands for its hash. *)
(* disk is what is committed, work what the writing connection sees.          *)
EXTENDS Integers, Sequences, FiniteSets, SequencesExt, FiniteSetsExt, Functions

CONSTANTS
  Paths,          \* files of the repository
  Texts,          \* texts a chunk may have
  FileVersions,   \* what a file may hold: sequences of texts
  Branches,
  MaxRefreshes,   \* bounds on refreshes, failures and deaths
  MaxFailures,
  MaxDeaths

ASSUME FileVersionsAssumption == FileVersions \subseteq Seq(Texts)

VARIABLES
  disk,     \* the committed tables
  work,     \* the tables as the connection sees them
  tx,       \* the open transaction and its savepoints: names and what to go back to
  frames,   \* the context managers the call is in, innermost last
  depth,    \* _batch_depth
  raising,  \* the exception that unwinds them: "none", "chunk" or "storage"
  vecs,     \* ids with a vector (vec_chunks, of a connection of its own)
  step,     \* where the refresh is
  job,      \* the refresh under way
  spent     \* refreshes, failures and deaths so far

storeVars == <<disk, work, tx, frames, depth, raising, vecs, step, job, spent>>

-----------------------------------------------------------------------------
(* The tables: rows by rowid, postings of the full-text index, the refs and  *)
(* symbols that name a chunk, the hash of a file, the active branch and the   *)
(* files to embed again (meta), and whether REPLACE ever met a row (no       *)
(* trigger fires then).                                                      *)
Empty == [ rows |-> <<>>, fts |-> {}, links |-> {}, hashes |-> <<>>, active |-> "",
           vecDirty |-> {}, replaced |-> FALSE ]

Id(f, text) == [file |-> f, text |-> text]
IdsOf(f, version) == {Id(f, version[k]) : k \in DOMAIN version}
RowsOf(db, f) == {r \in DOMAIN db.rows : db.rows[r].id.file = f}
Ids(db) == {db.rows[r].id : r \in DOMAIN db.rows}
NextRow(db) == 1 + Max({0} \cup DOMAIN db.rows)
Without(fn, keys) == Restrict(fn, DOMAIN fn \ keys)
With(fn, key, value) == [k \in DOMAIN fn \cup {key} |-> IF k = key THEN value ELSE fn[k]]

(* Broken variant: without the trigger. *)
DropRowsKeepingPostings(db, rs) == [db EXCEPT !.rows = Without(@, rs)]

(* The trigger chunks_ad takes the postings of deleted rows out.             *)
DropRows(db, rs) ==
  [db EXCEPT !.rows = Without(@, rs), !.fts = @ \ {<<r, db.rows[r].id>> : r \in rs}]

(* Broken variant: the symbols of the file stay. *)
DeleteChunksKeepingSymbols(db, f) ==
  [DropRows(db, RowsOf(db, f)) EXCEPT !.links = {l \in @ : l[2].file # f \/ l[1] = "symbol"}]

DeleteChunks(db, f) ==
  [DropRows(db, RowsOf(db, f)) EXCEPT !.links = {l \in @ : l[2].file # f}]

DeleteHash(db, f) == [db EXCEPT !.hashes = Without(@, {f})]

Purge(db, f) == DeleteHash(DeleteChunks(db, f), f)

(* INSERT OR REPLACE: the new rowid is the next one, the replaced row goes   *)
(* without its trigger, but with what refers to it.                          *)
InsertRow(db, id, branch) ==
  LET r == NextRow(db)
      same == {q \in DOMAIN db.rows : db.rows[q].id = id}
  IN  [db EXCEPT !.rows = With(Without(@, same), r, [id |-> id, labels |-> {branch}]),
                 !.fts = @ \cup {<<r, id>>},
                 !.links = {l \in @ : same = {} \/ l[2] # id},
                 !.replaced = @ \/ same # {}]

AddLabel(db, rs, branch) ==
  [db EXCEPT !.rows =
     [r \in DOMAIN @ |->
        [id |-> @[r].id, labels |-> @[r].labels \cup IF r \in rs THEN {branch} ELSE {}]]]

(* One turn of the loop of insert_chunks: present is what was there before   *)
(* the loop, and is not looked up again.                                     *)
InsertChunk(db, id, present, branch) ==
  IF id \in present
    THEN AddLabel(db, {r \in DOMAIN db.rows : db.rows[r].id = id}, branch)
    ELSE InsertRow(db, id, branch)

InsertChunks(db, ids, branch) ==
  LET present == Ids(db)
  IN  FoldLeft(LAMBDA acc, id : InsertChunk(acc, id, present, branch), db, ids)

InsertLinks(db, ids) == [db EXCEPT !.links = @ \cup ({"ref", "symbol"} \X Range(ids))]

UpsertHash(db, f, version) == [db EXCEPT !.hashes = With(@, f, version)]

(* _index_file once it has the content. *)
IndexContent(db, f, version, branch) ==
  LET ids == [k \in DOMAIN version |-> Id(f, version[k])]
  IN  UpsertHash(InsertLinks(InsertChunks(db, ids, branch), ids), f, version)

(* What a search for the text of a chunk returns: its postings, joined to    *)
(* the rows by rowid.                                                        *)
Search(db, id) == {db.rows[r].id : r \in {q \in DOMAIN db.rows : <<q, id>> \in db.fts}}

-----------------------------------------------------------------------------
(* Transactions.  A statement outside of one commits by itself.              *)
Begin == tx' = <<[name |-> 0, saved |-> work]>> /\ UNCHANGED <<disk, work>>
Commit == disk' = work /\ tx' = <<>> /\ UNCHANGED work
Rollback == work' = disk /\ tx' = <<>> /\ UNCHANGED disk

Savepoint(n) == tx' = Append(tx, [name |-> n, saved |-> work]) /\ UNCHANGED <<disk, work>>
HasSavepoint(n) == \E k \in 2 .. Len(tx) : tx[k].name = n
Place(n) == CHOOSE k \in 2 .. Len(tx) : tx[k].name = n /\ \A j \in k + 1 .. Len(tx) : tx[j].name # n
Release(n) == tx' = SubSeq(tx, 1, Place(n) - 1) /\ UNCHANGED <<disk, work>>
(* Broken variant: the savepoint stays on the stack. *)
RollbackWithoutRelease(n) ==
  /\ work' = tx[Place(n)].saved
  /\ tx' = SubSeq(tx, 1, Place(n))
  /\ UNCHANGED disk

(* ROLLBACK TO keeps the savepoint, RELEASE takes it off. *)
RollbackAndRelease(n) ==
  /\ work' = tx[Place(n)].saved
  /\ tx' = SubSeq(tx, 1, Place(n) - 1)
  /\ UNCHANGED disk

(* Broken variant: commits in the middle of a batch. *)
WriteCommitting(db) == work' = db /\ disk' = db /\ tx' = <<>>

(* A writer of the store: its statements, then _auto_commit. *)
Write(db) ==
  /\ work' = db
  /\ IF depth = 0 THEN disk' = db /\ tx' = <<>> ELSE UNCHANGED <<disk, tx>>

-----------------------------------------------------------------------------
(* A refresh.  kind is "git" (by git objects), "legacy" (by hash or diff) or *)
(* "targeted"; listed are the files of its work, redo those of them it       *)
(* indexes again; delete, reindex and label are what is left to do.          *)
NoJob == [ kind |-> "none", branch |-> "", tree |-> <<>>, listed |-> {}, redo |-> {}, delete |-> {},
           reindex |-> {}, label |-> {}, current |-> "", failed |-> {}, old |-> {},
           new |-> {}, exact |-> FALSE, embedded |-> TRUE ]

Idle == step = "idle"
InBatch == step \in {"files", "old", "index", "leave"}
Spend(what) == spent' = [spent EXCEPT ![what] = @ + 1]

StoreInit ==
  /\ disk = Empty /\ work = Empty /\ tx = <<>> /\ frames = <<>> /\ depth = 0
  /\ raising = "none" /\ vecs = {} /\ step = "idle" /\ job = NoJob
  /\ spent = [refreshes |-> 0, failures |-> 0, deaths |-> 0]

Unaffected == UNCHANGED <<disk, work, tx, frames, depth, raising, vecs>>

(* Between two refreshes the work tree and the branch may change in any way. *)
Start(tree, branch, kind, asked) ==
  LET known == DOMAIN disk.hashes
      changed == {f \in DOMAIN tree : f \notin known \/ disk.hashes[f] # tree[f]}
      deleted == IF kind = "targeted" THEN {} ELSE known \ DOMAIN tree
      reindexed == IF kind = "targeted" THEN asked
                   ELSE changed \cup (disk.vecDirty \cap DOMAIN tree)
      same == IF kind = "git" THEN DOMAIN tree \ reindexed ELSE {}
  IN  /\ Idle /\ spent.refreshes < MaxRefreshes
      /\ Spend("refreshes")
      /\ job' = [NoJob EXCEPT !.kind = kind, !.branch = branch, !.tree = tree,
                              !.listed = deleted \cup reindexed, !.redo = reindexed,
                              !.delete = deleted, !.reindex = reindexed, !.label = same,
                              !.exact = vecs = Ids(disk)]
      /\ step' = IF deleted \cup reindexed # {} THEN "begin"
                 ELSE IF same # {} THEN "label" ELSE "meta"
      /\ Unaffected

BeginBatch ==
  /\ step = "begin" /\ step' = "files"
  /\ depth' = depth + 1 /\ frames' = <<"batch">>
  /\ Begin
  /\ UNCHANGED <<raising, vecs, job, spent>>

Running == raising = "none"

DeleteFile(f) ==
  /\ step = "files" /\ Running /\ f \in job.delete
  /\ job' = [job EXCEPT !.delete = @ \ {f}, !.old = @ \cup {work.rows[r].id : r \in RowsOf(work, f)}]
  /\ Write(Purge(work, f))
  /\ UNCHANGED <<frames, depth, raising, vecs, step, spent>>

(* _reindex_file_preserving: a nested batch around delete and insert.        *)
EnterFile(f) ==
  /\ step = "files" /\ Running /\ job.delete = {} /\ f \in job.reindex
  /\ step' = "old"
  /\ job' = [job EXCEPT !.reindex = @ \ {f}, !.current = f]
  /\ depth' = depth + 1 /\ frames' = Append(frames, "nested")
  /\ Savepoint(depth)
  /\ UNCHANGED <<raising, vecs, spent>>

DeleteOld ==
  /\ step = "old" /\ Running /\ step' = "index"
  /\ Write(Purge(work, job.current))
  /\ UNCHANGED <<frames, depth, raising, vecs, job, spent>>

Failing == spent.failures < MaxFailures

(* Reading or chunking fails; a file that is not there cannot be read.       *)
ChunkingFails ==
  /\ step = "index" /\ Running /\ raising' = "chunk"
  /\ IF job.current \in DOMAIN job.tree THEN Failing /\ Spend("failures") ELSE UNCHANGED spent
  /\ UNCHANGED <<disk, work, tx, frames, depth, vecs, step, job>>

IndexFile ==
  /\ step = "index" /\ Running /\ job.current \in DOMAIN job.tree
  /\ step' = "leave"
  /\ Write(IndexContent(work, job.current, job.tree[job.current], job.branch))
  /\ UNCHANGED <<frames, depth, raising, vecs, job, spent>>

(* Broken variant: the ids to take the vectors of are read after the delete. *)
LeaveFileReadingIdsLate ==
  /\ step = "leave" /\ Running /\ HasSavepoint(depth - 1)
  /\ Release(depth - 1)
  /\ depth' = depth - 1 /\ frames' = Front(frames) /\ step' = "files"
  /\ job' = [job EXCEPT !.old = @ \cup {work.rows[r].id : r \in RowsOf(work, job.current)},
                        !.new = @ \cup IdsOf(job.current, job.tree[job.current])]
  /\ UNCHANGED <<raising, vecs, spent>>

(* The old ids were read before the delete, and count only from here on.     *)
LeaveFile ==
  /\ step = "leave" /\ Running
  /\ IF HasSavepoint(depth - 1)
       THEN /\ Release(depth - 1)
            /\ depth' = depth - 1 /\ frames' = Front(frames) /\ step' = "files"
            /\ job' = [job EXCEPT
                 !.old = @ \cup {tx[Place(depth - 1)].saved.rows[r].id :
                                   r \in RowsOf(tx[Place(depth - 1)].saved, job.current)},
                 !.new = @ \cup IdsOf(job.current, job.tree[job.current])]
            /\ UNCHANGED raising
       ELSE raising' = "storage" /\ UNCHANGED <<disk, work, tx, frames, depth, step, job>>
  /\ UNCHANGED <<vecs, spent>>

(* A statement fails; after some errors (a full disk) SQLite has rolled the  *)
(* whole transaction back by itself.                                         *)
StorageFails ==
  /\ InBatch /\ Running /\ Failing /\ Spend("failures")
  /\ raising' = "storage"
  /\ \/ UNCHANGED <<disk, work, tx>>
     \/ Rollback
  /\ UNCHANGED <<frames, depth, vecs, step, job>>

(* The handlers of batch_mode, innermost first.  Only a failure to chunk,    *)
(* once rolled back, is caught on the way (_reindex_file_preserving).        *)
UnwindNested ==
  /\ raising # "none" /\ Len(frames) = 2
  /\ depth' = depth - 1 /\ frames' = Front(frames)
  /\ IF HasSavepoint(depth - 1)
       THEN RollbackAndRelease(depth - 1) /\ raising' = IF raising = "chunk" THEN "none" ELSE raising
       ELSE raising' = "storage" /\ UNCHANGED <<disk, work, tx>>
  /\ step' = "files"
  /\ job' = [job EXCEPT !.failed = @ \cup {job.current}]
  /\ UNCHANGED <<vecs, spent>>

UnwindBatch ==
  /\ raising # "none" /\ Len(frames) = 1
  /\ Rollback
  /\ depth' = 0 /\ frames' = <<>> /\ raising' = "none" /\ step' = "idle" /\ job' = NoJob
  /\ UNCHANGED <<vecs, spent>>

(* Broken variant: only the hash gets the branch. *)
LabelHashOnly(f) ==
  /\ step \in {"files", "label"} /\ Running /\ job.delete \cup job.reindex = {} /\ f \in job.label
  /\ job' = [job EXCEPT !.label = @ \ {f}]
  /\ Write(work)
  /\ UNCHANGED <<frames, depth, raising, vecs, step, spent>>

(* _update_branches_only: inside the batch, or file by file when nothing has *)
(* changed.                                                                  *)
LabelFile(f) ==
  /\ step \in {"files", "label"} /\ Running /\ job.delete \cup job.reindex = {} /\ f \in job.label
  /\ job' = [job EXCEPT !.label = @ \ {f}]
  /\ Write(AddLabel(work, RowsOf(work, f), job.branch))
  /\ UNCHANGED <<frames, depth, raising, vecs, step, spent>>

NoneLeft == job.delete \cup job.reindex \cup job.label = {}

LabelsDone ==
  /\ step = "label" /\ NoneLeft /\ step' = "meta"
  /\ Unaffected /\ UNCHANGED <<job, spent>>

CommitBatch ==
  /\ step = "files" /\ Running /\ NoneLeft /\ step' = "vectors"
  /\ Commit
  /\ depth' = 0 /\ frames' = <<>>
  /\ UNCHANGED <<raising, vecs, job, spent>>

(* Phase 2, through the connection that has the vectors.                     *)
DeleteVectors ==
  /\ step = "vectors" /\ step' = "embed"
  /\ vecs' = vecs \ job.old
  /\ UNCHANGED <<disk, work, tx, frames, depth, raising, job, spent>>

EmbedAndInsert ==
  /\ step = "embed" /\ step' = "meta"
  /\ vecs' = vecs \cup job.new
  /\ UNCHANGED <<disk, work, tx, frames, depth, raising, job, spent>>

EmbeddingFails ==
  /\ step = "embed" /\ job.new # {} /\ Failing /\ Spend("failures") /\ step' = "meta"
  /\ job' = [job EXCEPT !.embedded = FALSE]
  /\ Unaffected

WriteMeta ==
  /\ step = "meta" /\ step' = "idle" /\ job' = NoJob
  /\ Write([work EXCEPT !.active = job.branch,
                         !.vecDirty = IF job.listed = {} THEN @
                                      ELSE IF job.embedded THEN {} ELSE job.redo])
  /\ UNCHANGED <<frames, depth, raising, vecs, spent>>

(* The process dies, or an error of phase 2 ends the refresh: the store is   *)
(* closed and what was committed stays.                                      *)
Die ==
  /\ ~Idle /\ spent.deaths < MaxDeaths /\ Spend("deaths")
  /\ Rollback
  /\ frames' = <<>> /\ depth' = 0 /\ raising' = "none" /\ step' = "idle" /\ job' = NoJob
  /\ UNCHANGED vecs

Trees == UNION {[D -> FileVersions] : D \in SUBSET Paths}

StoreNext ==
  \/ \E tree \in Trees, b \in Branches, kind \in {"git", "legacy"} : Start(tree, b, kind, {})
  \/ \E tree \in Trees, b \in Branches, asked \in SUBSET Paths \ {{}} :
       Start(tree, b, "targeted", asked)
  \/ \E f \in Paths : DeleteFile(f) \/ EnterFile(f) \/ LabelFile(f)
  \/ BeginBatch \/ DeleteOld \/ ChunkingFails \/ IndexFile \/ LeaveFile
  \/ StorageFails \/ UnwindNested \/ UnwindBatch
  \/ LabelsDone \/ CommitBatch \/ DeleteVectors \/ EmbedAndInsert \/ EmbeddingFails
  \/ WriteMeta \/ Die

StoreSpec == StoreInit /\ [][StoreNext]_storeVars

-----------------------------------------------------------------------------
IsTables(db) ==
  /\ DOMAIN db.rows \subseteq Nat /\ Ids(db) \subseteq [file : Paths, text : Texts]
  /\ \A r \in DOMAIN db.rows : db.rows[r].labels \subseteq Branches
  /\ db.fts \subseteq Nat \X [file : Paths, text : Texts]
  /\ db.links \subseteq {"ref", "symbol"} \X [file : Paths, text : Texts]
  /\ DOMAIN db.hashes \subseteq Paths /\ Range(db.hashes) \subseteq FileVersions
  /\ db.active \in Branches \cup {""} /\ db.vecDirty \subseteq Paths /\ db.replaced \in BOOLEAN

(* The tables, the transaction and the refresh are well-formed, and outside  *)
(* of a transaction the connection sees what is committed.                   *)
StoreTypeOK ==
  /\ IsTables(disk) /\ IsTables(work)
  /\ \A k \in DOMAIN tx : IsTables(tx[k].saved)
  /\ depth \in 0 .. 2 /\ frames \in {<<>>, <<"batch">>, <<"batch", "nested">>}
  /\ raising \in {"none", "chunk", "storage"}
  /\ tx = <<>> => work = disk

(* The depth, the context managers and the savepoints of SQLite count the    *)
(* same, through every failure and whatever SQLite rolls back by itself      *)
(* (batch_mode: "so the savepoint list stays clean across re-entries").      *)
StacksAligned ==
  /\ StoreTypeOK
  /\ depth = Len(frames)
  /\ tx # <<>> => Len(tx) = Len(frames)
  /\ Idle => tx = <<>> /\ frames = <<>>

(* In what is committed, a file with a hash has exactly the chunks of the    *)
(* version hashed, each with its refs and its symbol, and a file without one *)
(* has nothing: no failure and no death leaves a file half indexed.          *)
FilesWhole ==
  \A f \in Paths :
    LET has == {disk.rows[r].id : r \in RowsOf(disk, f)}
        should == IF f \in DOMAIN disk.hashes THEN IdsOf(f, disk.hashes[f]) ELSE {}
    IN  /\ has = should /\ Cardinality(RowsOf(disk, f)) = Cardinality(should)
        /\ {l \in disk.links : l[2].file = f} = {"ref", "symbol"} \X should

(* The chunks and the hash of a file. *)
Indexed(db, f) ==
  [ids |-> {db.rows[r].id : r \in RowsOf(db, f)}, hash |-> Restrict(db.hashes, {f} \cap DOMAIN db.hashes)]

(* The content of the index changes in one commit per refresh, which has     *)
(* every file of the work in its new version or, where it failed, untouched  *)
(* (_reindex_file_preserving: "a re-chunk failure never commits a delete     *)
(* with no replacement data").                                               *)
CommitsWhole ==
  [][(\E f \in Paths : Indexed(disk', f) # Indexed(disk, f)) =>
       \A f \in Paths :
         IF f \in job.listed \ job.failed
           THEN Restrict(disk'.hashes, {f} \cap DOMAIN disk'.hashes)
                  = Restrict(job.tree, {f} \cap DOMAIN job.tree)
           ELSE Indexed(disk', f) = Indexed(disk, f)]_storeVars

(* A search for the text of a chunk finds that chunk and no other, and       *)
(* nothing once it is gone.  The exception is an index in which one file had *)
(* the same text twice: REPLACE leaves a posting behind, which a later row   *)
(* with that number inherits.                                                *)
SearchExact ==
  \A id \in [file : Paths, text : Texts] :
    /\ id \in Ids(disk) => id \in Search(disk, id)
    /\ ~disk.replaced => Search(disk, id) \subseteq {id} \cap Ids(disk)

(* A query looks at the active branch only.  Once a refresh by git objects   *)
(* is through, every chunk is of that branch, those of files that failed     *)
(* excepted; a refresh of the other kinds labels what it has indexed.        *)
ActiveBranchLabelled ==
  [][(step = "meta" /\ spent' = spent) =>
       \A r \in DOMAIN disk'.rows :
         LET f == disk'.rows[r].id.file
         IN  (f \notin job.failed /\ (job.kind = "git" \/ f \in job.listed))
               => disk'.active \in disk'.rows[r].labels]_storeVars

(* A refresh that gets through, embedding included, and that found a vector  *)
(* for every chunk and no other, leaves it so, whatever it deleted, kept or  *)
(* indexed under the ids it had.                                             *)
VectorsFollowChunks ==
  [][(step = "meta" /\ spent' = spent /\ job.exact /\ job.embedded) => vecs' = Ids(disk')]_storeVars
=============================================================================
