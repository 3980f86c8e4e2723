# source-recall: specifications and proofs

source-recall indexes source repositories into one SQLite file per repository
(chunks, full-text index, vectors, symbols), keeps the index fresh from git, and
answers searches from a library (`Index`), a command line (`sr`), a single
server (`sr serve`) and a multi-repository daemon.  This directory holds TLA+
models of the parts where order, concurrency and failure decide correctness,
TLC configurations that check them on small instances, and TLAPS proofs of the
theorems that hold for every instance.  Paths below are relative to
`src/src/source_recall/` unless they say otherwise.

## Inventory

| Component | State | Operations | Interacts with | What makes it correct |
|---|---|---|---|---|
| Reader/writer lock (`concurrency.py`) | `_readers`, `_writers` (waiting), `_writer_active`, the condition's parked threads | acquire/release for reading and writing | guards the cached querier of `Index` and the store of `IndexQuerier` | exclusion, no lost wakeup, writers preferred, no starvation of waiting writers by readers |
| `Index` facade (`__init__.py`) | cached `_querier`, its lock, lazy reranker | build, refresh, query, status, close | builder, querier; shared by daemon threads | a query never runs on a closed querier; a closed index reopens on demand; no deadlock over the two nested locks |
| `IndexQuerier` (`querier.py`) | `_store` and its lock | enter/leave store, reopen after a swap, query, status, close | `IndexStore`, atomic swap by another process | a query never uses a closed connection; the index swapped in is picked up; ranking is a faithful merge of the signals |
| `IndexStore` (`store.py`) | tables, SQLite connection, file signature, batch depth and savepoints, PID lock file | open/close, migrations, batch mode, chunk/hash/symbol/vector writes, searches, atomic swap, temp cleanup, PID lock | file system, other processes | one writer at a time; a batch is all or nothing, file by file; the full-text index is that of the rows; a crash or a power failure leaves the old index or the new one |
| `IndexBuilder` (`builder.py`) | none of its own between calls | build, refresh (git objects, legacy diff, targeted), dirty detection, vector flush | git, file system, embedder, store | index converges to the work tree; a failed signal is never read as a deletion; a transient embedding failure is retried |
| Chunker (`chunker.py`) | none between calls | file to chunks (syntax trees, Blade, Vue, Markdown, prose, shell, PDF, windows), sub-chunking, attribution of references | builder | no text is dropped or doubled; line spans hold the text; a reference goes to the definition it is in |
| Repo manager (`repo_manager.py`) | registry of slots; per slot state, progress, index, cancel event | add, remove, state changes, close_all | daemon threads | state changes are legal; progress snapshots are consistent; shutdown is bounded |
| Daemon (`daemon.py`) | registry, refresh thread, background index threads, stop event, rate limiter, config file | lifespan, signals, add/remove repo, query fan-out, refresh, progress stream | manager, index, config, uvicorn | config on disk equals the registry; streams end; it stops when told to, in bounded time, and closes nothing in use |
| Server (`server.py`) | dictionary of indexes, rate limiter | query, refresh, status | index | refreshes are limited per repository |
| Daemon configuration and token (`daemon_config.py`) | TOML file, token file | load, save, token election | file system, other processes | every starter uses the same complete token |
| Embedder, reranker (`embedder.py`, `reranker.py`) | lazily loaded model | embed, rerank | model library | one load; failure degrades to full-text search |
| Command line (`cli.py`) | none | index, ask, serve, daemon | daemon over HTTP, index in process | the fallback happens exactly when the daemon cannot answer |
| Models, config, launchd (`models.py`, `config.py`, `launchd.py`) | none | records, defaults, plist text | - | - |

### Where the behaviour is hard

* Two reader/writer locks are nested on the query path and released and taken
  again in retry loops; refresh and shutdown close what queries use.
* The index file is replaced under the readers, by rename, from another process.
* The writer lock is a file that is created, then written, then read by others,
  and is broken by age, by pid and by corruption.
* A refresh writes in several transactions on two connections; embedding may
  fail or the process may die between any two of them.
* What changed is inferred from git signals that can fail one by one.
* Chunks of several files are written in one transaction with a savepoint per
  file, and any statement may fail, take the transaction with it, or be the last.
* Daemon handlers, a periodic refresher and background builds share slots, and
  shutdown closes what they use under one budget.
* A long text is cut, folded, stripped and split by code with an off-by-one in
  every line to get wrong.

## The modules

| Module | Extends / instantiates | Models | Theorems in |
|---|---|---|---|
| `SharedExclusive` | - | what a shared/exclusive lock promises | - |
| `ReaderWriterLock` | implements `SharedExclusive` | `concurrency.py`, whole | `ReaderWriterLockProofs` |
| `QueryPath` | two instances of `ReaderWriterLock` | `Index._with_querier`, `IndexQuerier._enter_store`, `IndexStore.open`/`file_replaced`, `Index._close_querier` | `QueryPathProofs` |
| `PidLock` (`MCPidLock`) | - | `store.py`, `_acquire_lock`, `_release_lock` | `StoreProofs` |
| `MCLocks` | both locks | one of the two per behaviour | - |
| `IndexRefresh` | - | `builder.py`: which files a build, a git-object refresh and a targeted refresh take up, vector flush, `vec_dirty` | `IndexRefreshProofs` |
| `LegacyRefresh` | - | `builder.py`: the same without git objects, by `git diff` or by times and hashes | `LegacyRefreshProofs` |
| `MCRefresh` | `LegacyRefresh`, an instance of `IndexRefresh` | one of the two per behaviour | - |
| `IndexStore` | - | the tables, batches and savepoints of `store.py`, and the writes of a refresh in `builder.py` | `StoreProofs` |
| `AtomicSwap` | - | `store.py`, `atomic_swap`, the write-ahead log and whoever opens the file | `StoreProofs` |
| `Retrieval` | - | `querier.py`, `_run_query` over the searches of `store.py` | `QueryPathProofs` |
| `MCStore` | the three above | one of the three per behaviour | - |
| `Arrangements` | - | lists made from positions, for `Retrieval` and the chunkers: comprehensions with a condition, `sorted`; what a cutting of a list into windows is (`IsCutting`) | - |
| `Chunks`, `TextChunks`, `AstChunks`, `BladeChunks`, `VueChunks`, `Chunker` | the first `Arrangements`, each the ones it needs before it | `chunker.py`, `chunk_file` and every chunker under it; `Chunks` has `_add_chunk` and the look-up by line | `ChunkerProofs`, and `DefinitionProofs` for the definitions |
| `SubChunks` | `Arrangements` | `chunker.py`, `_split_into_sub_chunks`, `_extract_signature` | `ChunkerProofs` |
| `MCChunker` | `Chunker`, `SubChunks` | one file or one long chunk per behaviour | - |
| `RepoDaemon` | - | `repo_manager.py` and the handlers of `daemon.py`: add, remove, background indexing, queries, progress stream, `repos.toml` | `DaemonProofs` |
| `DaemonToken` | - | `daemon_config.py`, the election and the reading of the token | `DaemonProofs` |
| `DaemonShutdown` | - | the lifespan, the periodic refresh, `POST /refresh`, signals, `close_all` | `DaemonProofs` |
| `MCRepoDaemon` | the three above | one of them per behaviour | - |

Definitions keep the source's names where they model one method.  Definitions
under a comment "Broken variant" belong to no specification: each is a plausible
mistake in the code next to it, kept so that the properties can be tried against
it.  An MC module that composes several specifications lets whichever moves first
in a behaviour go on alone, so that its state space is the sum of theirs.

### SharedExclusive and ReaderWriterLock

`SharedExclusive` has two sets, the threads that read and the one that writes,
and lets a thread in when the rule of exclusion allows it.  `ReaderWriterLock`
is the class line by line.  A method runs under the condition's mutex and gives
it up only in `wait()`, so one action is what a thread does between two waits:
a call is granted (`AcquireRead`, `AcquireWrite`) or parks (`ParkReader`,
`ParkWriter`), and a notified thread does the same again when it gets the mutex.
`notified` is the set of parked threads that a `notify_all` has reached; until
they look at the condition any other thread may barge in.  `readers`, `writers`
and `writerActive` are the fields of the class; `at` is the call each thread is
in, which the code has only as a program counter.

Properties: every parked thread that could go on has been notified
(`NoLostWakeup`), the lock implements `SharedExclusive` (`Implements`, which
includes exclusion), and whoever waits is admitted (`Admitted`).  That the
counters are exactly the number of threads they count (`CountsExact`) and that no
reader passes a waiting writer (`WritersPreferred`) are theorems.

Fairness: a thread inside the lock leaves it (every caller releases in a
`finally` block) and a notified thread gets the mutex eventually, that is weak
fairness of `Resume`, which is a thread's next step from anywhere inside the
protocol.  Weak fairness is enough because a parked thread that looks at a
condition that is still true parks again, which is a step.  The mutex favours
nobody and nobody is obliged to call, so admission of waiting readers is claimed
only for the case that writers stop coming, and for writers `Admitted` says that
some waiting writer gets in, not which.

### QueryPath

A query is a sequence of steps through `_with_querier` (index lock), then
`_enter_store` (store lock), the run of the query, and the two `finally` blocks.
Each step is what runs between two points at which another thread can interfere:
the check of `_querier` under the read lock, its creation under the write lock,
the retry; the check of `_store` and of `file_replaced` under the read lock, the
reopening under the write lock, split where the code connects first and stats
the path later (`Connect`, `CacheStore`), and the failing exits.  A closer goes
through `_close_querier`: index lock for writing, then the querier's close, with
the store lock for writing.  `Swap` is the rename of a new `index.db` over the
old one by a build of this process or another.  `conn` carries the generation of
the file it is connected to and the signature that was recorded for it; the two
differ exactly when a swap came between the connect and the stat.

Properties: while a query runs no step changes its connection
(`ConnectionPinned`), a thread inside the store lock is inside the querier that
is still cached and every exit gives both locks back (`QuerierPinned`, which also
justifies one store-lock instance for all queriers), and an old file is served only when the store was opened across a swap
(`ServedStaleOnlyBySwapInOpen`).  `CallsReturn`: the two locks and the two retry
loops neither deadlock nor starve each other.

That exception is real: `file_replaced` compares with a signature that was taken
after the connection, so a swap in that window stays unnoticed until the next
swap (`store.py:409`), although `store.py:424` says that swapped results
self-heal immediately.

### PidLock

One action per system call.  Creating the file (`O_CREAT|O_EXCL`) and writing
its payload are two steps; reading the payload and testing the pid is one, the
look at the age another, and the unlink names the path, not the file: whatever
is there by then goes.  Workers belong to processes, so two threads of one daemon
have one pid.  The environment ages the file, lets deadlines pass, kills a
process and hands its pid out again.

`ExclusionUnlessStolen`: two workers hold at a time only after somebody
unlinked the file of a worker still at work (`stolen`, a history variable).
`NoLockLeaked`: a worker of a live process that is in no call has left no
complete lock file.  `OrphanRecovered`: a dead process' file goes away as soon
as somebody tries.  `AcquireEnds`: the loop, which goes round without a look at
the deadline when it breaks a lock, ends.  Fairness: a worker's steps, and time.

The run `pid_lock_serialised` shows that a lock can in fact be stolen without
any crash: see Findings.

`CHECK_DEADLOCK FALSE` in both lock runs: calls are bounded and processes may all
be dead, so the system may stop.

### IndexRefresh

A file's content is a version; a blob SHA, the chunks and the vectors made from
it are named by that version.  `db` is the published index: per file the version
its chunks are of, the stored hash, the versions that have vectors, and the set
`meta['vec_dirty']`.  `tmp` is what a build writes beside it.  An operation goes
through the places of `pc`:

| `pc` | action | code (`builder.py`) |
|---|---|---|
| `list` | `ListTree` | `git ls-tree` of HEAD |
| `status` | `DetectDirty`, `StatusFails` | `git status`, `git hash-object` of each dirty file |
| `classify` | `Classify`, `ClassifyBuild` | `_classify_candidates`, deletions, `vec_dirty`, the early returns, the switch to a build |
| `index` | `Index` | Phase 1: deletions and re-indexing in one transaction, failed files keep their entry |
| `dropVectors`, `embed` | `DropVectors`, `Embed`, `EmbedFails` | Phase 2 on its own connection |
| `meta` | `WriteMeta`, `Publish` | the meta write of a refresh; the meta write and `atomic_swap` of a build |

Around it: the user edits and commits between any two steps (`EditsOverlap`), each
git signal, stat, read or chunking may fail, the embedder may fail, and the
process may die (`Abort`) between any two transactions.  The PID lock is assumed
to hold, so one operation runs at a time.  What Phase 1 does inside its
transaction is `IndexStore`, what `Publish` does to the file is `AtomicSwap`.

`FaultsKeepEntries`: a refresh drops an entry only if the file was absent at some
time since it started; two exceptions are named in the formula (a failed
`hash-object`, a commit between the two git calls), and the run
`refresh_evidence` shows the first.  `UndisturbedConverges`: whatever happened
before, a full refresh or build that nothing disturbed leaves the index equal to
the work tree, and `EventuallyFresh` says the same of the periodic refresh.  Both
name the torn entry as an exception: the hash is taken during detection and the
content read later (`builder.py:1070`), so an edit in between stores new chunks
under the old hash; if the edit is undone, nothing will ever re-index the file.
`ReindexedIsCoveredOrMarked`: a refresh that completes leaves no file it indexed
without vectors and without a mark, for any history.  `MarkersKept`: a full
refresh embeds a marked file or marks it again, and `EventuallyCovered`: every
file has its vectors in the end, both when only embedding fails.  Outside they do
not hold: a targeted refresh of another file clears the marker
(`builder.py:466`), and a marked file whose read fails is skipped and unmarked
(`builder.py:648`).  A build drops the outcome of embedding and marks nothing
(`builder.py:253`).

### LegacyRefresh

In a shallow clone, and in a directory without commits, a refresh does not know
the blobs.  `disk`, `time` and `head` are the work tree, its `st_mtime_ns` and
what git knows; `last` and `based` say what `meta['last_commit']` names and
whether it is still an ancestor of HEAD; an entry of `index` is a version with the
time it was indexed with.  `op` is what the operation has found out so far.

| `pc` | action | code (`builder.py`) |
|---|---|---|
| `idle` | `Refresh`, `Build`, `Targeted` | `refresh`, `build`, `refresh(changed_files=...)` |
| `diff` | `Diff` | `_git_diff_files`; no answer when there is no such ancestor or git fails |
| `compare` | `Compare`, `Discover` | `_detect_changes` with `_hash_diff`, the early returns, the switch to a build; `_discover_files` of a build |
| `index` | `Read`, `Skip`, `Stamp`, `CommitBatch` | one file of Phase 1: its content, then its time; what fails is skipped |
| `meta` | `WriteMeta` | vectors, marker, and the commit that is HEAD by then |
| any | `Abort` | death, or a storage error |

Every stat, read and git call may fail, and the user edits, commits and rewrites
history between any two steps.  `LegacyConverges`: what nothing disturbed leaves
every file as it is in the work tree, but for two kinds of files.  With `git diff`
these are the files that were not indexed as the recorded commit has them: the
diff is against that commit, not against what is indexed.  With times they are the
files that changed between their read and their stat, which get the new time for
the old content (`builder.py:1116`).  `LegacyEventuallyFresh` says the same of
the periodic refresh once edits and failures stop, and `LegacyEvidence` that no
failure takes an entry away, here without exception.  The first kind matters most:
in a shallow clone, an indexed file that git does not track may change and nothing
but a build ever notices (`builder.py:1320`), although `README.md:151` has
`auto_refresh` "re-index changed files before querying".  `MCRefresh` runs either
kind of refresh, and its `EventuallyFresh` is the claim of both.

Fairness of both: the daemon refreshes periodically (`daemon.py`, `_periodic_refresh_loop`),
which is weak fairness of `Refresh`, and an operation that has started goes on,
which is weak fairness of `Run`; git and the embedder are called with timeouts or
in process, so a step of theirs ends, with an answer or a failure.  Nothing makes
anyone ask for a build or a targeted refresh.

Data here: exclusions, the hash of a PDF.  When the stat of the fast path fails, the
content is compared as if the time differed.  A file that is staged and never
committed is one git does not know.

### IndexStore

The tables of one index and the writes of one refresh after another.  A chunk is
a file and a text, as its id hashes both and not its place.  `disk` is what is
committed and `work` what the writing connection sees: rows by rowid, postings
(`fts`), the references and symbols that name a chunk (`links`), file hashes,
the active branch and the marker.  `tx` is SQLite's stack of the transaction and
its savepoints, `frames` the context managers the call is in, `depth` the field
`_batch_depth`: three records of one thing, kept by three parties.

| `step` | action | code |
|---|---|---|
| - | `Start` | what each kind of refresh deletes, indexes and labels (`builder.py`) |
| `begin`, `files` | `BeginBatch`, `CommitBatch` | `batch_mode`, outermost |
| `files` | `DeleteFile`, `LabelFile` | a deleted file; `_update_branches_only` |
| `old`, `index`, `leave` | `EnterFile`, `DeleteOld`, `IndexFile`, `LeaveFile` | `_reindex_file_preserving`: nested batch, delete, `_index_file`, release of the savepoint |
| any of these | `ChunkingFails`, `StorageFails`, `UnwindNested`, `UnwindBatch` | a failure, and the handlers it passes on its way out; SQLite may have rolled the transaction back by itself |
| `vectors`, `embed` | `DeleteVectors`, `EmbedAndInsert`, `EmbeddingFails` | Phase 2 |
| `meta` | `WriteMeta` | active branch and marker |
| any | `Die` | the process ends; what is committed stays |

`Write` is `_auto_commit`: outside of a batch each statement commits by itself.
`InsertRow` is `INSERT OR REPLACE`, which takes a row of the same id away
*without* its delete trigger.

Properties: depth, context managers and savepoints count the same on every path
(`StacksAligned`); what is committed has each file whole (`FilesWhole`) and
changes in one commit per refresh, in which a failed file is untouched
(`CommitsWhole`); a search for a text finds its chunk and nothing else
(`SearchExact`); a refresh by git objects leaves every chunk on the active branch
(`ActiveBranchLabelled`); a refresh that gets through keeps one vector per chunk
(`VectorsFollowChunks`).  Exceptions, each one a behaviour of the code:

* `SearchExact` holds until a file has the same text twice.  Then `REPLACE`
  leaves a posting behind that a later row inherits; the comment at
  `store.py:682` expects the trigger to fire.
* Refreshes other than by git objects label only what they index.  A switch of
  branches in a shallow clone makes the new branch active with nothing labelled
  (`builder.py:380`), and default queries then find nothing.

### AtomicSwap

A file at the path is a generation, the commits in its main part and whether its
schema is old; the log beside it has the commits not yet copied.  SQLite finds a
log by the *name* of its file, so `Content` takes the frames at their word.
`Refresh` commits to the file, `Open` and `Close` are connections of queries in
any process (the first may migrate, the last copies the log), and `BuildTmp` to
`SyncDirectory` are the steps of a build and of `atomic_swap`: copy the log of
the new file, sync it, compare devices, unlink the log of the old one, rename,
sync the directory.  `Dies` and `PowerFails` may come between any two;
`previous` is the file a power failure would bring back.

`OpenedIsLatest`: whoever opens the path reads the newest commit of the newest
build.  `BuiltStays`: once a build is through, nothing brings the old file back.
The exception both name is the window between unlink and rename
(`store.py:1404`): the log of the live index is gone before the new file is
there, so an opener in between reads the index without its last refresh, and a
stop in between leaves it so until the next build (`windowed`).

### Retrieval

A question is given by what it finds: full-text matches and nearest chunks in
order, chunks whose name it mentions, labels and quality of each chunk.  Scores
are whole multiples of 1/(16*17*18*19), so that sums of reciprocal ranks compare
exactly.  `RunQuery` is `_run_query`: the filters, `_rrf_merge` with bonus and
quality or the scores without vectors, the reranker (which reverses what it gets,
or fails), `top_k`, and `_graph_expand` into what is left.  Filters, the removal
of duplicates and the stable sort are one operator, `Arranged`: the elements at
some positions, each where its place among them is (`Arrangements`).

`AnswerBounded`: at most `top_k` results, none twice, none of a chunk that is
gone, none of another branch, and expansion only fills free places.
`AgreementKept`: a chunk that every search ranks before another is not ranked
behind it.  The results of the expansion are not filtered by branch, which
`AnswerBounded` leaves out; and as labels are compared after the limits of the
searches, a question whose best matches are of other branches may find nothing.

### Chunker and SubChunks

A file is a sequence of units that its chunker cuts no further (lines, Blade
tokens, sentences, pages) or a tree of nodes as the grammar gives it, each with
the lines it starts and ends on and its members within them.  A chunk has the text
it is made of, as a sequence of units, and the line span it claims.  Patterns,
grammars and names are data: a line *is* a heading or a fence, a node *is* a class.
Each format is one action of `Chunker`, which calls the operators of the format's
module: `TextChunks` (Markdown with fences, prose, shell, fallback windows, PDF
with its caps), `AstChunks` (Python, TypeScript, PHP: shells, members, preambles,
decorators, docblocks), `BladeChunks` (the parser of directives and the emission
of nested blocks with the runs between them), `VueChunks` (component blocks,
embedded scripts, packing and folding of template children).  Where the code
calls itself (objects in objects, Vue elements, Blade blocks) it does so down to a
depth, and the model has a function of the depth left: what is cut at depth `n` is
made from what is cut at `n - 1`.

`added` are the chunks that a chunker hands to `_add_chunk`, `chunks` what is
stored of them (`Stored`).  One that is longer than `max_chars` is not stored: its
sub-chunks are, and each claims the lines that its place in the text gives, counted
from the chunk's first line (`chunker.py:2402`).  Where the windows end depends on
the length of each line, so `ChunkWith` takes any way to cut that `Allows` allows,
and that is what `SubChunks` guarantees of every split (`NothingDropped`, proved for
all chunks and limits): windows that start one behind the other, with no gap.  The
signature that a later sub-chunk repeats before its window is not counted as its
text.  Prose and PDF pages are appended as they are, however long.  A reference
goes by bisection over what is stored (`Lookup`).

`TextKept`: all text is in what is stored for exactly one chunk.  `SpansHold`: the
span of a stored chunk or sub-chunk holds all of its text.
`DefinitionsAttributed`: a function is whole in what is stored for one chunk, and a
reference on one of its lines goes to a stored chunk or sub-chunk with that line.
`BlocksKeptApart`: where directives balance, the blocks are the pairs, and a chunk
of a component is of one block.

What the code counts as successive lines is not always: the shell of a class or of
a cut object is put together of lines from all over it, and a preamble or a run of
HTML is stripped of blank lines at the top and still claims them.  When such a text
is too long, its sub-chunks claim lines that are not theirs.  `SpansHold` leaves
these sub-chunks out (`Displaced`), and so does `DefinitionsAttributed` the lines
of methods that they take, as they start within the class and behind the start of
the method (`TakenByShell`).  Both are reachable in the run: where a shell is longer than
`max_chars`, references in methods that are long enough go to the shell
(`chunker.py:2408`, `2915`).

Further exceptions named in the formulas: a Blade closer whose arguments hold directives
is scanned twice (`ClosesWithArguments`); white space before the first line
(`StartsBlank`) or before a sentence (`SentenceOnNewLine`, `chunker.py:2240`)
shifts the line reported; unnamed Vue blocks are taken for one, and so are the
block `template` or `style` and what a script declares under that name, because a
short run of markup is folded by name (`Declared`); the line on which an object
starts goes to its shell, also when the declaration before the object ends on that
line (`Crowded`; a call on that line is then attributed to the object).  For `TextKept`
the formats that pass text over on purpose (syntax trees) are left out; some of
what they pass over looks unintended: the first class variable of a Python class
without a docstring (`chunker.py:896`), class decorators, classes on one line,
methods of nested classes.

`SubChunks` cuts a long chunk: both loops of the code, one step per line, with
the signature, the limit per window, the overlap and its two guards.
`NothingDropped`: at the end the windows are a cutting, so that every line is in
one.  That the signature is
never repeated in the overlap and that windows keep the limit are theorems.

### RepoDaemon

`registry` is `manager.slots`, `slots` every `RepoSlot` ever made with the thread
that indexes it (`work`) and the connection of the `Index` it serves (`conn`).  A
request is a handler with a program counter; handlers run in a thread pool, so
between two of their steps any other handler or indexing thread may run.
`AddRepo` to `StartThread` is `POST /repos`, `Snapshot` to `Rename` is
`_persist_config` with the shared `config.repos` in between, `RemoveRepo` to
`DropIndex` is `DELETE /repos/{name}` with `RepoSlot`'s cancel flag, the bounded
join and the close; `BeginQuery` to `EndQuery` is `POST /query` for one
repository with its lookups outside the manager's lock; the stream polls a slot.

`ForgottenIsClosed`: however a removal and the indexing thread meet, a slot
nobody works on any more serves nothing and has no open connection, unless a
query that had read `slot.index` opened it again.  `ConfigCurrentUnlessOverlapped`:
when nobody is between a change and its save, `repos.toml` names the registered
repositories, unless two saves overlapped or a change ended with an error.

`RemovalsReturn`: a removal returns also when the build it found hangs for ever,
because its join gives up after 30 s.  Its premise is that no query hangs
(`QueriesEnd`): `remove` ends in `slot.close()`, and the `Index.close()` in it waits
without a bound for the queries that run; that it can block for ever behind a
stuck reader is what `repo_manager.py:117` and `:326` say themselves.
`StreamsOfKeptReposEnd`: the stream of a repository that is kept ends, whatever
queries hang, unless the build it watches does.

The exceptions are behaviours of the code, each one reachable in the model: two
overlapping saves may end with the older text (`daemon.py:498`); a removal that
meets a thread assigned and not started raises from `join`
(`repo_manager.py:264`) and leaves the repository in `repos.toml`; iterating over
`manager.slots` without its lock fails when the registry changes size
(`daemon.py:853`); the stream of a repository that is removed while it is
indexed never ends by itself (`repo_manager.py:124`); a failing save leaves the
repository queued for ever (`daemon.py:710`).

Fairness: weak fairness of `Serve`, which is every step of a handler but the end of
a query, and of `Proceed`, which is every step of an indexing thread but the end or
the failure of the build.  There is *no* fairness for the end of a query or of a
build: each may hang for ever, and what needs them to end says so.  No request has
to arrive, and no client has to leave.  The 30 s of a join may pass wherever the
thread is (`MaxTimeouts` of them; a slot is removed at most once, so with one slot
one is all there can be).

### DaemonToken

Each daemon writes a token to a file of its own and links it to the path; the
first link wins and the others read it.  Daemons die at any step and start again,
a client reads whenever it likes.  `TokenAgreed`: the path never has part of a
token, and whoever has a token has that one.

### DaemonShutdown

`worker` is what the periodic refresh and each `POST /refresh` are at, `build`
the indexing threads, `query` a query per repository, `held` the slot locks.
`server` goes through the end of the lifespan: join the loop, join the builds,
then per slot take the lock (or not, once the budget is spent), start a closer and
join it.  A closer waits for the query inside the `Index`.  `cutShort` is a
history variable: some wait was given up, or requests were in flight.

`ShutdownOrderly`, three claims: the end of the lifespan is reached whatever
hangs; while the budget lasts no `Index` is closed underneath a refresh
(`ClosedUnrefreshed`); if nothing was cut short, nothing runs and nothing is open
at the end (`EndsClosed`).  The last two are theorems as well.  The comment
at `daemon.py:345` ("can never close an index underneath a still-running periodic
refresh") is thus true within the budget only (`repo_manager.py:334`).
`SignalStops` is violated: see Findings.

Fairness: the lifespan, the loop, the closers, publishing threads and requests
that wait for a lock go on when they can.  *No* fairness for the end of a refresh,
a build or a query, and time may or may not pass the deadline before any step: a
hang of any of them is a behaviour.

## Runs

| Run | Question | Bounds, and why they are enough |
|---|---|---|
| `locks` | both locks, safety and progress | four threads: two that read, a writer waiting and one more arriving is every combination of the conditions; two workers of one process and one of another with four calls, every age, any crash and one reuse of a pid: the stealer, the victim and a third that profits |
| `pid_lock_serialised` | are writers serialised? | three calls, nobody dies, no file ages |
| `query_path` | pins, balance, freshness, progress | two clients and two closers: a query that runs, one that reopens or retries, against two closes; three generations of the file give a swap in every window and one after it |
| `refresh_safety` | evidence, convergence, marking | two files (one is handled while the other is disturbed), two contents, two edits or commits, one fault of each kind; a rebuild is reached with both files changed |
| `refresh_liveness` | convergence of the periodic refresh with blobs or without, and of vectors; evidence and convergence without blobs | with blobs one file and every kind of disturbance. Without, two files: one is listed, the other is not; two edits or commits around an operation, one fault and one death; a rebuild is reached with both files changed |
| `refresh_evidence` | is a failed signal ever read as a deletion? | one edit, one fault |
| `store` | tables, swap and ranking | two refreshes of two files of up to two chunks: what one leaves, the next one finds; one failure and one death. Two builds, three commits, two readers, one stop. All questions over three chunks, with limits of one and two so that each one bites |
| `chunker` | all formats and the split | files of up to five units or two nodes with a `max_chars` of three, so that every cut and fold happens; members and statements longer than that are among the nodes, so that shells, objects and definitions are split; what is too long is cut into windows of one line each or of three lines of which two are new; definitions are looked for in objects two levels deep (`Nesting`), one more than the walk goes (`ObjectDepth`); no text of nodes ends behind line 22 (`MaxHeight`), no file has more than 20 chunks and no chunk more than 30 lines (`MaxChunks`, `MaxText`: how far the cuttings are given); chunks of up to six lines with every kind of line for the split itself |
| `daemon_safety` | close, configuration, token | two requests, two names, two slots: a name removed and added again, two saves at a time, one fault, one timed-out join; requests and names are interchangeable. Two daemons and a client, three tokens |
| `daemon_liveness` | removals, streams and the daemon end | three requests on one repository: its removal, its query and its stream, while the build and the query may hang and the join gives up. Two repositories, one request beside the loop: one closes while the other hangs |
| `daemon_leak` | does a removed repository ever keep a connection? | two requests, no fault |
| `daemon_signal` | does a signal stop the daemon? | one repository, one request |

Bounds are constants that appear in the guards of the actions they limit, and
are named as such in each module.  `CHECK_DEADLOCK FALSE` is set where the bounded
system stops: a chunked file, an answered question, all calls made, a daemon at
its end.

### Findings

Four runs end in a violation of what a comment, docstring or test of the source
says.

* `pid_lock_serialised`: writers are not always serialised (`store.py:362` says
  they are).  The lock file exists, empty, before its payload is written; a
  contender that reads it then takes it for corrupt, and unlinks whatever is at
  the path a moment later.
* `refresh_evidence`: a new or changed file whose `git hash-object` fails drops out
  of the listing that deletions are computed from, and an entry is deleted
  without evidence (`builder.py:868` forbids it).
* `daemon_leak`: a query that has read `slot.index` before a removal closed it opens
  a new connection afterwards, which nobody closes (`repo_manager.py:48` says a
  removed repository never leaks one).
* `daemon_signal`: the daemon's handler of SIGTERM and SIGINT sets `_stop_event` and
  nothing else (`daemon.py:57`), and replaces the one by which uvicorn would exit,
  as uvicorn (0.41 in `uv.lock`) installs its own before it starts the lifespan.
  The periodic refresh ends and the daemon serves on; `tests/test_daemon_signal.py`
  and the comment at `daemon.py:234` expect a graceful end.

## Proofs

| Theorem | Says | Rests on |
|---|---|---|
| `ReaderWriterLockProofs!TypeCorrect`, `CountsAreExact`, `MutualExclusion`, `WakeupsAreNotLost` | the four invariants of the lock, for any finite set of threads | one inductive invariant: the counters are cardinalities of the sets of threads inside and waiting; a waiting thread that is not notified has a thread inside that will notify |
| `WritersPreferred` | no reader is admitted past a waiting writer | the step alone, under the type invariant |
| `ImplementsSharedExclusive` | the refinement of `SharedExclusive` | the same invariant |
| `StoreProofs!LockTypeCorrect` | file, workers and processes keep their types | the same invariant as the next two |
| `StoreProofs!SerialisedUnlessStolen` | the exclusive create serialises writers until a live file is unlinked, for any workers, processes and bounds | `OwnFileOnDisk`: until then the file on disk is that of the one worker that guards one |
| `StoreProofs!LocksAreReleased` | a live process leaves no complete lock file | `CompleteIsHeld`: the maker of a complete file holds or is dead |
| `IndexRefreshProofs!TypeCorrect` | the indexes and the operation under way are well-formed, for any finite set of files, any versions and bounds | no file is both deleted and re-indexed; files that wait for vectors have chunks in the index that gets the vectors |
| `FaultsKeepEntriesHolds` | no failed stat, read, chunking or `git status` takes an entry away | `Evidence`, one part per place of a refresh: what is absent from the work tree has been seen to go, what differs from the listed tree was committed, what is in neither answer of git is explained, and so is what will be deleted |
| `CoveredOrMarked` | a refresh that ends leaves each file it re-indexed with vectors or marked | `Coverage`: what waits for vectors was to be re-indexed, and has them when the flush reports success |
| `IndexRefreshProofs!Converges` | a full refresh or build that nothing disturbed leaves every file current or torn | `Converging`, one part per place: the listed tree is HEAD's, with the dirty files it is the work tree, what is neither deleted nor indexed is settled, and then all is |
| `MarkersAreKept` | while nothing but embedding fails, a full refresh leaves a marked file that stays marked, or with vectors | `Markers`, on top of the above: a marked file that stays is re-indexed or goes, and from then on it is pending |
| `LegacyRefreshProofs!TypeCorrect` | index, operation and history are well-formed, for any finite set of files, any versions and bounds | the same invariant as the next two |
| `LegacyRefreshProofs!Converges` | a refresh or build that nothing disturbed leaves every file current, but for the two kinds named | `TimesTell`: a file that has the time it was indexed with has the content; `DetectionIsCurrent`: what was found out still holds while nothing disturbs; `Converging`: each file is settled, or still to be read or stamped |
| `EvidenceRequired` | no failure takes an entry away | `GoneSeen`, `LossExplained`: what the open transaction lost has been absent since the start |
| `StoreProofs!StoreInvariant` | the inductive invariant of `IndexStore`, for any paths, texts, versions, branches and bounds | every copy of the tables (on disk, in the transaction, at the savepoint) is `Sound`: one row an id, a posting for each row at its rowid, the rows of a file those of the version hashed, links those of the rows |
| `StoreStacks` | depth, context managers and savepoints count the same, and nothing is left of them at the end | `Stacks`: which of them each step of a refresh has open, and what the transaction holds when it has ended under them |
| `StoreFilesWhole`, `StoreSearch` | a file on disk has the chunks of the version hashed, one row each, or nothing; a search finds its chunk and, but for replaced rows, no other | `Sound`, and `InFileWork`: what the work on the file under way has made of the copy at the savepoint |
| `StoreCommits`, `StoreLabels`, `StoreVectors` | a commit has every finished file in its new version and the others as they were; what a refresh answers for is of the active branch; vectors follow the chunks | `Progress`, `LabelsOK`, `VectorsOK`: the same of the transaction, file by file, before it is committed |
| `StoreProofs!NewestIsOpened`, `BuildsStay` | who opens the path gets the newest commit of the newest file; a build that is through stays | `TmpPrepared`: what is renamed has its log copied and is durable; `Current`: the log is that of the file, and empty in the window; `Settled`: outside of a swap nothing can come back |
| `ChunkerProofs!TextIsKeptAlways` | all text of a file is in what is stored for one chunk and none for two, for any file of any of the ten formats, any tree, any bounds and any cutting of what is too long | `ChunksAreKept`: `ChunksKept`, which is `TextKept` and `SpansHold` of a file of `Files`, is inductive; each format's chunker makes it true of what it adds, which is what the lemmas are for (below), and storing keeps it (`IsStored`) |
| `SpansAlwaysHold` | the lines that a stored chunk or sub-chunk claims hold all of its text, but for sub-chunks of a text of lines that are not successive (`Displaced`) | `Spanning`: the chunks whose units are between their first and last line; no operator makes others, but for a text that starts with white space. A sub-chunk counts from the chunk's first line, so what it claims is its own when the text is successive |
| `BlocksAreKeptApart` | in a template that balances the blocks of the parse are the pairs of directives; a chunk of a component is of blocks of one type, but for the names above | `Matched`: what is on the stack of the scan is what stays open, in order, and each closed block ends behind its partner; `LinesNamed`: a chunk has only lines of the blocks its name stands for |
| `DefinitionProofs!DefinitionsAreAttributed` | a function or method, of whatever node at the top and however deep in objects, is whole in what is stored for one chunk, and a reference on any of its lines goes to a stored chunk or sub-chunk with the line, but for the two exceptions above; for any trees of the four languages and any cutting | `Hits`: the last added chunk, in the order of starts, that starts at a line or before it has the line, and none that starts earlier has a sub-chunk to take it away (`Clear`); `LookedUp`: then the look-up in what is stored finds a sub-chunk with the line; `Calm`: the first line of a node goes to one of its own chunks, so that nodes which share a line do not disturb each other (below) |
| `ChunkerProofs!TypeCorrect`, `NothingIsDropped` | the windows of a split are a cutting, so that it loses no line, for any chunk and any limits | `Chained`: each window starts behind the start of the one before it and no later than the line after it, and so will the next; the rewind never goes past the lines consumed |
| `SignatureIsOnce`, `WindowsWithinLimit` | no line of the signature is in two windows; a window of more than one line keeps the limit when the signature leaves the minimum | after the first window, `from` is behind the signature or behind all windows; the lengths taken are bounded by those of the lines |
| `QueryPathProofs!PathKeeps` | the inductive invariant of the query path, for any finite sets of clients and closers and any bounds | both locks' own inductive invariants, by their theorems; `PlacedAt`: what a thread's place in the code says of the two locks it is at; `ServedAt`: past its check a call has the querier, and a running query a connection |
| `QuerierStays`, `ConnectionStays` | a running query has a connection, and who is at the store lock is inside the index's own querier; no step exchanges the connection under a query | `PlacedAt`, `ServedAt` and the exclusion of the lock concerned |
| `StaleOnlyAcrossSwap` | a query that passes the check is served from the file on disk, or from a connection opened across a swap | the step, under `PathInv` |
| `QueryPathProofs!AnswerIsBounded` | answers have `top_k` places, each for another chunk of the index and of the branch, and the graph fills only what is free; for any questions and limits | `RetrievalInv`: the answer is that of the question; and what each step of `RunQuery` keeps: filters and searches a type, the removal of duplicates and the ranking each element once, the prefixes the bound |
| `QueryPathProofs!AgreementIsKept` | what every search ranks before another is ranked before it | `AgreedComesFirst`: it is met first; `ScoreAgrees`: its score is at least as high, in both modes, as shares fall and multipliers grow; `MergedKeeps`: the sort is stable |
| `DaemonProofs!DaemonKeeps` | the inductive invariant of `RepoDaemon`, for any finite sets of names and requests and any bounds | `HandlersPlaced`, `OneEach`, `SlotsKept`, `Saved`: what a handler's place says of its slot; one handler adds a slot and one removes it; an unregistered slot is cancelled, or is about to be, and has its `Index` only while a handler removes it; what a save under way will write is the registry |
| `RemovedEndsClosed`, `ConfigFollowsRegistry` | a slot nobody works on serves nothing, but for a query that opened it again; `repos.toml` names the registered repositories, but for saves that overlapped or a change that failed | the same invariant |
| `DaemonProofs!OneToken` | all daemons and clients have the one token at the path, for any number of them and any deaths | a draft about to be linked is whole; while the path is empty nobody has a token |
| `ClosedAfterRefresh`, `NothingIsLeft` | within the budget no `Index` is closed under a refresh; an end that cut nothing short leaves nothing running, locked or open | `DownInv`: a slot's lock is held by who refreshes it, or for its closer; one closer is under way; each stage of the end leaves behind it nothing of what it waits for |

Why strengthening is needed: exclusion of the lock does not follow from itself,
because the actions test counters and not the sets of threads; exclusion of the
PID lock does not, because the actions test the file and not the other workers;
that no entry is lost does not, because the deletion is carried out two steps
after the last of the observations it rests on, while the user goes on editing;
that a refresh converges does not, because it speaks of the end and the contents are
read after the decision which to read;
that no line is lost does not, because it speaks of the end and the rewind
happens on the way; that files are whole does not, because a rollback brings back
a copy of the tables made steps ago, so that every copy has to be sound and the
stack has to say which one comes back; that a connection is not taken away from
a query does not, because the closer tests a lock and not the query; that a
removed slot ends closed does not, because thread and removal each leave the
close to the other; that the end of the daemon leaves nothing does not, because
one stage waits for what another one stage later relies on.

The chunkers are done in one step, so what has to be found is an invariant for each
loop they run.  Lists of lines are cut at heads in ascending order, and a section
ends before the next head (`SectionEnds`); a pack of sentences starts where the one
before it ends (`PackStartsAre`).  An element of a component is cut into spans that
`Tiles` its lines: one behind the other, from the first line to the last, at every
depth (`CutElementIs`); then each span is emitted or folded into the chunk before
it, and what was `Emitted` is all text up to that line, each line once, and a last
chunk that ends there.  The scan of a template keeps `ScanOk`: blocks start where
they were found (`Found`), and while no argument spans directives the open blocks
contain each other and the closed ones lie beside each other (`Nest`), so that the
blocks inside a block, one behind the other, leave runs of markup between them
(`CutBlockIs`, at every depth `EmitIs`).  Where arguments do span directives the
parse may have blocks that overlap; still no unit is lost (`Somewhere`).  That the
blocks are the pairs takes more than the scan itself knows: the level at a place
counts openers and closers from the start of the text, and a pair is found by
looking ahead for the first place below it (`PartnerIs`).  `Matched` relates the two
after each unit; where directives balance, the innermost open block is the one
that the closer under way was written for (`LowersToPartner`).

What is stored is related to what was added once, for any list of chunks
(`StoredIs`): pieces know the chunk they are of, together have its units, the first
of them starts where it starts, and, of a chunk whose text is successive, the piece
that starts last before a line has it.

Where a reference goes is a statement about all chunks of a file at once, as the
look-up goes by the order of their starts.  It is proved of the chunks as they are
added and carried over to what is stored (`LookedUp`).  For that it is not enough
that the chunk a line goes to starts last: an earlier one, once it is cut, has
sub-chunks that may start behind it and end before the line.  So each chunk that
starts there or before has to reach the line, or to end where the other starts and
be added before it (`Clear`); what a scattered text does is left to the exception
`TakenByShell`.  Then piece by piece: chunks put behind others keep what goes to
those if they start later (`HitsLeft`), and what goes to them stays theirs if the
others start no later and have no sub-chunk that comes between (`HitsRight`,
`Yields`).  Nodes one behind the other may share a line; then the later one has to
have the line it starts on (`Calm`, `Leads`, `FlatAttends`), which shells of classes
in TypeScript and PHP do (`TsClassAttends`, `PhpClassAttends`), those of Python need
not because a class starts on a line of its own, and those of objects do not: that
is how `Crowded` was found.  Objects are met level by level, from the depth at which
they are kept whole (`CutAttends`); what `ObjectsIn` finds is related to what is cut
by the same level.  The chunks of a script move with its tag (`RebaseAttends`), and
what is folded into a chunk or added behind it takes no line from it (`Enlarged`):
all of it is text of the block, which is behind what was there.

The rows of a file are written by a fold over its chunks.  What the fold leaves is
proved by induction, with the *set* of the numbers for which the claim holds in
the place of a predicate (`NatInductionSet`), as no theorem with an operator for
a parameter can be cited.

Assumptions are those in the modules (`ThreadsAssumption`,
`WorkersAssumption`, `NoneAssumption`, `VersionsAssumption`, `BoundsAssumption`,
`ChunksAssumption`, `LimitsAssumption`, `TokensAssumption`, `LegacyAssumption`,
`SwapAssumption`, `FileVersionsAssumption`, `NamesAssumption`, `RefreshersAssumption`,
`QuestionsAssumption`, `FilesAssumption`, `NodesAssumption`):
finite sets of threads, files, names and requests, versions that are positive
numbers or sequences of texts, bounds that are natural numbers (positive for the
index files and the slots), chunks that have lines, questions whose matches and
names are of chunks in the index and whose matches score above zero, trees whose
members are within their nodes and in the order of the text, components whose blocks
come one behind the other, Python classes that start on a line of their own, HTML
that starts with blank lines only where no node ends on its first line,
and values that are told apart.  The theorems of `ReaderWriterLock` have its one assumption, finitely many
threads, as a hypothesis instead: `QueryPath` has two instances of the module and
cites them for both.

Model-checked only: every liveness property, with the first claim of
`ShutdownOrderly` (the prover has no `ENABLED` and no reasoning under fairness).
Every invariant that a passing run checks is a theorem.

## Not modelled

* What external code computes: grammars, embedding and reranking models, BM25,
  vector distance.  Patterns, naming and classification of symbols and the
  regular expressions that find references: data.
* In `builder.py`: the identity check, hashing of PDF documents, which paths are
  excluded, the text of the marker `vec_dirty`, paths joined by commas (a path with a
  comma in it would come back as two).
* In `store.py`: the statements of single migrations, `clean_tmp_files`, `_transaction`
  outside of a batch.
* In the daemon: the rate limiter (it compares two times under a lock; note that it
  records the time before the refresh runs), the fan-out of a query over
  repositories, progress figures, the check of paths, the warm-up.
* The single server: a table of indexes that never changes; its rate limiter counts
  a repository under the name it was asked for (`server.py:510`), so with and
  without a name are two budgets.
* The lazy load of models, the command line, TOML, `launchd` text, records and
  defaults: conversions, or one step under a lock.
* In `_acquire_lock`: a living process of another user, which `os.kill` refuses
  to signal with `PermissionError` and the code therefore takes for dead.

## Plan

The order is by what goes wrong most expensively: locks and query path, builder
lock, refresh (with git objects and without), daemon, store, swap, chunkers, ranking, token and shutdown (done);
then

1. `IndexRefresh` over `IndexStore`: the index phase as one step, implemented by
   the batch.
