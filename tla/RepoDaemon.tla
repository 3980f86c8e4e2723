------------------------------ MODULE RepoDaemon ------------------------------
(***************************************************************************)
(* The registry of the daemon: repositories are added and removed over     *)
(* HTTP (daemon.py, repo_manager.py), each added one is indexed by a       *)
(* thread of its own, queries and progress streams look repositories up,   *)
(* and repos.toml follows the registry.  Handlers run in a thread pool, so *)
(* their steps interleave.                                                 *)
(*                                                                         *)
(* Left out: what building and querying do inside an Index (IndexRefresh,  *)
(* QueryPath), the progress figures, paths and their containment check,    *)
(* refreshes and shutdown.                                                 *)
(***************************************************************************)
EXTENDS Naturals, Sequences, FiniteSets

CONSTANTS
  Names,       \* names under which repositories are registered
  Handlers,    \* requests that are served at a time
  MaxSlots,    \* bound: repositories added, one after the other
  MaxFaults,   \* bound: failing builds and failing writes of repos.toml
  MaxTimeouts  \* bound: joins that give up on a build after 30 s

ASSUME NamesAssumption == IsFiniteSet(Names) /\ IsFiniteSet(Handlers)
ASSUME BoundsAssumption == MaxSlots \in Nat \ {0} /\ {MaxFaults, MaxTimeouts} \subseteq Nat

VARIABLES
  registry,    \* manager.slots: the number of the slot of each name, or 0
  slots,       \* every RepoSlot made so far
  job,         \* what each handler is doing
  cfgRepos,    \* config.repos, as names
  file,        \* repos.toml, as names
  used,        \* how much of each bound is used up
  unfinished,  \* history: a change of the registry ended with an error
  overlapped,  \* history: a repos.toml was prepared while another one was
  reopened     \* history: slots whose index a query opened after its close

vars == <<registry, slots, job, cfgRepos, file, used, unfinished, overlapped, reopened>>
configs == <<cfgRepos, file, overlapped>>

(* A RepoSlot, with the thread that indexes it (work) and the connection   *)
(* of the Index it serves from.                                            *)
Slots ==
  [name : Names,
   state : {"queued", "indexing", "ready", "error"},
   index : BOOLEAN,                            \* slot.index is not None
   cancel : BOOLEAN,
   thread : {"none", "assigned", "started"},   \* slot.index_thread
   work : {"none", "begin", "build", "open", "ready", "error", "done"},
   conn : {"closed", "open", "closing"}]
NewSlot(n) ==
  [name |-> n, state |-> "queued", index |-> FALSE, cancel |-> FALSE,
   thread |-> "none", work |-> "none", conn |-> "closed"]
LoadedSlots(n) ==
  {[NewSlot(n) EXCEPT !.state = "ready", !.index = TRUE, !.conn = "open"],
   [NewSlot(n) EXCEPT !.state = "error"]}

Registered == {n \in Names : registry[n] # 0}

Places == {"idle", "snapshot", "assign", "serialise", "rename", "thread", "start",
           "cancel", "join", "close", "drop", "iterate", "lookup", "use", "enter", "run",
           "stream"}
Jobs == [at : Places, slot : 0..MaxSlots, names : SUBSET Names, size : 0..Cardinality(Names),
         then : {"idle", "thread"}]
Idle == [at |-> "idle", slot |-> 0, names |-> {}, size |-> 0, then |-> "idle"]

Bounds == [faults |-> MaxFaults, timeouts |-> MaxTimeouts]
Spend(kind) ==
  /\ used[kind] < Bounds[kind]
  /\ used' = [used EXCEPT ![kind] = @ + 1]

TypeOK ==
  /\ registry \in [Names -> 0..Len(slots)]
  /\ slots \in Seq(Slots) /\ Len(slots) <= MaxSlots
  /\ job \in [Handlers -> Jobs]
  /\ cfgRepos \subseteq Names
  /\ file \subseteq Names
  /\ \A kind \in DOMAIN Bounds : used[kind] \in 0..Bounds[kind]
  /\ unfinished \in BOOLEAN
  /\ overlapped \in BOOLEAN
  /\ reopened \subseteq DOMAIN slots

(* The daemon has started with no repository, or one whose index it tried  *)
(* to load.                                                                *)
Init ==
  /\ \/ slots = <<>> /\ registry = [n \in Names |-> 0]
     \/ \E n \in Names : \E slot \in LoadedSlots(n) :
          /\ slots = <<slot>>
          /\ registry = [m \in Names |-> IF m = n THEN 1 ELSE 0]
  /\ job = [h \in Handlers |-> Idle]
  /\ cfgRepos = Registered
  /\ file = Registered
  /\ used = [kind \in DOMAIN Bounds |-> 0]
  /\ unfinished = FALSE
  /\ overlapped = FALSE
  /\ reopened = {}

At(h, place) == job[h].at = place
Goto(h, place) == job' = [job EXCEPT ![h].at = place]
Return(h) == job' = [job EXCEPT ![h] = Idle]
RaiseUnfinished(h) == Return(h) /\ unfinished' = TRUE
Mine(h) == slots[job[h].slot]

-----------------------------------------------------------------------------
(* POST /repos *)

(* manager.add, under its lock; a name that is taken is refused with 409.  *)
AddRepo(h, n) ==
  /\ At(h, "idle")
  /\ registry[n] = 0
  /\ Len(slots) < MaxSlots
  /\ slots' = Append(slots, NewSlot(n))
  /\ registry' = [registry EXCEPT ![n] = Len(slots) + 1]
  /\ job' = [job EXCEPT ![h] = [Idle EXCEPT !.at = "snapshot", !.slot = Len(slots) + 1,
                                           !.then = "thread"]]
  /\ UNCHANGED <<configs, used, unfinished, reopened>>

CreateThread(h) ==
  /\ At(h, "thread")
  /\ slots' = [slots EXCEPT ![job[h].slot].thread = "assigned"]
  /\ Goto(h, "start")
  /\ UNCHANGED <<registry, configs, used, unfinished, reopened>>

StartThread(h) ==
  /\ At(h, "start")
  /\ slots' = [slots EXCEPT ![job[h].slot].thread = "started",
                            ![job[h].slot].work = "begin"]
  /\ Return(h)
  /\ UNCHANGED <<registry, configs, used, unfinished, reopened>>

-----------------------------------------------------------------------------
(* _persist_config *)

Persisting(h) == job[h].at \in {"assign", "serialise", "rename"}

(* manager.snapshot_repos, under the manager's lock. *)
Snapshot(h) ==
  /\ At(h, "snapshot")
  /\ job' = [job EXCEPT ![h].at = "assign", ![h].names = Registered]
  /\ overlapped' = (overlapped \/ \E g \in Handlers : Persisting(g))
  /\ UNCHANGED <<registry, slots, cfgRepos, file, used, unfinished, reopened>>

Assign(h) ==
  /\ At(h, "assign")
  /\ cfgRepos' = job[h].names
  /\ Goto(h, "serialise")
  /\ UNCHANGED <<registry, slots, file, used, unfinished, overlapped, reopened>>

(* The text is made from config.repos as it is by now, then written to a   *)
(* temporary file.                                                         *)
Serialise(h) ==
  /\ At(h, "serialise")
  /\ job' = [job EXCEPT ![h].at = "rename", ![h].names = cfgRepos]
  /\ UNCHANGED <<registry, slots, configs, used, unfinished, reopened>>

Rename(h) ==
  /\ At(h, "rename")
  /\ file' = job[h].names
  /\ job' = [job EXCEPT ![h] =
               IF job[h].then = "idle" THEN Idle
               ELSE [Idle EXCEPT !.at = "thread", !.slot = job[h].slot]]
  /\ UNCHANGED <<registry, slots, cfgRepos, used, unfinished, overlapped, reopened>>

(* The temporary file is removed and the error leaves the handler. *)
WriteFails(h) ==
  /\ At(h, "rename")
  /\ Spend("faults")
  /\ RaiseUnfinished(h)
  /\ UNCHANGED <<registry, slots, configs, reopened>>

-----------------------------------------------------------------------------
(* The thread that indexes slot s: _background_index *)

Step(s, from, slot) ==
  /\ s \in DOMAIN slots
  /\ slots[s].work = from
  /\ slots' = [slots EXCEPT ![s] = slot]
  /\ UNCHANGED <<registry, job, configs, unfinished, reopened>>

SetIndexing(s) ==
  /\ Step(s, "begin", [slots[s] EXCEPT !.state = "indexing", !.work = "build"])
  /\ UNCHANGED used

Build(s) ==
  /\ Step(s, "build", [slots[s] EXCEPT !.work = "open"])
  /\ UNCHANGED used

(* A fresh Index whose status() opens its querier and its store. *)
OpenIndex(s) ==
  /\ Step(s, "open", [slots[s] EXCEPT !.work = "ready", !.conn = "open"])
  /\ UNCHANGED used

(* Broken variant: the error ends the thread, the state stays. *)
IndexingFailsSilently(s) ==
  /\ \/ Step(s, "build", [slots[s] EXCEPT !.work = "done"])
     \/ Step(s, "open", [slots[s] EXCEPT !.work = "done"])
  /\ Spend("faults")

IndexingFails(s) ==
  /\ \/ Step(s, "build", [slots[s] EXCEPT !.work = "error"])
     \/ Step(s, "open", [slots[s] EXCEPT !.work = "error"])
  /\ Spend("faults")

(* Broken variant: set_ready does not look at the cancel flag. *)
SetReadyAnyway(s) ==
  /\ Step(s, "ready", [slots[s] EXCEPT !.state = "ready", !.index = TRUE, !.work = "done"])
  /\ UNCHANGED used

(* set_ready, under the slot's lock: a removed repository's Index goes to  *)
(* a thread that closes it.                                                *)
SetReady(s) ==
  /\ s \in DOMAIN slots
  /\ Step(s, "ready",
       IF slots[s].cancel
       THEN [slots[s] EXCEPT !.conn = "closing", !.work = "done"]
       ELSE [slots[s] EXCEPT !.state = "ready", !.index = TRUE, !.work = "done"])
  /\ UNCHANGED used

SetError(s) ==
  /\ Step(s, "error", [slots[s] EXCEPT !.state = "error", !.work = "done"])
  /\ UNCHANGED used

CloseDetached(s) ==
  /\ s \in DOMAIN slots
  /\ slots[s].conn = "closing"
  /\ Step(s, slots[s].work, [slots[s] EXCEPT !.conn = "closed"])
  /\ UNCHANGED used

(* What the thread does but for the build, which nothing bounds. *)
Proceed(s) ==
  SetIndexing(s) \/ OpenIndex(s) \/ SetReady(s) \/ SetError(s) \/ CloseDetached(s)

Work(s) == Proceed(s) \/ Build(s) \/ IndexingFails(s)

-----------------------------------------------------------------------------
(* DELETE /repos/{name}: manager.remove, then _persist_config *)

RemoveRepo(h, n) ==
  /\ At(h, "idle")
  /\ n \in Registered
  /\ registry' = [registry EXCEPT ![n] = 0]
  /\ job' = [job EXCEPT ![h] = [Idle EXCEPT !.at = "cancel", !.slot = registry[n]]]
  /\ UNCHANGED <<slots, configs, used, unfinished, reopened>>

Cancel(h) ==
  /\ At(h, "cancel")
  /\ slots' = [slots EXCEPT ![job[h].slot].cancel = TRUE]
  /\ Goto(h, "join")
  /\ UNCHANGED <<registry, configs, used, unfinished, reopened>>

(* Broken variant: thread.join without the timeout. *)
JoinUnbounded(h) ==
  /\ At(h, "join")
  /\ \/ Mine(h).thread = "none"
     \/ Mine(h).thread = "started" /\ Mine(h).work = "done"
  /\ Goto(h, "close")
  /\ UNCHANGED <<registry, slots, configs, used, unfinished, reopened>>

(* The timeout may pass wherever the thread is. *)
Join(h) ==
  /\ At(h, "join")
  /\ \/ Mine(h).thread = "none" /\ UNCHANGED used
     \/ Mine(h).thread = "started" /\ Mine(h).work = "done" /\ UNCHANGED used
     \/ Mine(h).thread = "started" /\ Mine(h).work # "done" /\ Spend("timeouts")
  /\ Goto(h, "close")
  /\ UNCHANGED <<registry, slots, configs, unfinished, reopened>>

(* threading: a thread that has not been started cannot be joined. *)
JoinFails(h) ==
  /\ At(h, "join")
  /\ Mine(h).thread = "assigned"
  /\ RaiseUnfinished(h)
  /\ UNCHANGED <<registry, slots, configs, used, reopened>>

(* Index.close waits for the queries that run ... *)
CloseIndex(h) ==
  /\ At(h, "close")
  /\ \/ /\ Mine(h).index
        /\ \A g \in Handlers : At(g, "run") => job[g].slot # job[h].slot
        /\ slots' = [slots EXCEPT ![job[h].slot].conn = "closed"]
        /\ Goto(h, "drop")
     \/ /\ ~Mine(h).index
        /\ Goto(h, "snapshot")
        /\ UNCHANGED slots
  /\ UNCHANGED <<registry, configs, used, unfinished, reopened>>

(* Broken variant: repos.toml is not written. *)
DropIndexUnsaved(h) ==
  /\ At(h, "drop")
  /\ slots' = [slots EXCEPT ![job[h].slot].index = FALSE]
  /\ Return(h)
  /\ UNCHANGED <<registry, configs, used, unfinished, reopened>>

(* ... and then the slot lets go of it. *)
DropIndex(h) ==
  /\ At(h, "drop")
  /\ slots' = [slots EXCEPT ![job[h].slot].index = FALSE]
  /\ Goto(h, "snapshot")
  /\ UNCHANGED <<registry, configs, used, unfinished, reopened>>

-----------------------------------------------------------------------------
(* POST /query for one repository *)

(* The comprehension over manager.slots, without the manager's lock: a     *)
(* dictionary that changes its size meanwhile raises RuntimeError.         *)
BeginQuery(h) ==
  /\ At(h, "idle")
  /\ job' = [job EXCEPT ![h] = [Idle EXCEPT !.at = "iterate", !.size = Cardinality(Registered)]]
  /\ UNCHANGED <<registry, slots, configs, used, unfinished, reopened>>

Iterate(h) ==
  /\ At(h, "iterate")
  /\ job[h].size = Cardinality(Registered)
  /\ Goto(h, "lookup")
  /\ UNCHANGED <<registry, slots, configs, used, unfinished, reopened>>

IterateFails(h) ==
  /\ At(h, "iterate")
  /\ job[h].size # Cardinality(Registered)
  /\ Return(h)
  /\ UNCHANGED <<registry, slots, configs, used, unfinished, reopened>>

Servable(n) ==
  n \in Registered /\ slots[registry[n]].state = "ready" /\ slots[registry[n]].index

(* 404 or 503 when the repository is not there or not ready. *)
LookUp(h, n) ==
  /\ At(h, "lookup")
  /\ IF Servable(n)
     THEN job' = [job EXCEPT ![h].at = "use", ![h].slot = registry[n]]
     ELSE Return(h)
  /\ UNCHANGED <<registry, slots, configs, used, unfinished, reopened>>

(* slot.index is read again; None has no query. *)
UseIndex(h) ==
  /\ At(h, "use")
  /\ IF Mine(h).index THEN Goto(h, "enter") ELSE Return(h)
  /\ UNCHANGED <<registry, slots, configs, used, unfinished, reopened>>

(* Index.query opens the querier when there is none. *)
Enter(h) ==
  /\ At(h, "enter")
  /\ slots' = [slots EXCEPT ![job[h].slot].conn = "open"]
  /\ reopened' = IF Mine(h).conn = "closed" THEN reopened \union {job[h].slot} ELSE reopened
  /\ Goto(h, "run")
  /\ UNCHANGED <<registry, configs, used, unfinished>>

EndQuery(h) ==
  /\ At(h, "run")
  /\ Return(h)
  /\ UNCHANGED <<registry, slots, configs, used, unfinished, reopened>>

-----------------------------------------------------------------------------
(* GET /repos/{name}/progress: polls the slot, not the registry. *)

BeginStream(h, n) ==
  /\ At(h, "idle")
  /\ n \in Registered
  /\ job' = [job EXCEPT ![h] = [Idle EXCEPT !.at = "stream", !.slot = registry[n]]]
  /\ UNCHANGED <<registry, slots, configs, used, unfinished, reopened>>

EndStream(h) ==
  /\ At(h, "stream")
  /\ Mine(h).state \in {"ready", "error"}
  /\ Return(h)
  /\ UNCHANGED <<registry, slots, configs, used, unfinished, reopened>>

(* The client of the stream goes away. *)
LeaveStream(h) ==
  /\ At(h, "stream")
  /\ Return(h)
  /\ UNCHANGED <<registry, slots, configs, used, unfinished, reopened>>

-----------------------------------------------------------------------------
Call(h) ==
  \/ BeginQuery(h) \/ LeaveStream(h)
  \/ \E n \in Names : AddRepo(h, n) \/ RemoveRepo(h, n) \/ BeginStream(h, n)

(* What a handler does but for the query, which nothing bounds. *)
Serve(h) ==
  \/ CreateThread(h) \/ StartThread(h)
  \/ Snapshot(h) \/ Assign(h) \/ Serialise(h) \/ Rename(h) \/ WriteFails(h)
  \/ Cancel(h) \/ Join(h) \/ JoinFails(h) \/ CloseIndex(h) \/ DropIndex(h)
  \/ Iterate(h) \/ IterateFails(h) \/ (\E n \in Names : LookUp(h, n))
  \/ UseIndex(h) \/ Enter(h)
  \/ EndStream(h)

Handle(h) == Serve(h) \/ EndQuery(h)

Next ==
  \/ \E h \in Handlers : Call(h) \/ Handle(h)
  \/ \E s \in 1..MaxSlots : Work(s)

Spec == Init /\ [][Next]_vars

(* Threads run; nobody has to call, or to go away.  A query may run for    *)
(* ever, and so may a build.                                               *)
FairSpec ==
  /\ Spec
  /\ \A h \in Handlers : WF_vars(Serve(h))
  /\ \A s \in 1..MaxSlots : WF_vars(Proceed(s))

-----------------------------------------------------------------------------
(* A slot that is out of the registry and that no handler is removing or   *)
(* querying, and whose indexing and detached close are over.               *)
Forgotten(s) ==
  /\ s \notin {registry[n] : n \in Names}
  /\ \A h \in Handlers : job[h].slot # s \/ At(h, "stream")
  /\ slots[s].work \in {"none", "done"}
  /\ slots[s].conn # "closing"

(* A removed repository serves nothing and has no connection open, however *)
(* the removal and the indexing met, unless a query that had read          *)
(* slot.index before the close opened it again.                            *)
ForgottenIsClosed ==
  /\ TypeOK
  /\ \A s \in DOMAIN slots :
       Forgotten(s) =>
         ~slots[s].index /\ (slots[s].conn = "closed" \/ s \in reopened)

(* What RepoSlot promises (repo_manager.py: "so a removed repo never leaks *)
(* an open connection").                                                   *)
RemovedNeverLeaks ==
  \A s \in DOMAIN slots : Forgotten(s) => slots[s].conn = "closed"

(* Handlers that have changed the registry and have not saved it yet. *)
Unsaved(h) ==
  job[h].at \in {"snapshot", "assign", "serialise", "rename", "cancel", "join",
                    "close", "drop"}

(* Between changes repos.toml names the repositories that are registered:  *)
(* what a restart brings back (_persist_config, "write current config").   *)
(* Only saves that overlap can put an older registry over a newer one, and *)
(* only a change that ended with an error goes unsaved.                    *)
ConfigCurrentUnlessOverlapped ==
  (~overlapped /\ ~unfinished /\ \A h \in Handlers : ~Unsaved(h)) =>
    file = Registered

(* A removal returns also when the build it found hangs for ever: the join *)
(* gives up.  It returns only if no query does: slot.close() ends in       *)
(* Index.close(), which "can block indefinitely behind a stuck reader"     *)
(* (RepoSlot.set_ready).                                                   *)
QueriesEnd == \A h \in Handlers : []<>~At(h, "run")
RemovalsReturn == QueriesEnd => \A h \in Handlers : At(h, "cancel") ~> At(h, "idle")

Watching(h, s) == At(h, "stream") /\ job[h].slot = s
Cancelled(s) == s \in DOMAIN slots /\ slots[s].cancel

(* The stream of a repository that stays registered, and that its handler  *)
(* got to index, ends unless the build hangs: indexing then reaches ready  *)
(* or error, whatever queries hang.                                        *)
Building(s) == s \in DOMAIN slots /\ slots[s].work = "build"
StreamsOfKeptReposEnd ==
  \A s \in 1..MaxSlots : []<>~Building(s) =>
    \A h \in Handlers :
      (Watching(h, s) /\ slots[s].work # "none") ~> (~Watching(h, s) \/ Cancelled(s))
=============================================================================
