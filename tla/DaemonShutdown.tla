---------------------------- MODULE DaemonShutdown ----------------------------
(***************************************************************************)
(* How the daemon stops (lifespan of daemon.py, close_all of               *)
(* repo_manager.py) among the threads that refresh, build and query: the   *)
(* periodic refresh, POST /refresh, the thread that indexes an added       *)
(* repository, and queries.  A refresh, a build and a query may hang.      *)
(*                                                                         *)
(* uvicorn is external: it drains requests for a while and then runs the   *)
(* end of the lifespan.  Its signal handlers, by which it is told to exit, *)
(* are replaced when the lifespan starts.                                  *)
(* Left out: removals (RepoDaemon), rate limits, and the warm-up.          *)
(***************************************************************************)
EXTENDS Naturals, FiniteSets

CONSTANTS
  Repos,       \* the repositories that are registered
  Refreshers   \* requests of POST /refresh

ASSUME RefreshersAssumption == {"free", "loop", "stop"} \cap Refreshers = {}

VARIABLES
  server,     \* where the server and its lifespan are
  stopEvent,  \* _stop_event
  held,       \* who holds slot.lock of each repository
  index,      \* repositories with slot.index
  conn,       \* repositories whose Index has its querier open
  query,      \* the query on each repository
  worker,     \* what the loop and each request of a refresh is at
  round,      \* repositories the loop has still to look at
  build,      \* the thread that indexes each repository
  closer,     \* the thread that close_all starts for each repository
  todo,       \* repositories close_all has still to close
  spent,      \* its budget is spent
  cutShort    \* history: something was not waited for until its end

downVars == <<server, stopEvent, held, index, conn, query, worker,
              round, build, closer, todo, spent, cutShort>>
serverVars == <<server, stopEvent, todo, spent, cutShort>>
threads == <<query, worker, round, build>>

RefreshThreads == {"loop"} \cup Refreshers
Off(place) == [at |-> place, repo |-> "none"]

(* Repositories of the configuration are loaded; others are being added.   *)
DownInit ==
  /\ server = "serving" /\ stopEvent = FALSE
  /\ index \in SUBSET Repos /\ conn = index
  /\ build = [r \in Repos |-> IF r \in index THEN "done" ELSE "build"]
  /\ held = [r \in Repos |-> "free"]
  /\ query = [r \in Repos |-> "none"]
  /\ worker = [w \in RefreshThreads |-> Off("idle")]
  /\ round = {} /\ closer = [r \in Repos |-> "none"] /\ todo = {}
  /\ spent = FALSE /\ cutShort = FALSE

-----------------------------------------------------------------------------
(* The handler that _install_shutdown_handlers puts in the place of         *)
(* uvicorn's sets the event, and nothing else.                              *)
Signal ==
  /\ server = "serving" /\ ~stopEvent /\ stopEvent' = TRUE
  /\ UNCHANGED <<server, todo, spent, cutShort, held, index, conn, threads, closer>>

InFlight == (\E r \in Repos : query[r] # "none") \/ \E x \in Refreshers : worker[x].at # "idle"

(* The server stops for whatever other reason it has. *)
StopServing ==
  /\ server = "serving" /\ server' = "joinLoop"
  /\ stopEvent' = TRUE
  /\ cutShort' = InFlight
  /\ UNCHANGED <<todo, spent, held, index, conn, threads, closer>>

-----------------------------------------------------------------------------
(* A query has looked its Index up, enters it, and may run for ever.        *)
LookUpIndex(r) ==
  /\ server = "serving" /\ query[r] = "none" /\ r \in index
  /\ query' = [query EXCEPT ![r] = "found"]
  /\ UNCHANGED <<serverVars, held, index, conn, worker, round, build, closer>>

EnterIndex(r) ==
  /\ query[r] = "found" /\ query' = [query EXCEPT ![r] = "runs"]
  /\ conn' = conn \cup {r}
  /\ UNCHANGED <<serverVars, held, index, worker, round, build, closer>>

QueryEnds(r) ==
  /\ query[r] = "runs" /\ query' = [query EXCEPT ![r] = "none"]
  /\ UNCHANGED <<serverVars, held, index, conn, worker, round, build, closer>>

(* POST /refresh waits for the lock of the slot. *)
AskRefresh(x, r) ==
  /\ server = "serving" /\ worker[x].at = "idle" /\ r \in index
  /\ worker' = [worker EXCEPT ![x] = [at |-> "lock", repo |-> r]]
  /\ UNCHANGED <<serverVars, held, index, conn, query, round, build, closer>>

LockForRefresh(x) ==
  /\ worker[x].at = "lock" /\ held[worker[x].repo] = "free"
  /\ held' = [held EXCEPT ![worker[x].repo] = x]
  /\ worker' = [worker EXCEPT ![x].at = "close"]
  /\ UNCHANGED <<serverVars, index, conn, query, round, build, closer>>

(* The periodic refresh: one round over all repositories, whether or not   *)
(* the event is set meanwhile; a slot that is locked is passed over.       *)
LoopWakes ==
  /\ worker["loop"].at = "idle" /\ round = {} /\ ~stopEvent
  /\ round' = Repos
  /\ UNCHANGED <<serverVars, held, index, conn, query, worker, build, closer>>

LoopLocks(r) ==
  /\ worker["loop"].at = "idle" /\ r \in round /\ r \in index /\ held[r] = "free"
  /\ held' = [held EXCEPT ![r] = "loop"]
  /\ worker' = [worker EXCEPT !["loop"] = [at |-> "close", repo |-> r]]
  /\ round' = round \ {r}
  /\ UNCHANGED <<serverVars, index, conn, query, build, closer>>

LoopPasses(r) ==
  /\ worker["loop"].at = "idle" /\ r \in round /\ (r \notin index \/ held[r] # "free")
  /\ round' = round \ {r}
  /\ UNCHANGED <<serverVars, held, index, conn, query, worker, build, closer>>

LoopEnds ==
  /\ worker["loop"].at = "idle" /\ round = {} /\ stopEvent
  /\ worker' = [worker EXCEPT !["loop"].at = "ended"]
  /\ UNCHANGED <<serverVars, held, index, conn, query, round, build, closer>>

(* Index.refresh closes the querier once no query runs on it ...            *)
CloseQuerier(w) ==
  /\ worker[w].at = "close" /\ query[worker[w].repo] # "runs"
  /\ conn' = conn \ {worker[w].repo}
  /\ worker' = [worker EXCEPT ![w].at = "work"]
  /\ UNCHANGED <<serverVars, held, index, query, round, build, closer>>

(* ... and builds on a connection of its own, for as long as it takes.      *)
RefreshEnds(w) ==
  /\ worker[w].at = "work"
  /\ held' = [held EXCEPT ![worker[w].repo] = "free"]
  /\ worker' = [worker EXCEPT ![w] = Off("idle")]
  /\ UNCHANGED <<serverVars, index, conn, query, round, build, closer>>

(* _background_index, which publishes under the lock of the slot. *)
BuildEnds(r) ==
  /\ build[r] = "build" /\ build' = [build EXCEPT ![r] = "publish"]
  /\ UNCHANGED <<serverVars, held, index, conn, query, worker, round, closer>>

Publish(r) ==
  /\ build[r] = "publish" /\ held[r] = "free"
  /\ build' = [build EXCEPT ![r] = "done"]
  /\ index' = index \cup {r} /\ conn' = conn \cup {r}
  /\ UNCHANGED <<serverVars, held, query, worker, round, closer>>

-----------------------------------------------------------------------------
(* Broken variant: the periodic refresh is waited for without a limit. *)
JoinLoopForever ==
  /\ server = "joinLoop" /\ server' = "joinBuilds" /\ worker["loop"].at = "ended"
  /\ UNCHANGED <<stopEvent, todo, spent, cutShort, held, index, conn, threads, closer>>

(* A join that gives up after shutdown_timeout_s. *)
JoinLoop ==
  /\ server = "joinLoop" /\ server' = "joinBuilds"
  /\ cutShort' = (cutShort \/ worker["loop"].at # "ended")
  /\ UNCHANGED <<stopEvent, todo, spent, held, index, conn, threads, closer>>

JoinBuilds ==
  /\ server = "joinBuilds" /\ server' = "lock" /\ todo' = Repos
  /\ cutShort' = (cutShort \/ \E r \in Repos : build[r] # "done")
  /\ UNCHANGED <<stopEvent, spent, held, index, conn, threads, closer>>

(* close_all: time passes until the one budget for all of it is spent.      *)
BudgetPasses ==
  /\ server \in {"lock", "closing"} /\ ~spent /\ spent' = TRUE
  /\ UNCHANGED <<server, stopEvent, todo, cutShort, held, index, conn, threads, closer>>

(* A worker thread closes the slot, under its lock or, when the budget is   *)
(* spent, without.                                                          *)
StartClosing(r) ==
  /\ server = "lock" /\ r \in todo /\ server' = "closing"
  /\ IF spent THEN UNCHANGED held /\ cutShort' = TRUE
              ELSE held[r] = "free" /\ held' = [held EXCEPT ![r] = "stop"] /\ UNCHANGED cutShort
  /\ closer' = [closer EXCEPT ![r] = "runs"]
  /\ UNCHANGED <<stopEvent, todo, spent, index, conn, threads>>

(* slot.close: Index.close waits for the queries that run ...               *)
CloseConnection(r) ==
  /\ closer[r] = "runs"
  /\ IF r \in index
       THEN query[r] # "runs" /\ conn' = conn \ {r} /\ closer' = [closer EXCEPT ![r] = "drops"]
       ELSE UNCHANGED conn /\ closer' = [closer EXCEPT ![r] = "done"]
  /\ UNCHANGED <<serverVars, held, index, threads>>

(* ... and the slot lets go of the Index. *)
DropClosed(r) ==
  /\ closer[r] = "drops" /\ closer' = [closer EXCEPT ![r] = "done"]
  /\ index' = index \ {r}
  /\ UNCHANGED <<serverVars, held, conn, threads>>

JoinCloser(r) ==
  /\ server = "closing" /\ r \in todo /\ closer[r] # "none"
  /\ closer[r] = "done" \/ spent
  /\ todo' = todo \ {r}
  /\ server' = "lock"
  /\ held' = IF held[r] = "stop" THEN [held EXCEPT ![r] = "free"] ELSE held
  /\ cutShort' = (cutShort \/ closer[r] # "done")
  /\ UNCHANGED <<stopEvent, spent, index, conn, threads, closer>>

AllClosed ==
  /\ server = "lock" /\ todo = {} /\ server' = "ended"
  /\ UNCHANGED <<stopEvent, todo, spent, cutShort, held, index, conn, threads, closer>>

-----------------------------------------------------------------------------
Lifespan ==
  \/ JoinLoop \/ JoinBuilds \/ BudgetPasses \/ AllClosed
  \/ \E r \in Repos : StartClosing(r) \/ JoinCloser(r)

Loop == LoopEnds \/ CloseQuerier("loop") \/ \E r \in Repos : LoopLocks(r) \/ LoopPasses(r)
Closer(r) == CloseConnection(r) \/ DropClosed(r)

DownNext ==
  \/ Signal \/ StopServing \/ LoopWakes
  \/ Lifespan \/ Loop
  \/ \E r \in Repos : LookUpIndex(r) \/ EnterIndex(r) \/ QueryEnds(r)
                       \/ BuildEnds(r) \/ Publish(r) \/ Closer(r)
  \/ \E x \in Refreshers : LockForRefresh(x) \/ CloseQuerier(x) \/ \E r \in Repos : AskRefresh(x, r)
  \/ \E w \in RefreshThreads : RefreshEnds(w)

DownSpec == DownInit /\ [][DownNext]_downVars

(* The threads run; a refresh, a build and a query need not end, and nobody *)
(* has to ask for anything.                                                 *)
DownFairness ==
  /\ WF_downVars(Lifespan) /\ WF_downVars(Loop)
  /\ \A r \in Repos : WF_downVars(Publish(r)) /\ WF_downVars(Closer(r))
  /\ \A x \in Refreshers : WF_downVars(LockForRefresh(x) \/ CloseQuerier(x))

FairDownSpec == DownSpec /\ DownFairness

-----------------------------------------------------------------------------
Refreshing(r) == \E w \in RefreshThreads : worker[w].repo = r /\ worker[w].at \in {"close", "work"}

(* No Index is closed while its slot is refreshed ("it can never close an   *)
(* index underneath a still-running periodic refresh"), unless the budget   *)
(* is spent.                                                                *)
ClosedUnrefreshed ==
  [][\A r \in Repos : (closer[r] = "runs" /\ closer'[r] = "drops" /\ Refreshing(r)) => spent]_downVars

(* When nothing was cut short, nothing runs and nothing is open in the end. *)
EndsClosed ==
  server = "ended" /\ ~cutShort =>
    /\ index = {} /\ conn = {} /\ worker["loop"].at = "ended"
    /\ \A r \in Repos : held[r] = "free" /\ build[r] = "done" /\ closer[r] = "done"

(* The end of the daemon is bounded and orderly: moreover the lifespan gets *)
(* to its end although queries, builds and refreshes hang (close_all:       *)
(* "shutdown always completes in bounded time").                            *)
ShutdownOrderly ==
  /\ (server = "joinLoop") ~> (server = "ended")
  /\ ClosedUnrefreshed
  /\ []EndsClosed

(* A signal stops the daemon (daemon.py: it "still triggers a graceful      *)
(* drain"; tests/test_daemon_signal.py).                                    *)
SignalStops == (server = "serving" /\ stopEvent) ~> (server = "ended")
=============================================================================
