-------------------------------- MODULE AtomicSwap --------------------------------
(* A build replaces the index file under its readers: store.py, atomic_swap,  *)
(* with the build and the refreshes of builder.py around it and the openers   *)
(* of querier.py.                                                             *)
(*                                                                            *)
(* A file is a generation and the number of commits in its main part; what    *)
(* is committed and not yet copied there is in the log beside it, which       *)
(* SQLite finds by the name of the file and not by the file.  The last        *)
(* connection to a file copies its log and deletes it.                        *)
EXTENDS Integers

CONSTANTS
  Readers,      \* connections that queries hold, of this and other processes
  MaxBuilds, MaxCommits, MaxStops

ASSUME SwapAssumption == {MaxBuilds, MaxCommits, MaxStops} \subseteq Nat

VARIABLES
  file,      \* what is at the path: generation, commits in the main part, schema
  log,       \* what is at the path with -wal: whose frames, up to which commit
  previous,  \* the file a power failure would bring back: the rename is not durable
  tmp,       \* the file of the build: has its log been copied, is it durable
  conns,     \* the generation each reader is connected to, 0 for none
  latest,    \* the newest commit of the newest file
  building,  \* where the build is
  windowed,  \* a stop or a reader's migration fell in the window of the last swap
  counted    \* builds, commits and stops so far

swapVars == <<file, log, previous, tmp, conns, latest, building, windowed, counted>>

NoLog == [gen |-> 0, upto |-> 0, frames |-> FALSE]
NoFile == [gen |-> 0, main |-> 0, old |-> FALSE]
NoTmp == [whole |-> FALSE, durable |-> FALSE]

(* What a connection that is opened now reads: frames are taken at their     *)
(* word, whichever file they were written for.                               *)
Content ==
  IF log.frames THEN [gen |-> log.gen, upto |-> log.upto]
  ELSE [gen |-> file.gen, upto |-> file.main]

Connected(g) == \E r \in Readers : conns[r] = g
Count(what) == counted' = [counted EXCEPT ![what] = @ + 1]
InWindow == building = "unlinked"

(* The index was built before the schema changed.                            *)
SwapInit ==
  /\ file = [gen |-> 1, main |-> 0, old |-> TRUE] /\ log = NoLog /\ previous = NoFile
  /\ tmp = NoTmp /\ conns = [r \in Readers |-> 0]
  /\ latest = [gen |-> 1, upto |-> 0] /\ building = "no" /\ windowed = FALSE
  /\ counted = [builds |-> 0, commits |-> 0, stops |-> 0]

(* A commit through a connection to the path, and what is left of the log.   *)
Committed(closing) ==
  LET n == Content.upto + 1
      entry == [gen |-> Content.gen, upto |-> n]
  IN  /\ latest' = IF Content = latest \/ windowed THEN entry ELSE latest
      /\ \/ /\ closing /\ ~Connected(file.gen)
            /\ file' = [file EXCEPT !.main = n, !.old = FALSE] /\ log' = NoLog
         \/ /\ ~closing \/ Connected(file.gen)
            /\ log' = [gen |-> entry.gen, upto |-> n, frames |-> TRUE]
            /\ file' = [file EXCEPT !.old = FALSE]

(* A refresh, under the lock that a build holds too. *)
Refresh ==
  /\ building = "no" /\ counted.commits < MaxCommits /\ Count("commits")
  /\ Committed(TRUE)
  /\ UNCHANGED <<previous, tmp, conns, building, windowed>>

(* A reader takes no lock.  Opening makes a log if there is none, and        *)
(* run_migrations commits to it when the schema is old.                      *)
Open(r) ==
  /\ conns[r] = 0
  /\ conns' = [conns EXCEPT ![r] = file.gen]
  /\ IF file.old
       THEN Committed(FALSE) /\ windowed' = (windowed \/ InWindow)
       ELSE /\ log' = IF log = NoLog THEN [gen |-> file.gen, upto |-> file.main, frames |-> FALSE] ELSE log
            /\ UNCHANGED <<file, latest, windowed>>
  /\ UNCHANGED <<previous, tmp, building, counted>>

(* The last one copies the log; one whose file was moved away copies nothing. *)
Close(r) ==
  /\ conns[r] # 0
  /\ conns' = [conns EXCEPT ![r] = 0]
  /\ IF conns[r] = file.gen /\ \A q \in Readers \ {r} : conns[q] # file.gen
       THEN /\ file' = IF log.frames /\ log.gen = file.gen THEN [file EXCEPT !.main = log.upto] ELSE file
            /\ log' = NoLog
       ELSE UNCHANGED <<file, log>>
  /\ UNCHANGED <<previous, tmp, latest, building, windowed, counted>>

-----------------------------------------------------------------------------
(* The build.  Its own close may or may not have copied the log of tmp.      *)
BuildTmp ==
  /\ building = "no" /\ counted.builds < MaxBuilds /\ Count("builds")
  /\ building' = "built"
  /\ \E copied \in BOOLEAN : tmp' = [NoTmp EXCEPT !.whole = copied]
  /\ UNCHANGED <<file, log, previous, conns, latest, windowed>>

Quiet == UNCHANGED <<file, log, previous, conns, latest, windowed, counted>>

Checkpoint ==
  /\ building = "built" /\ building' = "copied"
  /\ tmp' = [tmp EXCEPT !.whole = TRUE]
  /\ Quiet

SyncFile ==
  /\ building = "copied" /\ building' = "synced"
  /\ tmp' = [tmp EXCEPT !.durable = TRUE]
  /\ Quiet

(* Broken variant: refused after the sidecars are gone. *)
RefuseAfterUnlink ==
  /\ building = "synced" /\ building' = "no" /\ tmp' = NoTmp
  /\ log' = NoLog
  /\ UNCHANGED <<file, previous, conns, latest, windowed, counted>>

(* Another device: the swap is refused, and the build fails. *)
Refuse ==
  /\ building = "synced" /\ building' = "no" /\ tmp' = NoTmp
  /\ Quiet

UnlinkSidecars ==
  /\ building = "synced" /\ building' = "unlinked"
  /\ log' = NoLog /\ windowed' = FALSE
  /\ UNCHANGED <<file, previous, tmp, conns, latest, counted>>

(* Without its log a file that was not copied lacks what was committed.      *)
Rename ==
  /\ building = "unlinked" /\ building' = "renamed"
  /\ previous' = file
  /\ file' = [gen |-> 1 + counted.builds, main |-> IF tmp.whole THEN 0 ELSE -1, old |-> FALSE]
  /\ latest' = [gen |-> 1 + counted.builds, upto |-> 0]
  /\ UNCHANGED <<log, tmp, conns, windowed, counted>>

(* Broken variant: the directory is not synced. *)
SkipDirectory ==
  /\ building = "renamed" /\ building' = "no"
  /\ tmp' = NoTmp
  /\ UNCHANGED <<file, log, previous, conns, latest, windowed, counted>>

SyncDirectory ==
  /\ building = "renamed" /\ building' = "no"
  /\ previous' = NoFile /\ tmp' = NoTmp
  /\ UNCHANGED <<file, log, conns, latest, windowed, counted>>

(* The process of the build dies. *)
Dies ==
  /\ building # "no" /\ counted.stops < MaxStops /\ Count("stops")
  /\ building' = "no" /\ tmp' = NoTmp
  /\ windowed' = (windowed \/ building \in {"unlinked", "renamed"})
  /\ UNCHANGED <<file, log, previous, conns, latest>>

(* Power fails: everything is closed, and a rename that is not durable may   *)
(* be undone; what was unlinked may stay so.                                 *)
PowerFails ==
  /\ counted.stops < MaxStops /\ Count("stops")
  /\ building' = "no" /\ tmp' = NoTmp /\ previous' = NoFile
  /\ conns' = [r \in Readers |-> 0]
  /\ \/ /\ UNCHANGED latest
        /\ file' = IF building = "renamed" /\ ~tmp.durable THEN [file EXCEPT !.main = -1] ELSE file
     \/ previous # NoFile /\ file' = previous /\ latest' = [gen |-> previous.gen, upto |-> previous.main]
  /\ windowed' = (windowed \/ InWindow \/ file'.gen # file.gen)
  /\ UNCHANGED log

SwapNext ==
  \/ Refresh \/ \E r \in Readers : Open(r) \/ Close(r)
  \/ BuildTmp \/ Checkpoint \/ SyncFile \/ Refuse \/ UnlinkSidecars \/ Rename \/ SyncDirectory
  \/ Dies \/ PowerFails

SwapSpec == SwapInit /\ [][SwapNext]_swapVars

-----------------------------------------------------------------------------
SwapTypeOK ==
  /\ file \in [gen : 1 .. 1 + MaxBuilds, main : Int, old : BOOLEAN]
  /\ log \in [gen : 0 .. 1 + MaxBuilds, upto : Int, frames : BOOLEAN]
  /\ previous = NoFile \/ previous.gen < file.gen
  /\ tmp \in [whole : BOOLEAN, durable : BOOLEAN]
  /\ conns \in [Readers -> 0 .. file.gen]
  /\ building \in {"no", "built", "copied", "synced", "unlinked", "renamed"}

(* Whoever opens the path gets the newest commit of the newest build: not an *)
(* older one because a log was deleted before it was copied, and not that of *)
(* another file because a log was left ("replay confusion").  The exceptions *)
(* are the window between unlink and rename, and what a stop or a migration  *)
(* in there leaves, until the next build.                                    *)
OpenedIsLatest ==
  /\ SwapTypeOK
  /\ (~InWindow /\ ~windowed) => Content = latest

(* Once a build is through, a power failure does not bring the old file back *)
(* ("so the rename survives a crash").                                       *)
BuiltStays == [][(building = "no" /\ ~windowed) => file'.gen >= file.gen]_swapVars
=============================================================================
