--------------------------- MODULE SharedExclusive ---------------------------
(***************************************************************************)
(* What a reader/writer lock promises its callers, and nothing of how it   *)
(* keeps the promise: the lock is held by a set of sharers or by a single  *)
(* owner, never by both (concurrency.py, class docstring: "Multiple        *)
(* readers may hold the lock concurrently; a writer waits until no readers *)
(* (or writers) are active").                                              *)
(***************************************************************************)
CONSTANT Threads

VARIABLES
  sharers,   \* threads that hold the lock for reading
  owner      \* the threads (at most one) that hold it for writing

seVars == <<sharers, owner>>

Init == sharers = {} /\ owner = {}

Share(t) ==
  /\ owner = {} /\ t \notin sharers
  /\ sharers' = sharers \union {t}
  /\ UNCHANGED owner

Unshare(t) ==
  /\ t \in sharers
  /\ sharers' = sharers \ {t}
  /\ UNCHANGED owner

Own(t) ==
  /\ owner = {} /\ sharers = {}
  /\ owner' = {t}
  /\ UNCHANGED sharers

Disown(t) ==
  /\ owner = {t}
  /\ owner' = {}
  /\ UNCHANGED sharers

Next == \E t \in Threads : Share(t) \/ Unshare(t) \/ Own(t) \/ Disown(t)

Spec == Init /\ [][Next]_seVars
=============================================================================
