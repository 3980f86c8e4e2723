--------------------------- MODULE ReaderWriterLock ---------------------------
(***************************************************************************)
(* concurrency.py: the condition-variable reader/writer lock that guards   *)
(* the cached IndexQuerier of an Index and the IndexStore of a querier.    *)
(*                                                                         *)
(* Every method body runs under the condition's mutex and gives it up only *)
(* inside wait(), so what one thread does between two waits is one action: *)
(* a call that is granted, a call that parks, a notified thread that looks *)
(* at the condition again.  notify_all() moves the parked threads to       *)
(* "notified"; a notified thread competes for the mutex with every other   *)
(* caller, in any order.                                                   *)
(***************************************************************************)
EXTENDS Naturals, FiniteSets

CONSTANT Threads    \* the threads that call the lock

VARIABLES
  readers,        \* _readers
  writers,        \* _writers: how many threads wait to write
  writerActive,   \* _writer_active
  at,             \* where each thread is in the lock's protocol
  notified        \* parked threads that a notify_all has reached

lockVars == <<readers, writers, writerActive, at, notified>>

Places == {"out", "waitRead", "waitWrite", "read", "write"}
In(place) == {t \in Threads : at[t] = place}
Waiting == In("waitRead") \union In("waitWrite")

TypeOK ==
  /\ readers \in Nat
  /\ writers \in Nat
  /\ writerActive \in BOOLEAN
  /\ at \in [Threads -> Places]
  /\ notified \subseteq Waiting

Init ==
  /\ readers = 0
  /\ writers = 0
  /\ writerActive = FALSE
  /\ at = [t \in Threads |-> "out"]
  /\ notified = {}

-----------------------------------------------------------------------------
(* Broken variants: a reader that barges past the active writer, or past   *)
(* the waiting ones.                                                       *)
ReadBlockedNoActive == writers > 0
ReadBlockedNoPreference == writerActive

(* The two loop conditions. *)
ReadBlocked == writers > 0 \/ writerActive
WriteBlocked == readers > 0 \/ writerActive

Move(t, place) == at' = [at EXCEPT ![t] = place]

(* t looks at its loop condition: on its call, or after it was notified. *)
Looks(t, parked) == at[t] = "out" \/ (at[t] = parked /\ t \in notified)

AcquireRead(t) ==
  /\ Looks(t, "waitRead")
  /\ ~ReadBlocked
  /\ readers' = readers + 1
  /\ Move(t, "read")
  /\ notified' = notified \ {t}
  /\ UNCHANGED <<writers, writerActive>>

ParkReader(t) ==
  /\ Looks(t, "waitRead")
  /\ ReadBlocked
  /\ Move(t, "waitRead")
  /\ notified' = notified \ {t}
  /\ UNCHANGED <<readers, writers, writerActive>>

(* _writers counts t only while t waits: a call that is granted at once    *)
(* adds one and takes it off again under the same mutex.                   *)
AcquireWrite(t) ==
  /\ Looks(t, "waitWrite")
  /\ ~WriteBlocked
  /\ writers' = IF at[t] = "waitWrite" THEN writers - 1 ELSE writers
  /\ writerActive' = TRUE
  /\ Move(t, "write")
  /\ notified' = notified \ {t}
  /\ UNCHANGED readers

ParkWriter(t) ==
  /\ Looks(t, "waitWrite")
  /\ WriteBlocked
  /\ writers' = IF at[t] = "waitWrite" THEN writers ELSE writers + 1
  /\ Move(t, "waitWrite")
  /\ notified' = notified \ {t}
  /\ UNCHANGED <<readers, writerActive>>

(* Broken variant: the last reader leaves without notifying.               *)
ReleaseReadSilent(t) ==
  /\ at[t] = "read"
  /\ readers' = readers - 1
  /\ Move(t, "out")
  /\ UNCHANGED <<writers, writerActive, notified>>

(* Only the last reader notifies. *)
ReleaseRead(t) ==
  /\ at[t] = "read"
  /\ readers' = readers - 1
  /\ Move(t, "out")
  /\ notified' = IF readers = 1 THEN Waiting ELSE notified
  /\ UNCHANGED <<writers, writerActive>>

(* Broken variant: the writer leaves without notifying. *)
ReleaseWriteSilent(t) ==
  /\ at[t] = "write"
  /\ writerActive' = FALSE
  /\ Move(t, "out")
  /\ UNCHANGED <<readers, writers, notified>>

ReleaseWrite(t) ==
  /\ at[t] = "write"
  /\ writerActive' = FALSE
  /\ Move(t, "out")
  /\ notified' = Waiting
  /\ UNCHANGED <<readers, writers>>

Step(t) ==
  \/ AcquireRead(t) \/ ParkReader(t) \/ ReleaseRead(t)
  \/ AcquireWrite(t) \/ ParkWriter(t) \/ ReleaseWrite(t)

Next == \E t \in Threads : Step(t)

Spec == Init /\ [][Next]_lockVars

(* A thread that was notified runs, and a holder releases (every caller    *)
(* releases in a finally block); nobody has to call the lock again, and    *)
(* the mutex favours nobody.                                               *)
Resume(t) ==
  /\ at[t] # "out"
  /\ Step(t)

FairSpec == Spec /\ \A t \in Threads : WF_lockVars(Resume(t))

-----------------------------------------------------------------------------
(* The counters are bookkeeping for sets of threads: _readers counts the   *)
(* holders for reading, _writers the threads that wait to write, and the   *)
(* flag stands for the one writer.  A count that drifts (one missed        *)
(* decrement) would block the lock for ever or let two sides in.           *)
CountsExact ==
  /\ readers = Cardinality(In("read"))
  /\ writers = Cardinality(In("waitWrite"))
  /\ writerActive <=> In("write") # {}

(* A writer excludes readers and other writers, whatever the order in      *)
(* which threads wake and barge in (docstring of ReaderWriterLock).        *)
Exclusion ==
  /\ In("write") # {} => In("read") = {}
  /\ \A t, u \in In("write") : t = u

(* No lost wakeup: a thread is parked, with no notification on its way,    *)
(* only while the condition it waits for is still false.  Otherwise it     *)
(* would sleep with nobody left to wake it.                                *)
NoLostWakeup ==
  /\ \A t \in In("waitRead") \ notified : ReadBlocked
  /\ \A t \in In("waitWrite") \ notified : WriteBlocked

(* Writer preference (docstring: "Writers are preferred once waiting to    *)
(* avoid starving refreshes under heavy read load"): no step lets a reader *)
(* in while some thread waits to write.                                    *)
WriterPreference ==
  [][In("waitWrite") # {} => In("read")' \subseteq In("read")]_lockVars

(* The lock implements the abstract shared/exclusive lock.                 *)
Abstract == INSTANCE SharedExclusive
  WITH sharers <- In("read"), owner <- In("write")
Implements == Abstract!Spec

(* Writers are not starved by readers: as soon as one thread waits to      *)
(* write, some thread writes, however many readers keep arriving.  And a   *)
(* reader waits for writers only: if from some point on nobody waits to    *)
(* write or writes, every waiting reader gets in.                          *)
Admitted ==
  /\ (In("waitWrite") # {}) ~> (In("write") # {})
  /\ <>[](In("waitWrite") \union In("write") = {}) =>
       \A t \in Threads : (at[t] = "waitRead") ~> (at[t] = "read")
=============================================================================
