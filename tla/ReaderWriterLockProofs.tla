----------------------- MODULE ReaderWriterLockProofs -----------------------
(***************************************************************************)
(* The reader/writer lock, for any finite set of threads: its counters     *)
(* stay exact, writers exclude everybody else, no wakeup is lost, waiting  *)
(* writers are preferred, and the lock implements SharedExclusive.         *)
(*                                                                         *)
(* The loop conditions test counters, the properties speak of threads;     *)
(* CountsExact ties the two together and carries every other proof.  That  *)
(* the threads are finitely many is a hypothesis of each result, so that   *)
(* QueryPathProofs can cite them for its two locks.                        *)
(***************************************************************************)
EXTENDS ReaderWriterLock, FiniteSetTheorems, TLAPS

(* The inductive invariant: exact counters are what makes the tests of     *)
(* counters exclude threads.                                               *)
IInv == IsFiniteSet(Threads) /\ TypeOK /\ CountsExact /\ Exclusion

(* A count is zero only for a place without threads. *)
LEMMA PlaceCounts ==
  ASSUME IsFiniteSet(Threads), NEW place
  PROVE  /\ IsFiniteSet(In(place))
         /\ Cardinality(In(place)) \in Nat
         /\ Cardinality(In(place)) = 0 <=> In(place) = {}
  <1>1. IsFiniteSet(In(place))
    BY FS_Subset DEF In
  <1>2. QED
    BY <1>1, FS_CardinalityType, FS_EmptySet

(* What a move does to the set of threads at a place: the thread joins the *)
(* place it moves to, leaves the one it was at, and is the only one to     *)
(* move.                                                                   *)
LEMMA MoveSets ==
  ASSUME NEW t \in Threads, NEW to, TypeOK, Move(t, to), NEW place
  PROVE  In(place)' = IF place = to THEN In(place) \union {t} ELSE In(place) \ {t}
  BY DEF TypeOK, Move, In

(* The counting side of a move. *)
LEMMA MoveCounts ==
  ASSUME IsFiniteSet(Threads), NEW t \in Threads, NEW to, TypeOK, Move(t, to), NEW place
  PROVE  Cardinality(In(place)') =
           IF place = to
           THEN IF at[t] = place THEN Cardinality(In(place)) ELSE Cardinality(In(place)) + 1
           ELSE IF at[t] = place THEN Cardinality(In(place)) - 1 ELSE Cardinality(In(place))
  <1>1. IsFiniteSet(In(place))
    BY PlaceCounts
  <1>2. t \in In(place) <=> at[t] = place
    BY DEF In
  <1>3. In(place)' = IF place = to THEN In(place) \union {t} ELSE In(place) \ {t}
    BY MoveSets
  <1>4. Cardinality(In(place) \union {t}) =
          IF t \in In(place) THEN Cardinality(In(place)) ELSE Cardinality(In(place)) + 1
    BY <1>1, FS_AddElement
  <1>5. Cardinality(In(place) \ {t}) =
          IF t \in In(place) THEN Cardinality(In(place)) - 1 ELSE Cardinality(In(place))
    BY <1>1, FS_RemoveElement
  <1>6. QED
    BY <1>2, <1>3, <1>4, <1>5

(* A thread that reads is counted, so the count it takes itself off is at  *)
(* least one; likewise for a thread that waits to write.                   *)
LEMMA CountedIsPositive ==
  ASSUME IsFiniteSet(Threads), NEW t \in Threads
  PROVE  Cardinality(In(at[t])) > 0
  <1>1. t \in In(at[t])
    BY DEF In
  <1>2. QED
    BY <1>1, PlaceCounts

LEMMA InitInv ==
  ASSUME IsFiniteSet(Threads), Init
  PROVE  IInv
  <1>1. \A p \in Places \ {"out"} : In(p) = {}
    BY DEF Init, In, Places
  <1>2. Cardinality(In("read")) = 0 /\ Cardinality(In("waitWrite")) = 0
    BY <1>1, PlaceCounts DEF Places
  <1>3. TypeOK
    BY DEF Init, TypeOK, Places
  <1>4. QED
    BY <1>1, <1>2, <1>3 DEF IInv, Init, CountsExact, Exclusion, Places

LEMMA StepTypeOK ==
  ASSUME IInv, NEW t \in Threads, Step(t)
  PROVE  TypeOK'
  <1> USE DEF IInv, TypeOK, Places
  <1>0. \A place : Cardinality(In(place)) \in Nat
    BY PlaceCounts
  <1>1. CASE AcquireRead(t)
    BY <1>1 DEF AcquireRead, Looks, Move, Waiting, In
  <1>2. CASE ParkReader(t)
    BY <1>2 DEF ParkReader, Looks, Move, Waiting, In
  <1>3. CASE AcquireWrite(t)
    <2>1. at[t] = "waitWrite" => writers > 0
      BY CountedIsPositive DEF CountsExact
    <2>2. writers' \in Nat
      BY <1>3, <2>1 DEF AcquireWrite
    <2>3. QED
      BY <1>3, <2>2 DEF AcquireWrite, Looks, Move, Waiting, In
  <1>4. CASE ParkWriter(t)
    <2>1. writers' \in Nat
      BY <1>4 DEF ParkWriter
    <2>2. QED
      BY <1>4, <2>1 DEF ParkWriter, Looks, Move, Waiting, In
  <1>5. CASE ReleaseRead(t)
    <2>1. readers > 0
      BY <1>5, CountedIsPositive DEF CountsExact, ReleaseRead
    <2>2. readers' \in Nat
      BY <1>5, <2>1 DEF ReleaseRead
    <2>3. QED
      BY <1>5, <2>2 DEF ReleaseRead, Move, Waiting, In
  <1>6. CASE ReleaseWrite(t)
    BY <1>6 DEF ReleaseWrite, Move, Waiting, In
  <1>7. QED
    BY <1>1, <1>2, <1>3, <1>4, <1>5, <1>6 DEF Step

LEMMA StepCounts ==
  ASSUME IInv, NEW t \in Threads, Step(t)
  PROVE  CountsExact'
  <1> USE DEF IInv, CountsExact
  <1>0. TypeOK /\ IsFiniteSet(Threads)
    OBVIOUS
  <1>1. CASE AcquireRead(t)
    <2>1. Move(t, "read") /\ at[t] \in {"out", "waitRead"}
      BY <1>1 DEF AcquireRead, Looks
    <2>2. Cardinality(In("read")') = Cardinality(In("read")) + 1
      BY <1>0, <2>1, MoveCounts, Zenon
    <2>3. Cardinality(In("waitWrite")') = Cardinality(In("waitWrite"))
      BY <1>0, <2>1, MoveCounts, Zenon
    <2>4. In("write")' = In("write") \ {t}
      BY <1>0, <2>1, MoveSets, Zenon
    <2>5. t \notin In("write")
      BY <2>1 DEF In
    <2>6. QED
      BY <1>1, <2>2, <2>3, <2>4, <2>5 DEF AcquireRead
  <1>2. CASE ParkReader(t)
    <2>1. Move(t, "waitRead") /\ at[t] \in {"out", "waitRead"}
      BY <1>2 DEF ParkReader, Looks
    <2>2. Cardinality(In("read")') = Cardinality(In("read"))
      BY <1>0, <2>1, MoveCounts, Zenon
    <2>3. Cardinality(In("waitWrite")') = Cardinality(In("waitWrite"))
      BY <1>0, <2>1, MoveCounts, Zenon
    <2>4. In("write")' = In("write") \ {t}
      BY <1>0, <2>1, MoveSets, Zenon
    <2>5. t \notin In("write")
      BY <2>1 DEF In
    <2>6. QED
      BY <1>2, <2>2, <2>3, <2>4, <2>5 DEF ParkReader
  <1>3. CASE AcquireWrite(t)
    <2>1. Move(t, "write") /\ at[t] \in {"out", "waitWrite"}
      BY <1>3 DEF AcquireWrite, Looks
    <2>2. Cardinality(In("read")') = Cardinality(In("read"))
      BY <1>0, <2>1, MoveCounts, Zenon
    <2>3. Cardinality(In("waitWrite")') =
            IF at[t] = "waitWrite" THEN Cardinality(In("waitWrite")) - 1
                                   ELSE Cardinality(In("waitWrite"))
      BY <1>0, <2>1, MoveCounts, Zenon
    <2>4. In("write")' = In("write") \union {t}
      BY <1>0, <2>1, MoveSets, Zenon
    <2>5. QED
      BY <1>3, <2>2, <2>3, <2>4 DEF AcquireWrite
  <1>4. CASE ParkWriter(t)
    <2>1. Move(t, "waitWrite") /\ at[t] \in {"out", "waitWrite"}
      BY <1>4 DEF ParkWriter, Looks
    <2>2. Cardinality(In("read")') = Cardinality(In("read"))
      BY <1>0, <2>1, MoveCounts, Zenon
    <2>3. Cardinality(In("waitWrite")') =
            IF at[t] = "waitWrite" THEN Cardinality(In("waitWrite"))
                                   ELSE Cardinality(In("waitWrite")) + 1
      BY <1>0, <2>1, MoveCounts, Zenon
    <2>4. In("write")' = In("write") \ {t}
      BY <1>0, <2>1, MoveSets, Zenon
    <2>5. t \notin In("write")
      BY <2>1 DEF In
    <2>6. QED
      BY <1>4, <2>2, <2>3, <2>4, <2>5 DEF ParkWriter
  <1>5. CASE ReleaseRead(t)
    <2>1. Move(t, "out") /\ at[t] = "read"
      BY <1>5 DEF ReleaseRead
    <2>2. Cardinality(In("read")') = Cardinality(In("read")) - 1
      BY <1>0, <2>1, MoveCounts, Zenon
    <2>3. Cardinality(In("waitWrite")') = Cardinality(In("waitWrite"))
      BY <1>0, <2>1, MoveCounts, Zenon
    <2>4. In("write")' = In("write") \ {t}
      BY <1>0, <2>1, MoveSets, Zenon
    <2>5. t \notin In("write")
      BY <2>1 DEF In
    <2>6. QED
      BY <1>5, <2>2, <2>3, <2>4, <2>5 DEF ReleaseRead
  <1>6. CASE ReleaseWrite(t)
    <2>1. Move(t, "out") /\ at[t] = "write"
      BY <1>6 DEF ReleaseWrite
    <2>2. Cardinality(In("read")') = Cardinality(In("read"))
      BY <1>0, <2>1, MoveCounts, Zenon
    <2>3. Cardinality(In("waitWrite")') = Cardinality(In("waitWrite"))
      BY <1>0, <2>1, MoveCounts, Zenon
    <2>4. In("write")' = In("write") \ {t}
      BY <1>0, <2>1, MoveSets, Zenon
    <2>5. t \in In("write")
      BY <2>1 DEF In
    <2>6. In("write") \ {t} = {}
      BY <2>5 DEF Exclusion
    <2>7. QED
      BY <1>6, <2>2, <2>3, <2>4, <2>6 DEF ReleaseWrite
  <1>7. QED
    BY <1>1, <1>2, <1>3, <1>4, <1>5, <1>6 DEF Step

(* A thread gets in only past a test that CountsExact turns into a         *)
(* statement about threads.                                                *)
LEMMA TestsSeeThreads ==
  ASSUME IInv
  PROVE  /\ ~ReadBlocked => In("write") = {} /\ In("waitWrite") = {}
         /\ ~WriteBlocked => In("write") = {} /\ In("read") = {}
  <1>1. Cardinality(In("read")) = 0 <=> In("read") = {}
    BY PlaceCounts DEF IInv
  <1>2. Cardinality(In("waitWrite")) = 0 <=> In("waitWrite") = {}
    BY PlaceCounts DEF IInv
  <1>3. QED
    BY <1>1, <1>2 DEF IInv, TypeOK, CountsExact, ReadBlocked, WriteBlocked

LEMMA StepExclusion ==
  ASSUME IInv, NEW t \in Threads, Step(t)
  PROVE  Exclusion'
  <1> USE DEF IInv, Exclusion
  <1>1. CASE AcquireRead(t)
    BY <1>1, TestsSeeThreads DEF AcquireRead, TypeOK, Move, In
  <1>2. CASE AcquireWrite(t)
    BY <1>2, TestsSeeThreads DEF AcquireWrite, TypeOK, Move, In
  <1>3. CASE ParkReader(t) \/ ParkWriter(t) \/ ReleaseRead(t) \/ ReleaseWrite(t)
    <2>1. In("read")' \subseteq In("read") /\ In("write")' \subseteq In("write")
      BY <1>3 DEF ParkReader, ParkWriter, ReleaseRead, ReleaseWrite, TypeOK, Move, In
    <2>2. QED
      BY <2>1
  <1>4. QED
    BY <1>1, <1>2, <1>3 DEF Step

(* The inductive invariant holds for every finite set of threads.          *)
THEOREM InductiveInvariant ==
  ASSUME IsFiniteSet(Threads)
  PROVE  Spec => []IInv
  <1>1. Init => IInv
    BY InitInv
  <1>2. IInv /\ [Next]_lockVars => IInv'
    <2> SUFFICES ASSUME IInv, [Next]_lockVars PROVE IInv'
      OBVIOUS
    <2>1. CASE Next
      BY <2>1, StepTypeOK, StepCounts, StepExclusion DEF Next, IInv
    <2>2. CASE UNCHANGED lockVars
      BY <2>2 DEF lockVars, IInv, TypeOK, CountsExact, Exclusion, In, Waiting
    <2>3. QED
      BY <2>1, <2>2
  <1>3. QED
    BY <1>1, <1>2, PTL DEF Spec

(* Type correctness of the lock. *)
THEOREM TypeCorrect ==
  ASSUME IsFiniteSet(Threads)
  PROVE  Spec => []TypeOK
  BY InductiveInvariant, PTL DEF IInv

(* The counters count exactly the threads they stand for.                  *)
THEOREM CountsAreExact ==
  ASSUME IsFiniteSet(Threads)
  PROVE  Spec => []CountsExact
  BY InductiveInvariant, PTL DEF IInv

(* A writer excludes readers and other writers.                            *)
THEOREM MutualExclusion ==
  ASSUME IsFiniteSet(Threads)
  PROVE  Spec => []Exclusion
  BY InductiveInvariant, PTL DEF IInv

-----------------------------------------------------------------------------
(* A step that could end a parked thread's condition notifies it.          *)
LEMMA StepKeepsWakeups ==
  ASSUME IInv, NoLostWakeup, NEW t \in Threads, Step(t)
  PROVE  NoLostWakeup'
  <1> USE DEF IInv, TypeOK, NoLostWakeup, ReadBlocked, WriteBlocked, In, Move
  <1>1. CASE AcquireRead(t)
    BY <1>1 DEF AcquireRead
  <1>2. CASE ParkReader(t)
    BY <1>2 DEF ParkReader
  <1>3. CASE AcquireWrite(t)
    BY <1>3 DEF AcquireWrite
  <1>4. CASE ParkWriter(t)
    BY <1>4 DEF ParkWriter
  <1>5. CASE ReleaseRead(t)
    <2>1. CASE readers = 1
      BY <1>5, <2>1 DEF ReleaseRead, Waiting
    <2>2. CASE readers # 1
      <3>1. readers > 0
        BY <1>5, CountedIsPositive DEF CountsExact, ReleaseRead
      <3>2. readers' > 0
        BY <1>5, <2>2, <3>1 DEF ReleaseRead
      <3>3. QED
        BY <1>5, <2>2, <3>2 DEF ReleaseRead
    <2>3. QED
      BY <2>1, <2>2
  <1>6. CASE ReleaseWrite(t)
    BY <1>6 DEF ReleaseWrite, Waiting
  <1>7. QED
    BY <1>1, <1>2, <1>3, <1>4, <1>5, <1>6 DEF Step

(* No thread is left parked once the condition it waits for is true: every *)
(* wakeup that notify_all has to send is sent.                             *)
THEOREM WakeupsAreNotLost ==
  ASSUME IsFiniteSet(Threads)
  PROVE  Spec => []NoLostWakeup
  <1>1. Init => NoLostWakeup
    BY DEF Init, NoLostWakeup, In
  <1>2. IInv /\ NoLostWakeup /\ [Next]_lockVars => NoLostWakeup'
    <2> SUFFICES ASSUME IInv, NoLostWakeup, [Next]_lockVars PROVE NoLostWakeup'
      OBVIOUS
    <2>1. CASE Next
      BY <2>1, StepKeepsWakeups DEF Next
    <2>2. CASE UNCHANGED lockVars
      BY <2>2 DEF lockVars, NoLostWakeup, ReadBlocked, WriteBlocked, In
    <2>3. QED
      BY <2>1, <2>2
  <1>3. QED
    BY <1>1, <1>2, InductiveInvariant, PTL DEF Spec

(* While a thread waits to write no reader gets in: the count of waiting   *)
(* writers that a reader tests is exact.                                   *)
THEOREM WritersPreferred ==
  ASSUME IsFiniteSet(Threads)
  PROVE  Spec => WriterPreference
  <1>1. IInv /\ [Next]_lockVars =>
          [In("waitWrite") # {} => In("read")' \subseteq In("read")]_lockVars
    <2> SUFFICES ASSUME IInv, NEW t \in Threads, Step(t), In("waitWrite") # {}
                 PROVE  In("read")' \subseteq In("read")
      BY DEF Next
    <2>1. ~AcquireRead(t)
      BY TestsSeeThreads DEF AcquireRead
    <2>2. QED
      BY <2>1 DEF Step, ParkReader, ReleaseRead, AcquireWrite, ParkWriter, ReleaseWrite,
                  IInv, TypeOK, Move, In
  <1>2. QED
    BY <1>1, InductiveInvariant, PTL DEF Spec, WriterPreference

-----------------------------------------------------------------------------
(* A step of the lock is a step, or a stutter, of the abstract lock.       *)
LEMMA StepSimulates ==
  ASSUME IInv, NEW t \in Threads, Step(t)
  PROVE  [Abstract!Next]_<<In("read"), In("write")>>
  <1> USE DEF IInv, TypeOK
  <1>1. CASE AcquireRead(t)
    <2>1. In("read")' = In("read") \union {t} /\ In("write")' = In("write")
      BY <1>1 DEF AcquireRead, Looks, Move, In
    <2>2. In("write") = {} /\ t \notin In("read")
      BY <1>1, TestsSeeThreads DEF AcquireRead, Looks, In
    <2>3. Abstract!Share(t)
      BY <2>1, <2>2 DEF Abstract!Share
    <2>4. QED
      BY <2>3 DEF Abstract!Next
  <1>2. CASE AcquireWrite(t)
    <2>1. In("read")' = In("read") /\ In("write")' = In("write") \union {t}
      BY <1>2 DEF AcquireWrite, Looks, Move, In
    <2>2. In("write") = {} /\ In("read") = {}
      BY <1>2, TestsSeeThreads DEF AcquireWrite
    <2>3. Abstract!Own(t)
      BY <2>1, <2>2 DEF Abstract!Own
    <2>4. QED
      BY <2>3 DEF Abstract!Next
  <1>3. CASE ReleaseRead(t)
    <2>1. In("read")' = In("read") \ {t} /\ In("write")' = In("write") /\ t \in In("read")
      BY <1>3 DEF ReleaseRead, Move, In
    <2>2. Abstract!Unshare(t)
      BY <2>1 DEF Abstract!Unshare
    <2>3. QED
      BY <2>2 DEF Abstract!Next
  <1>4. CASE ReleaseWrite(t)
    <2>1. In("read")' = In("read") /\ In("write")' = In("write") \ {t} /\ t \in In("write")
      BY <1>4 DEF ReleaseWrite, Move, In
    <2>2. In("write") = {t}
      BY <2>1 DEF Exclusion
    <2>3. Abstract!Disown(t)
      BY <2>1, <2>2 DEF Abstract!Disown
    <2>4. QED
      BY <2>3 DEF Abstract!Next
  <1>5. CASE ParkReader(t) \/ ParkWriter(t)
    BY <1>5 DEF ParkReader, ParkWriter, Looks, Move, In
  <1>6. QED
    BY <1>1, <1>2, <1>3, <1>4, <1>5 DEF Step

(* The condition-variable lock implements the shared/exclusive lock its    *)
(* callers rely on.                                                        *)
THEOREM ImplementsSharedExclusive ==
  ASSUME IsFiniteSet(Threads)
  PROVE  Spec => Implements
  <1>1. Init => Abstract!Init
    BY DEF Init, Abstract!Init, In
  <1>2. IInv /\ [Next]_lockVars => [Abstract!Next]_<<In("read"), In("write")>>
    <2> SUFFICES ASSUME IInv, [Next]_lockVars
                 PROVE  [Abstract!Next]_<<In("read"), In("write")>>
      OBVIOUS
    <2>1. CASE Next
      BY <2>1, StepSimulates DEF Next
    <2>2. CASE UNCHANGED lockVars
      BY <2>2 DEF lockVars, In
    <2>3. QED
      BY <2>1, <2>2
  <1>3. QED
    BY <1>1, <1>2, InductiveInvariant, PTL
    DEF Spec, Implements, Abstract!Spec, Abstract!seVars
=============================================================================
