------------------------------- MODULE MCLocks -------------------------------
(* The lock of the threads of a process, or that of the processes: whichever *)
(* is taken first in a behaviour, the other one moves only while it is free. *)
EXTENDS MCPidLock, ReaderWriterLock

MCInit == Init /\ PidInit
MCNext ==
  \/ PidInit /\ Next /\ UNCHANGED pidVars
  \/ Init /\ PidNext /\ UNCHANGED lockVars

(* In their initial states neither has a step that is fair.                  *)
MCFairSpec ==
  /\ MCInit /\ [][MCNext]_<<lockVars, pidVars>>
  /\ \A t \in Threads : WF_lockVars(Resume(t))
  /\ \A w \in Workers : WF_pidVars(Work(w)) /\ WF_pidVars(DeadlinePasses(w))
=============================================================================
