SPECIFICATION MCFairSpec
CONSTANTS
  Threads = {t1, t2, t3, t4}
  d1 = d1
  d2 = d2
  c1 = c1
  daemon = daemon
  cli = cli
  Workers <- MCWorkers
  Processes <- MCProcesses
  ProcessOf <- MCProcessOf
  MaxCalls = 4
  MaxAge = 2
  Mortal = {daemon, cli}
INVARIANTS NoLostWakeup ExclusionUnlessStolen NoLockLeaked
PROPERTIES Implements Admitted OrphanRecovered AcquireEnds
CHECK_DEADLOCK FALSE
