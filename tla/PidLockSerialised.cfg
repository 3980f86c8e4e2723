SPECIFICATION PidSpec
CONSTANTS
  d1 = d1
  d2 = d2
  c1 = c1
  daemon = daemon
  cli = cli
  Workers <- MCWorkers
  Processes <- MCProcesses
  ProcessOf <- MCProcessOf
  MaxCalls = 3
  MaxAge = 0
  Mortal = {}
INVARIANT WritersSerialised
CHECK_DEADLOCK FALSE
