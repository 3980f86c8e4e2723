------------------------------ MODULE MCPidLock ------------------------------
(* Three workers: two threads of a daemon and a command line process.       *)
EXTENDS PidLock, TLC

CONSTANTS d1, d2, c1, daemon, cli

MCWorkers == {d1, d2, c1}
MCProcesses == {daemon, cli}
MCProcessOf == (d1 :> daemon) @@ (d2 :> daemon) @@ (c1 :> cli)
=============================================================================
