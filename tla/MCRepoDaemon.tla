---------------------------- MODULE MCRepoDaemon ----------------------------
(* The daemon: its registry under requests, how it comes by its token, or    *)
(* how it stops.  Requests and names are interchangeable in the safety run.  *)
EXTENDS RepoDaemon, DaemonToken, DaemonShutdown, TLC

Interchangeable == Permutations(Handlers) \union Permutations(Names)

Others == <<tokenVars, downVars>>
Bare == index = {} /\ DownInit

MCInit == Init /\ TokenInit /\ DownInit

(* Registry and token: whichever moves first. *)
MCSpec ==
  /\ MCInit
  /\ [][\/ TokenInit /\ Next /\ UNCHANGED Others
        \/ Init /\ TokenNext /\ UNCHANGED <<vars, downVars>>]_<<vars, Others>>

(* Registry and shutdown.  In the initial states of either no step of it is  *)
(* fair.                                                                     *)
MCFairSpec ==
  /\ MCInit
  /\ [][\/ Bare /\ Next /\ UNCHANGED Others
        \/ Init /\ slots = <<>> /\ DownNext /\ UNCHANGED <<vars, tokenVars>>]_<<vars, Others>>
  /\ \A h \in Handlers : WF_vars(Serve(h))
  /\ \A s \in 1..MaxSlots : WF_vars(Proceed(s))
  /\ DownFairness
=============================================================================
