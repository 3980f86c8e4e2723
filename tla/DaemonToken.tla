------------------------------ MODULE DaemonToken ------------------------------
(***************************************************************************)
(* daemon_config.py: the token that every request of the daemon carries.   *)
(* Daemons that start for the first time at once elect one by a link; the  *)
(* command line client reads it anew for each request.                     *)
(***************************************************************************)
EXTENDS Integers, FiniteSets

CONSTANTS
  Daemons,    \* processes that start a daemon
  Clients,    \* processes that read the token
  MaxTokens   \* bound: tokens that are drawn

ASSUME TokensAssumption == MaxTokens \in Nat

VARIABLES
  token,   \* what the file at the path of the token holds: 0 is no file, -1 no text
  draft,   \* the temporary file of each daemon
  stage,   \* where each daemon is in load_or_create_token
  has,     \* the token each daemon and client has in memory, or 0
  drawn    \* tokens drawn so far, which number them

tokenVars == <<token, draft, stage, has, drawn>>
Part == -1

TokenInit ==
  /\ token = 0
  /\ draft = [d \in Daemons |-> 0]
  /\ stage = [d \in Daemons |-> "down"]
  /\ has = [p \in Daemons \cup Clients |-> 0]
  /\ drawn = 0

StageTo(d, place) == stage' = [stage EXCEPT ![d] = place]

StartDaemon(d) ==
  /\ stage[d] = "down" /\ StageTo(d, "exists")
  /\ draft' = [draft EXCEPT ![d] = 0]
  /\ UNCHANGED <<token, has, drawn>>

TokenExists(d) ==
  /\ stage[d] = "exists"
  /\ StageTo(d, IF token # 0 THEN "read" ELSE "create")
  /\ UNCHANGED <<token, draft, has, drawn>>

(* A name of its own, then the text: os.write until all of it is there.     *)
CreateDraft(d) ==
  /\ stage[d] = "create" /\ StageTo(d, "write")
  /\ draft' = [draft EXCEPT ![d] = Part]
  /\ UNCHANGED <<token, has, drawn>>

WriteDraft(d) ==
  /\ stage[d] = "write" /\ StageTo(d, "link")
  /\ drawn < MaxTokens /\ drawn' = drawn + 1
  /\ draft' = [draft EXCEPT ![d] = drawn']
  /\ UNCHANGED <<token, has>>

(* Broken variant: the draft is renamed onto the path. *)
LinkReplacing(d) ==
  /\ stage[d] = "link" /\ token' = draft[d]
  /\ has' = [has EXCEPT ![d] = draft[d]] /\ StageTo(d, "unlink")
  /\ UNCHANGED <<draft, drawn>>

(* The first link wins; the others read what it linked. *)
LinkDraft(d) ==
  /\ stage[d] = "link"
  /\ IF token = 0
       THEN token' = draft[d] /\ has' = [has EXCEPT ![d] = draft[d]] /\ StageTo(d, "unlink")
       ELSE StageTo(d, "read") /\ UNCHANGED <<token, has>>
  /\ UNCHANGED <<draft, drawn>>

(* A file without text is refused, after twenty attempts. *)
ReadToken(d) ==
  /\ stage[d] = "read"
  /\ IF token \in {0, Part} THEN StageTo(d, "down") /\ UNCHANGED has
     ELSE has' = [has EXCEPT ![d] = token] /\ StageTo(d, "unlink")
  /\ UNCHANGED <<token, draft, drawn>>

UnlinkDraft(d) ==
  /\ stage[d] = "unlink" /\ StageTo(d, "up")
  /\ draft' = [draft EXCEPT ![d] = 0]
  /\ UNCHANGED <<token, has, drawn>>

(* A daemon that dies or is stopped; its draft stays where it is.           *)
DaemonGone(d) ==
  /\ stage[d] # "down" /\ StageTo(d, "down")
  /\ has' = [has EXCEPT ![d] = 0]
  /\ UNCHANGED <<token, draft, drawn>>

(* load_token of a client. *)
LoadToken(c) ==
  /\ has' = [has EXCEPT ![c] = IF token \in {0, Part} THEN 0 ELSE token]
  /\ UNCHANGED <<token, draft, stage, drawn>>

TokenNext ==
  \/ \E d \in Daemons :
       \/ StartDaemon(d) \/ TokenExists(d) \/ CreateDraft(d) \/ WriteDraft(d) \/ LinkDraft(d)
       \/ ReadToken(d) \/ UnlinkDraft(d) \/ DaemonGone(d)
  \/ \E c \in Clients : LoadToken(c)

TokenSpec == TokenInit /\ [][TokenNext]_tokenVars

-----------------------------------------------------------------------------
(* Whoever has a token has the same one, which is the one on disk, whole:   *)
(* daemons that start at once do not diverge (load_or_create_token: "the    *)
(* losers read the winner's token instead of diverging"), nobody reads part *)
(* of one, and no death on the way leaves the path without its text.        *)
TokenAgreed ==
  /\ token # Part
  /\ \A p \in Daemons \cup Clients : has[p] \in {0, token}
=============================================================================
