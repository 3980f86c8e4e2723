------------------------------- MODULE MCRefresh -------------------------------
(* The periodic refresh with the blobs of git or without them: one of the two *)
(* per behaviour, the other one stays in its initial state.                   *)
EXTENDS LegacyRefresh

CONSTANTS
  BlobFiles,                             \* the files when the blobs are known
  MaxEmbedFails, MaxTargeted, MaxBuilds  \* further bounds of IndexRefresh

VARIABLES
  blobs,  \* whether git tells the blobs
  bDisk, bHead, db, tmp, bOp, bPc, bUsed, bGone, moved, bQuiet

blobVars == <<bDisk, bHead, db, tmp, bOp, bPc, bUsed, bGone, moved, bQuiet>>

ByBlob == INSTANCE IndexRefresh
  WITH Files <- BlobFiles, disk <- bDisk, head <- bHead, op <- bOp, pc <- bPc,
       used <- bUsed, gone <- bGone, quiet <- bQuiet

Empty(tree) == \A f \in DOMAIN tree : tree[f] = 0

MCInit ==
  /\ Init /\ ByBlob!Init
  /\ blobs \in BOOLEAN
  /\ IF blobs THEN ~git /\ Empty(disk) ELSE Empty(bDisk)

MCNext ==
  \/ blobs /\ ByBlob!Next /\ UNCHANGED <<vars, blobs>>
  \/ ~blobs /\ Next /\ UNCHANGED <<blobVars, blobs>>

MCFairSpec ==
  /\ MCInit /\ [][MCNext]_<<vars, blobVars, blobs>>
  /\ WF_blobVars(blobs /\ ByBlob!Refresh) /\ WF_blobVars(blobs /\ ByBlob!Run)
  /\ WF_vars(~blobs /\ Refresh) /\ WF_vars(~blobs /\ Run)

-----------------------------------------------------------------------------
(* Once edits and failures stop, periodic refreshes bring the index up to     *)
(* date: with blobs but for torn entries, without them but for what neither   *)
(* git diff nor the times tell (refresh: "full change detection runs").       *)
EventuallyFresh == ByBlob!EventuallyFresh /\ LegacyEventuallyFresh

(* As long as nothing but embedding fails, every file has its vectors in the  *)
(* end (_vec_dirty_paths).                                                    *)
EventuallyCovered == ByBlob!EventuallyCovered
=============================================================================
