---------------------------- MODULE MCStageChain -----------------------------
(* Values for the constants of StageChain. *)
EXTENDS StageChain

MCErrorCodes == {1, 42}   \* FAILURE and NOT_IMPLEMENTED_YET
=============================================================================
