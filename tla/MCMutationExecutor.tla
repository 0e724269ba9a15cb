------------------------- MODULE MCMutationExecutor -------------------------
(* Small instances of MutationExecutor for TLC.                            *)
EXTENDS MutationExecutor
CONSTANTS m1, m2, m3
=============================================================================
