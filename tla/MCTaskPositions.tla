--------------------------- MODULE MCTaskPositions ---------------------------
(***************************************************************************)
(* Instance of TaskPositions for TLC.                                      *)
(***************************************************************************)
EXTENDS TaskPositions

=============================================================================
