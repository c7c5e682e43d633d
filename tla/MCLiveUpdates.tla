---------------------------- MODULE MCLiveUpdates ----------------------------
(***************************************************************************)
(* Instance of LiveUpdates for TLC.                                        *)
(***************************************************************************)
EXTENDS LiveUpdates

=============================================================================
