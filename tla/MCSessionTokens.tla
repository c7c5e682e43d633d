---------------------------- MODULE MCSessionTokens ----------------------------
(***************************************************************************)
(* A small instance of SessionTokens: two tabs of one browser.             *)
(***************************************************************************)
EXTENDS SessionTokens
=============================================================================
