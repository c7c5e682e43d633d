------------------------ MODULE MCRetailTaskWorkflow ------------------------
(***************************************************************************)
(* Small instance of RetailTaskWorkflow: a worker who may lose the         *)
(* membership and a manager, who is also a member and so may be assigned   *)
(* tasks as well as review and cancel them.                                *)
(***************************************************************************)
EXTENDS RetailTaskWorkflow, TLC

CONSTANTS worker, manager

MCUsers == {worker, manager}
MCInit == Init /\ members = MCUsers /\ admins = {manager}
MCSpec == MCInit /\ [][Next]_vars

\* Requests are interchangeable.
MCSymmetry == Permutations(Requests)
=============================================================================
