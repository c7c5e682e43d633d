-------------------------- MODULE MCRetailEscalation --------------------------
(***************************************************************************)
(* A small instance of RetailEscalation: two ticks over one task, with an  *)
(* assignee and a bot that is its manager and the admin of the unit above. *)
(***************************************************************************)
EXTENDS RetailEscalation

\* Who holds which place is given; edits change it.
CONSTANTS worker, service
MCInit ==
    /\ Init
    /\ task = [p \in Tasks |-> [open |-> TRUE, due |-> 0, assignee |-> worker,
                                reviewer |-> NoUser]]
    /\ manager = [u \in Users |-> IF u = service THEN NoUser ELSE service]
    /\ areaAdmins = Bots
MCSpec == MCInit /\ [][Next]_vars /\ \A t \in Ticks : WF_vars(Tick(t))
=============================================================================
