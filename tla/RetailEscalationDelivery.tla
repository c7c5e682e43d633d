----------------------- MODULE RetailEscalationDelivery -----------------------
(***************************************************************************)
(* What retail escalation promises, without ticks and databases: the       *)
(* notification of an escalation and the record of its delivery appear in  *)
(* one step, any number of escalations may go out together, and none goes  *)
(* out a second time.  Bots get a record but no notification.              *)
(***************************************************************************)
EXTENDS Naturals

CONSTANTS Keys, Silent     \* escalations, and those whose recipient is a bot

VARIABLES
    deliveries,  \* escalations recorded as delivered
    notified     \* number of notifications each escalation led to

vars == <<deliveries, notified>>

Init == deliveries = {} /\ notified = [k \in Keys |-> 0]

Deliver(batch) ==
    /\ batch \cap deliveries = {}
    /\ deliveries' = deliveries \cup batch
    /\ notified' = [k \in Keys |->
         IF k \in batch \ Silent THEN notified[k] + 1 ELSE notified[k]]

Next == \E batch \in SUBSET Keys : Deliver(batch)

Spec == Init /\ [][Next]_vars
=============================================================================
