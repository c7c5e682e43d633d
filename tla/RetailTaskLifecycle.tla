------------------------- MODULE RetailTaskLifecycle -------------------------
(***************************************************************************)
(* What the retail workflow promises about one task, without requests,     *)
(* databases or people: the state machine of ARCHITECTURE.md section 4     *)
(* with the cancellations the code adds to it, in which every operation is *)
(* one atomic step, the number of completion submissions and the verdicts  *)
(* given on them.                                                          *)
(***************************************************************************)
EXTENDS Naturals, Sequences

VARIABLES
    status,     \* business status of the task
    submitted,  \* number of submissions so far
    verdicts    \* the reviewers' decisions, oldest first

vars == <<status, submitted, verdicts>>

Open == {"draft", "assigned", "in_progress", "pending_review", "rejected"}

Init == status = "none" /\ submitted = 0 /\ verdicts = <<>>

Goto(from, to) == status \in from /\ status' \in to

Create ==
    Goto({"none"}, {"draft", "assigned"}) /\ UNCHANGED <<submitted, verdicts>>

Reassign ==
    /\ Goto({"draft", "assigned"}, {"draft", "assigned"})
    /\ UNCHANGED <<submitted, verdicts>>

Start ==
    /\ Goto({"assigned", "rejected"}, {"in_progress"})
    /\ UNCHANGED <<submitted, verdicts>>

\* Without a reviewer a submission completes the task at once.
Submit ==
    /\ Goto({"in_progress"}, {"pending_review", "completed"})
    /\ submitted' = submitted + 1
    /\ UNCHANGED verdicts

Approve ==
    /\ Goto({"pending_review"}, {"completed"})
    /\ verdicts' = Append(verdicts, "approved")
    /\ UNCHANGED submitted

Reject ==
    /\ Goto({"pending_review"}, {"rejected"})
    /\ verdicts' = Append(verdicts, "rejected")
    /\ UNCHANGED submitted

Cancel ==
    Goto(Open, {"cancelled"}) /\ UNCHANGED <<submitted, verdicts>>

Remove ==
    /\ Goto(Open \cup {"completed", "cancelled"}, {"deleted"})
    /\ submitted' = 0
    /\ verdicts' = <<>>

Next == Create \/ Reassign \/ Start \/ Submit \/ Approve \/ Reject \/ Cancel
        \/ Remove

Spec == Init /\ [][Next]_vars
=============================================================================
