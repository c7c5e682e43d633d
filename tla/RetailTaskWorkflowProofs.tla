----------------------- MODULE RetailTaskWorkflowProofs -----------------------
(***************************************************************************)
(* Proofs about RetailTaskWorkflow for any number of users, requests,      *)
(* checklist items and attachments and for any bounds.                     *)
(***************************************************************************)
EXTENDS RetailTaskWorkflow, FiniteSetTheorems, TLAPS

USE DEF rows, items, task, access

-----------------------------------------------------------------------------
(* Types *)

LEMMA IdleType == Idle \in Tx /\ NoProfile \in Profile
  BY DEF Idle, Tx, NoProfile, Profile

LEMMA OutdateType ==
  ASSUME NEW t \in [Requests -> Tx]
  PROVE  Outdate(t) \in [Requests -> Tx]
  BY IdleType DEF Outdate

\* Requests that record a transition hold a status of the workflow.
HoldsStatus == \A r \in Requests :
    /\ tx[r].pc = "checked" => tx[r].op = "submit"
    /\ tx[r].op \in {"start", "submit", "review", "cancel"} =>
        tx[r].row.status \in Status

TypeInv == TypeOK /\ HoldsStatus

\* What a committed write leaves of the requests: nothing, or all the others.
LEMMA OutdateTx ==
  ASSUME TypeInv, NEW t \in [Requests -> Tx], tx' = Outdate(t),
         \A q \in Requests : t[q] \in {tx[q], Idle}
  PROVE  tx' \in [Requests -> Tx] /\ HoldsStatus'
  <1>1. tx' \in [Requests -> Tx]
    BY OutdateType
  <1>2. \A q \in Requests : tx'[q] \in {tx[q], Idle}
    BY DEF Outdate
  <1>3. QED
    BY <1>1, <1>2 DEF TypeInv, HoldsStatus, Idle

LEMMA CommitTx ==
  ASSUME TypeInv, NEW r \in Requests, Commit(r)
  PROVE  tx' \in [Requests -> Tx] /\ HoldsStatus'
  <1> DEFINE t == [tx EXCEPT ![r] = Idle]
  <1>1. t \in [Requests -> Tx] /\ \A q \in Requests : t[q] \in {tx[q], Idle}
    BY IdleType DEF TypeInv, TypeOK
  <1>2. QED
    BY <1>1, OutdateTx DEF Commit

LEMMA OutdateAllTx ==
  ASSUME TypeInv, tx' = Outdate(tx)
  PROVE  tx' \in [Requests -> Tx] /\ HoldsStatus'
  BY OutdateTx DEF TypeInv, TypeOK

\* A first read touches nothing but its own slot.
LEMMA ReadStep ==
  ASSUME TypeInv, NEW r \in Requests, NEW op \in Op, NEW u \in Users,
         NEW row \in Profile, NEW item \in Items \cup {NoItem},
         op \in {"start", "submit", "review", "cancel"} => row.status \in Status,
         Read(r, op, u, row, item)
  PROVE  TypeInv'
  <1> DEFINE new == [Idle EXCEPT !.pc = "read", !.op = op, !.actor = u,
                                 !.row = row, !.item = item]
  <1>1. new \in Tx /\ new.op = op /\ new.row = row /\ new.pc = "read"
    BY IdleType DEF Tx, Idle
  <1>2. tx' = [tx EXCEPT ![r] = new]
    BY DEF Read
  <1>3. tx' \in [Requests -> Tx]
    BY <1>1, <1>2 DEF TypeInv, TypeOK
  <1>4. HoldsStatus'
    BY <1>1, <1>2 DEF TypeInv, TypeOK, HoldsStatus
  <1>5. QED
    BY <1>3, <1>4 DEF TypeInv, TypeOK, Read

LEMMA RowsRead ==
  ASSUME TypeOK
  PROVE  /\ Exists => StatusRead \in Profile
         /\ PolicyRead \in Profile
         /\ StatusRead.status = profile.status
         /\ PolicyRead.status = profile.status
  BY IdleType DEF TypeOK, Exists, StatusRead, PolicyRead, Profile, NoProfile

\* The status change keeps the profile and the history well-typed.
LEMMA TransitionType ==
  ASSUME TypeOK, NEW r \in Requests, NEW next \in Status,
         tx[r].row.status \in Status, transitionRetailTask(r, next)
  PROVE  profile' \in Profile /\ history' \in Seq(Transition)
  <1>1. [from |-> tx[r].row.status, to |-> next] \in Transition
    BY DEF Transition
  <1>2. profile' \in Profile
    BY DEF transitionRetailTask, TypeOK, Profile
  <1>3. history \in Seq(Transition)
        /\ history' = Append(history, [from |-> tx[r].row.status, to |-> next])
    BY DEF transitionRetailTask, TypeOK
  <1>4. QED
    BY <1>1, <1>2, <1>3

LEMMA UpdatedStatusType ==
  ASSUME NEW status \in Status, NEW assignee
  PROVE  UpdatedStatus(status, assignee) \in Status
  BY DEF UpdatedStatus, Status

LEMMA TypeRequestStep ==
  ASSUME TypeInv, NEW r \in Requests, RequestStep(r)
  PROVE  TypeInv'
  <1> NoItem \in Items \cup {NoItem}
    OBVIOUS
  <1>t. TypeOK
    BY DEF TypeInv
  <1>1. ASSUME NEW u \in Users, StartRead(r, u) PROVE TypeInv'
    <2>1. profile.status \in Status /\ Exists
      BY <1>1 DEF StartRead, Exists, Status
    <2>2. QED
      BY <1>t, <1>1, <2>1, RowsRead, ReadStep DEF StartRead, Op
  <1>2. ASSUME NEW u \in Users, TickRead(r, u) PROVE TypeInv'
    <2>1. PICK i \in Items : Read(r, "tick", u, NoProfile, i)
      BY <1>2 DEF TickRead
    <2>2. QED
      BY <2>1, IdleType, ReadStep DEF Op
  <1>3. ASSUME NEW u \in Users, SubmitRead(r, u) PROVE TypeInv'
    <2>1. profile.status \in Status
      BY <1>3 DEF SubmitRead, Status
    <2>2. QED
      BY <1>t, <1>3, <2>1, RowsRead, ReadStep DEF SubmitRead, Op
  <1>4. ASSUME NEW u \in Users, ReviewRead(r, u) PROVE TypeInv'
    <2>1. profile.status \in Status /\ Exists
      BY <1>4 DEF ReviewRead, Exists, Status
    <2>2. QED
      BY <1>t, <1>4, <2>1, RowsRead, ReadStep DEF ReviewRead, Op
  <1>5. ASSUME NEW u \in Users, CancelRead(r, u) PROVE TypeInv'
    <2>1. profile.status \in Status /\ Exists
      BY <1>5 DEF CancelRead, Exists
    <2>2. QED
      BY <1>t, <1>5, <2>1, RowsRead, ReadStep DEF CancelRead, Op
  <1>6. ASSUME NEW u \in Users, CreateRead(r, u) PROVE TypeInv'
    <2>1. PICK assignee \in Users \cup {NoUser}, reviewer \in Users \cup {NoUser},
               evidence \in EvidencePolicies :
            Read(r, "create", u,
                 [status |-> UpdatedStatus("draft", assignee),
                  assignee |-> assignee, reviewer |-> reviewer,
                  evidence |-> evidence], NoItem)
      BY <1>6 DEF CreateRead
    <2>2. UpdatedStatus("draft", assignee) \in Status
      BY UpdatedStatusType DEF Status
    <2>3. [status |-> UpdatedStatus("draft", assignee), assignee |-> assignee,
           reviewer |-> reviewer, evidence |-> evidence] \in Profile
      BY <2>2, EvidenceAssumption DEF Profile
    <2>4. QED
      BY <2>1, <2>3, ReadStep DEF Op
  <1>7. ASSUME NEW u \in Users, UpdateRead(r, u) PROVE TypeInv'
    <2>1. PICK assignee \in Users \cup {NoUser}, reviewer \in Users \cup {NoUser},
               evidence \in EvidencePolicies :
            Read(r, "update", u,
                 [status |-> UpdatedStatus(profile.status, assignee),
                  assignee |-> assignee, reviewer |-> reviewer,
                  evidence |-> evidence], NoItem)
      BY <1>7 DEF UpdateRead
    <2>2. UpdatedStatus(profile.status, assignee) \in Status
      BY <1>7, UpdatedStatusType DEF UpdateRead, Exists
    <2>3. [status |-> UpdatedStatus(profile.status, assignee),
           assignee |-> assignee, reviewer |-> reviewer,
           evidence |-> evidence] \in Profile
      BY <2>2, EvidenceAssumption DEF Profile
    <2>4. QED
      BY <2>1, <2>3, ReadStep DEF Op
  <1>8. ASSUME StartCommit(r) PROVE TypeInv'
    <2>1. tx' \in [Requests -> Tx] /\ HoldsStatus'
      BY <1>8, CommitTx DEF StartCommit
    <2>2. profile' \in Profile /\ history' \in Seq(Transition)
      BY <1>8, <1>t, TransitionType
         DEF StartCommit, Ready, TypeInv, HoldsStatus, Status
    <2>3. QED
      BY <1>8, <2>1, <2>2 DEF StartCommit, TypeInv, TypeOK
  <1>9. ASSUME TickCommit(r) PROVE TypeInv'
    <2>1. tx' \in [Requests -> Tx] /\ HoldsStatus'
      BY <1>9, CommitTx DEF TickCommit
    <2>2. QED
      BY <1>9, <2>1 DEF TickCommit, TypeInv, TypeOK
  <1>10. ASSUME SubmitCheck(r) PROVE TypeInv'
    <2>1. PICK files \in SUBSET Stored :
            tx' = [tx EXCEPT ![r].pc = "checked", ![r].files = files]
      BY <1>10 DEF SubmitCheck
    <2>2. files \in SUBSET Attachments
      BY DEF Stored
    <2> DEFINE new == [tx[r] EXCEPT !.pc = "checked", !.files = files]
    <2>a. new \in Tx
      BY <1>t, <2>2 DEF TypeOK, Tx
    <2>b. tx' = [tx EXCEPT ![r] = new]
      BY <1>t, <2>1 DEF TypeOK, Tx
    <2>3. tx' \in [Requests -> Tx]
      BY <1>t, <2>a, <2>b DEF TypeOK
    <2>4. HoldsStatus'
      <3>1. ASSUME NEW q \in Requests
            PROVE  /\ tx'[q].op = tx[q].op /\ tx'[q].row = tx[q].row
                   /\ tx'[q].pc = "checked" =>
                        tx[q].pc = "checked" \/ tx[q].op = "submit"
        BY <1>t, <1>10, <2>1 DEF SubmitCheck, Ready, TypeOK, Tx
      <3>2. QED
        BY <3>1 DEF TypeInv, HoldsStatus
    <2>5. QED
      BY <1>10, <2>3, <2>4 DEF SubmitCheck, TypeInv, TypeOK
  <1>11. ASSUME SubmitCommit(r) PROVE TypeInv'
    <2>1. tx' \in [Requests -> Tx] /\ HoldsStatus'
      BY <1>11, CommitTx DEF SubmitCommit
    <2> DEFINE next == IF tx[r].row.reviewer = NoUser
                       THEN "completed" ELSE "pending_review"
    <2>2. tx[r].row.status \in Status /\ transitionRetailTask(r, next)
      BY <1>11 DEF SubmitCommit, TypeInv, HoldsStatus
    <2>3. profile' \in Profile /\ history' \in Seq(Transition)
      BY <1>t, <2>2, TransitionType DEF Status
    <2>4. [files |-> tx[r].files] \in Submission
      BY <1>t DEF TypeOK, Tx, Submission
    <2>5. submissions' \in Seq(Submission)
      BY <1>t, <1>11, <2>4 DEF SubmitCommit, TypeOK
    <2>6. done' \in BOOLEAN /\ drifted' \in BOOLEAN /\ trashed' \in BOOLEAN
      BY <1>t, <1>11 DEF SubmitCommit, setRetailUnderlyingTaskDone, TypeOK
    <2>7. QED
      BY <1>11, <2>1, <2>3, <2>5, <2>6 DEF SubmitCommit, TypeInv, TypeOK
  <1>12. ASSUME ReviewCommit(r) PROVE TypeInv'
    <2>1. tx' \in [Requests -> Tx] /\ HoldsStatus'
      BY <1>12, CommitTx DEF ReviewCommit
    <2>2. PICK n \in DOMAIN submissions, decision \in Decision :
            /\ reviews' = Append(reviews, [submission |-> n, decision |-> decision])
            /\ transitionRetailTask(r, IF decision = "approved"
                                       THEN "completed" ELSE "rejected")
            /\ setRetailUnderlyingTaskDone(decision = "approved")
      BY <1>12 DEF ReviewCommit
    <2>3. profile' \in Profile /\ history' \in Seq(Transition)
      BY <1>12, <1>t, <2>2, TransitionType
         DEF ReviewCommit, Ready, TypeInv, HoldsStatus, Status
    <2>4. [submission |-> n, decision |-> decision] \in Review
      BY <1>t DEF Review, TypeOK
    <2>5. reviews' \in Seq(Review)
      BY <1>t, <2>2, <2>4 DEF TypeOK
    <2>6. done' \in BOOLEAN /\ drifted' \in BOOLEAN /\ trashed' \in BOOLEAN
      BY <1>t, <2>2 DEF setRetailUnderlyingTaskDone, TypeOK
    <2>7. QED
      BY <1>12, <2>1, <2>3, <2>5, <2>6 DEF ReviewCommit, TypeInv, TypeOK
  <1>13. ASSUME CancelCommit(r) PROVE TypeInv'
    <2>1. tx' \in [Requests -> Tx] /\ HoldsStatus'
      BY <1>13, CommitTx DEF CancelCommit
    <2>2. profile' \in Profile /\ history' \in Seq(Transition)
      BY <1>13, <1>t, TransitionType
         DEF CancelCommit, Ready, TypeInv, HoldsStatus, Status
    <2>3. QED
      BY <1>13, <2>1, <2>2
         DEF CancelCommit, setRetailUnderlyingTaskDone, TypeInv, TypeOK
  <1>14. ASSUME CreateCommit(r) \/ UpdateCommit(r) PROVE TypeInv'
    <2>1. tx' \in [Requests -> Tx] /\ HoldsStatus'
      BY <1>14, CommitTx DEF CreateCommit, UpdateCommit
    <2>2. profile' \in Profile
      BY <1>14, <1>t DEF CreateCommit, UpdateCommit, TypeOK, Tx
    <2>3. QED
      BY <1>14, <2>1, <2>2 DEF CreateCommit, UpdateCommit, TypeInv, TypeOK
  <1>15. ASSUME Rollback(r) PROVE TypeInv'
    <2>1. tx' \in [Requests -> Tx] /\ HoldsStatus'
      BY <1>15, IdleType DEF Rollback, TypeInv, TypeOK, HoldsStatus, Idle
    <2>2. QED
      BY <1>15, <2>1 DEF Rollback, TypeInv, TypeOK
  <1>16. QED
    BY <1>1, <1>2, <1>3, <1>4, <1>5, <1>6, <1>7, <1>8, <1>9, <1>10, <1>11,
       <1>12, <1>13, <1>14, <1>15 DEF RequestStep

LEMMA TypeOtherStep ==
  ASSUME TypeInv, OtherStep
  PROVE  TypeInv'
  <1>1. tx' \in [Requests -> Tx] /\ HoldsStatus'
    BY OutdateAllTx DEF OtherStep, DeleteProfile, CreateItem, UpdateItem,
       DeleteItem, Upload, DeleteAttachment, ToggleTaskDone,
       TrashOrRestoreTask, ChangeAccess
  <1>2. ASSUME NEW u \in Users, DeleteProfile(u) PROVE TypeInv'
    <2>1. profile' \in Profile
      BY <1>2 DEF DeleteProfile, NoProfile, Profile
    <2>2. /\ submissions' \in Seq(Submission) /\ reviews' \in Seq(Review)
          /\ history' \in Seq(Transition)
      BY <1>2 DEF DeleteProfile
    <2>3. checklist' \in [Items -> {"absent", "todo", "done", "deleted"}]
      BY <1>2 DEF DeleteProfile
    <2>4. QED
      BY <1>1, <1>2, <2>1, <2>2, <2>3 DEF DeleteProfile, TypeInv, TypeOK
  <1>3. ASSUME NEW u \in Users, NEW i \in Items,
               CreateItem(u, i) \/ UpdateItem(u, i) \/ DeleteItem(u, i)
        PROVE  TypeInv'
    BY <1>1, <1>3 DEF CreateItem, UpdateItem, DeleteItem, TypeInv, TypeOK
  <1>4. ASSUME NEW f \in Attachments, Upload(f) \/ DeleteAttachment(f)
        PROVE  TypeInv'
    BY <1>1, <1>4 DEF Upload, DeleteAttachment, TypeInv, TypeOK
  <1>5. ASSUME ToggleTaskDone \/ TrashOrRestoreTask PROVE TypeInv'
    BY <1>1, <1>5 DEF ToggleTaskDone, TrashOrRestoreTask, TypeInv, TypeOK
  <1>6. ASSUME NEW u \in Fickle, ChangeAccess(u) PROVE TypeInv'
    BY <1>1, <1>6, UsersAssumption DEF ChangeAccess, TypeInv, TypeOK
  <1>7. QED
    BY <1>2, <1>3, <1>4, <1>5, <1>6 DEF OtherStep

LEMMA TypeInit == Init => TypeInv
  <1> SUFFICES ASSUME Init PROVE TypeInv
    OBVIOUS
  <1>1. profile \in Profile /\ tx \in [Requests -> Tx]
    BY IdleType DEF Init
  <1>2. /\ submissions \in Seq(Submission) /\ reviews \in Seq(Review)
        /\ history \in Seq(Transition)
    BY DEF Init
  <1>3. /\ checklist \in [Items -> {"absent", "todo", "done", "deleted"}]
        /\ attachment \in [Attachments -> {"absent", "stored", "deleted"}]
    BY DEF Init
  <1>4. HoldsStatus
    BY DEF Init, HoldsStatus, Idle
  <1>5. QED
    BY <1>1, <1>2, <1>3, <1>4 DEF Init, TypeInv, TypeOK

LEMMA TypeStep == TypeInv /\ [Next]_vars => TypeInv'
  <1>1. TypeInv /\ UNCHANGED vars => TypeInv'
    BY DEF vars, TypeInv, TypeOK, HoldsStatus
  <1>2. QED
    BY <1>1, TypeRequestStep, TypeOtherStep DEF Next

\* Every variable keeps its type, and a request that is going to record a
\* transition holds one of the workflow's statuses as the origin.
LEMMA TypeInvariant == Spec => []TypeInv
  BY TypeInit, TypeStep, PTL DEF Spec

\* The types of all variables, on either database (RetailTaskProfile and its rows).
THEOREM TypeCorrect == Spec => []TypeOK
  <1>1. TypeInv => TypeOK
    BY DEF TypeInv
  <1>2. QED
    BY <1>1, TypeInvariant, PTL

-----------------------------------------------------------------------------
(* Safety on a serializable database *)

\* What a request in flight read is still so: the moment another transaction
\* commits, a serializable database dooms it.
Fresh == \A r \in Requests :
    /\ tx[r].op \in {"start", "submit", "review", "cancel"} =>
        tx[r].row.status = profile.status
    /\ tx[r].op = "start" => profile.status \in {"assigned", "rejected"}
    /\ tx[r].op = "submit" => profile.status = "in_progress"
    /\ tx[r].op = "review" => profile.status = "pending_review"
    /\ tx[r].op = "cancel" => profile.status \in Status \ Final
    /\ tx[r].op = "create" => tx[r].row.status \in {"draft", "assigned"}
    /\ tx[r].op = "update" =>
        tx[r].row.status = UpdatedStatus(profile.status, tx[r].row.assignee)

\* The history is a chain of moves that never leave a final status and never
\* reach draft or assigned, and is empty while the profile does not exist.
HistoryInv ==
    /\ HistoryChains
    /\ \A i \in DOMAIN history :
        history[i].from \notin Final /\ history[i].to \notin {"draft", "assigned"}
    /\ ~Exists => history = <<>>

\* Every review but the latest rejects, an approval is the latest of a completed
\* task, and submissions and reviews stay in step.
BalanceInv ==
    /\ ReviewBalance
    /\ OneFinalReview
    /\ profile.status # "completed" =>
        \A i \in DOMAIN reviews : reviews[i].decision = "rejected"
    /\ ~Exists => submissions = <<>> /\ reviews = <<>>

SafetyInv == TypeInv /\ Fresh /\ HistoryInv /\ BalanceInv

\* After a commit no request holds anything.
LEMMA NothingInFlight ==
  ASSUME Isolation = "Serializable", NEW t, tx' = Outdate(t)
  PROVE  Fresh'
  BY DEF Outdate, Fresh, Idle

\* Steps that leave the profile and its rows alone keep what is said of them.
LEMMA RowsUnchanged ==
  ASSUME HistoryInv, BalanceInv, UNCHANGED <<profile, submissions, reviews, history>>
  PROVE  HistoryInv' /\ BalanceInv'
  BY DEF HistoryInv, BalanceInv, HistoryChains, ReviewBalance, OneFinalReview,
         Latest, Exists

LEMMA ReadFresh ==
  ASSUME SafetyInv, NEW r \in Requests, NEW op \in Op, NEW u, NEW row, NEW item,
         Read(r, op, u, row, item),
         op \in {"start", "submit", "review", "cancel"} => row.status = profile.status,
         op = "start" => profile.status \in {"assigned", "rejected"},
         op = "submit" => profile.status = "in_progress",
         op = "review" => profile.status = "pending_review",
         op = "cancel" => profile.status \in Status \ Final,
         op = "create" => row.status \in {"draft", "assigned"},
         op = "update" => row.status = UpdatedStatus(profile.status, row.assignee)
  PROVE  Fresh' /\ HistoryInv' /\ BalanceInv'
  <1> DEFINE new == [Idle EXCEPT !.pc = "read", !.op = op, !.actor = u,
                                 !.row = row, !.item = item]
  <1>1. new.op = op /\ new.row = row
    BY DEF Idle
  <1>2. tx' = [tx EXCEPT ![r] = new] /\ profile' = profile
    BY DEF Read
  <1>3. Fresh'
    BY <1>1, <1>2 DEF SafetyInv, Fresh, TypeInv, TypeOK
  <1>4. QED
    BY <1>3, RowsUnchanged DEF Read, SafetyInv

\* A recorded transition from the current, not final, status.
LEMMA TransitionHistory ==
  ASSUME SafetyInv, NEW r \in Requests,
         NEW next \in {"in_progress", "pending_review", "rejected",
                      "completed", "cancelled"},
         tx[r].row.status = profile.status, profile.status \in Status \ Final,
         transitionRetailTask(r, next)
  PROVE  HistoryInv' /\ Exists'
  <1> DEFINE e == [from |-> tx[r].row.status, to |-> next]
  <1>1. /\ history \in Seq(Transition) /\ profile \in Profile
        /\ history' = Append(history, e)
        /\ profile' = [profile EXCEPT !.status = next]
    BY DEF SafetyInv, TypeInv, TypeOK, transitionRetailTask
  <1>2. profile'.status = next /\ Exists'
    BY <1>1 DEF Profile, Exists, Status
  <1>3. /\ Len(history') = Len(history) + 1 /\ DOMAIN history' = 1..Len(history) + 1
        /\ Len(history) \in Nat /\ DOMAIN history = 1..Len(history)
        /\ \A i \in 1..Len(history) : history'[i] = history[i]
        /\ history'[Len(history) + 1] = e
    BY <1>1
  <1>4. HistoryChains'
    <2>1. ASSUME NEW i \in 1..(Len(history') - 1)
          PROVE  history'[i].to = history'[i + 1].from
      <3>1. CASE i = Len(history)
        BY <1>1, <1>3, <3>1 DEF SafetyInv, HistoryInv, HistoryChains, Latest
      <3>2. CASE i < Len(history)
        BY <1>3, <3>2 DEF SafetyInv, HistoryInv, HistoryChains
      <3>3. QED
        BY <1>3, <2>1, <3>1, <3>2
    <2>2. Latest(history)'.to = profile'.status
      BY <1>2, <1>3 DEF Latest
    <2>3. QED
      BY <2>1, <2>2 DEF HistoryChains
  <1>5. \A i \in DOMAIN history' :
          history'[i].from \notin Final /\ history'[i].to \notin {"draft", "assigned"}
    BY <1>3 DEF SafetyInv, HistoryInv
  <1>6. QED
    BY <1>2, <1>4, <1>5 DEF HistoryInv

\* The review balance of the state after a step, from what the step did to the
\* submissions and reviews.
LEMMA BalanceUnchanged ==
  ASSUME BalanceInv, TypeOK, UNCHANGED <<submissions, reviews>>,
         \/ /\ profile.status \in {"draft", "assigned", "in_progress", "rejected"}
            /\ profile'.status \in {"draft", "assigned", "in_progress", "cancelled"}
         \/ profile.status = "pending_review" /\ profile'.status = "cancelled"
         \/ profile'.status = profile.status /\ Exists
         \/ profile.status = "none" /\ profile'.status \in {"draft", "assigned"}
  PROVE  BalanceInv'
  <1>1. CASE profile.status = "none" /\ profile'.status \in {"draft", "assigned"}
    <2>1. submissions = <<>> /\ reviews = <<>>
      BY <1>1 DEF BalanceInv, Exists, Status
    <2>2. QED
      BY <1>1, <2>1 DEF BalanceInv, ReviewBalance, OneFinalReview, Exists, Status
  <1>2. CASE profile'.status = profile.status /\ Exists
    BY <1>2 DEF BalanceInv, ReviewBalance, OneFinalReview, Exists, Latest
  <1>3. CASE profile.status = "pending_review" /\ profile'.status = "cancelled"
    BY <1>3 DEF BalanceInv, ReviewBalance, OneFinalReview, Exists, Status
  <1>4. CASE /\ profile.status \in {"draft", "assigned", "in_progress", "rejected"}
             /\ profile'.status \in {"draft", "assigned", "in_progress", "cancelled"}
    BY <1>4 DEF BalanceInv, ReviewBalance, OneFinalReview, Exists, Status
  <1>5. QED
    BY <1>1, <1>2, <1>3, <1>4

LEMMA SafetyReadStep ==
  ASSUME SafetyInv, NEW r \in Requests, NEW u \in Users,
         \/ StartRead(r, u) \/ TickRead(r, u) \/ SubmitRead(r, u)
         \/ ReviewRead(r, u) \/ CancelRead(r, u)
         \/ CreateRead(r, u) \/ UpdateRead(r, u)
  PROVE  Fresh' /\ HistoryInv' /\ BalanceInv'
  <1>0. StatusRead.status = profile.status /\ PolicyRead.status = profile.status
    BY RowsRead DEF SafetyInv, TypeInv
  <1>1. CASE StartRead(r, u)
    BY <1>0, <1>1, ReadFresh DEF StartRead, Op
  <1>2. CASE TickRead(r, u)
    BY <1>2, ReadFresh DEF TickRead, Op
  <1>3. CASE SubmitRead(r, u)
    BY <1>0, <1>3, ReadFresh DEF SubmitRead, Op
  <1>4. CASE ReviewRead(r, u)
    BY <1>0, <1>4, ReadFresh DEF ReviewRead, Op
  <1>5. CASE CancelRead(r, u)
    BY <1>0, <1>5, ReadFresh DEF CancelRead, Op, Exists
  <1>6. CASE CreateRead(r, u)
    <2>1. PICK assignee \in Users \cup {NoUser}, reviewer \in Users \cup {NoUser},
               evidence \in EvidencePolicies :
            Read(r, "create", u,
                 [status |-> UpdatedStatus("draft", assignee),
                  assignee |-> assignee, reviewer |-> reviewer,
                  evidence |-> evidence], NoItem)
      BY <1>6 DEF CreateRead
    <2>2. UpdatedStatus("draft", assignee) \in {"draft", "assigned"}
      BY DEF UpdatedStatus
    <2>3. QED
      BY <2>1, <2>2, ReadFresh DEF Op
  <1>7. CASE UpdateRead(r, u)
    <2>1. PICK assignee \in Users \cup {NoUser}, reviewer \in Users \cup {NoUser},
               evidence \in EvidencePolicies :
            Read(r, "update", u,
                 [status |-> UpdatedStatus(profile.status, assignee),
                  assignee |-> assignee, reviewer |-> reviewer,
                  evidence |-> evidence], NoItem)
      BY <1>7 DEF UpdateRead
    <2>2. QED
      BY <2>1, ReadFresh DEF Op
  <1>8. QED
    BY <1>1, <1>2, <1>3, <1>4, <1>5, <1>6, <1>7

LEMMA SafetyCommitStep ==
  ASSUME Isolation = "Serializable", SafetyInv, NEW r \in Requests,
         \/ StartCommit(r) \/ TickCommit(r) \/ SubmitCommit(r)
         \/ ReviewCommit(r) \/ CancelCommit(r)
         \/ CreateCommit(r) \/ UpdateCommit(r)
  PROVE  Fresh' /\ HistoryInv' /\ BalanceInv'
  <1>0. Fresh'
    BY NothingInFlight DEF Commit, StartCommit, TickCommit, SubmitCommit,
       ReviewCommit, CancelCommit, CreateCommit, UpdateCommit
  <1>t. TypeOK /\ HoldsStatus /\ Fresh /\ HistoryInv /\ BalanceInv
        /\ profile \in Profile
    BY DEF SafetyInv, TypeInv, TypeOK
  <1>1. CASE StartCommit(r)
    <2>1. /\ profile.status \in {"assigned", "rejected"}
          /\ tx[r].row.status = profile.status
      BY <1>1, <1>t DEF StartCommit, Ready, Fresh
    <2>2. transitionRetailTask(r, "in_progress") /\ UNCHANGED <<submissions, reviews>>
      BY <1>1 DEF StartCommit
    <2>3. HistoryInv' /\ profile'.status = "in_progress"
      BY <1>t, <2>1, <2>2, TransitionHistory
         DEF Status, Final, transitionRetailTask, Profile
    <2>4. QED
      BY <1>0, <1>t, <2>1, <2>2, <2>3, BalanceUnchanged
  <1>2. CASE TickCommit(r)
    BY <1>0, <1>2, <1>t, RowsUnchanged DEF TickCommit
  <1>3. CASE SubmitCommit(r)
    <2> DEFINE next == IF tx[r].row.reviewer = NoUser
                       THEN "completed" ELSE "pending_review"
    <2>1. profile.status = "in_progress" /\ tx[r].row.status = profile.status
      BY <1>3, <1>t DEF SubmitCommit, HoldsStatus, Fresh
    <2>2. /\ transitionRetailTask(r, next) /\ reviews' = reviews
          /\ submissions' = Append(submissions, [files |-> tx[r].files])
      BY <1>3 DEF SubmitCommit
    <2>3. /\ HistoryInv' /\ Exists'
          /\ profile'.status = next
          /\ next \in {"completed", "pending_review"}
      BY <1>t, <2>1, <2>2, TransitionHistory
         DEF Status, Final, transitionRetailTask, Profile
    <2>4. Len(submissions') = Len(submissions) + 1
      BY <1>t, <2>2 DEF TypeOK
    <2>5. /\ Len(submissions) = Len(reviews)
          /\ \A i \in DOMAIN reviews : reviews[i].decision = "rejected"
      BY <1>t, <2>1 DEF BalanceInv, ReviewBalance
    <2>6. BalanceInv'
      BY <2>2, <2>3, <2>4, <2>5 DEF BalanceInv, ReviewBalance, OneFinalReview
    <2>7. QED
      BY <1>0, <2>3, <2>6
  <1>4. CASE ReviewCommit(r)
    <2>1. profile.status = "pending_review" /\ tx[r].row.status = profile.status
      BY <1>4, <1>t DEF ReviewCommit, Ready, Fresh
    <2>2. PICK n \in DOMAIN submissions, decision \in Decision :
            /\ reviews' = Append(reviews, [submission |-> n, decision |-> decision])
            /\ transitionRetailTask(r, IF decision = "approved"
                                       THEN "completed" ELSE "rejected")
      BY <1>4 DEF ReviewCommit
    <2>3. /\ HistoryInv' /\ Exists'
          /\ profile'.status = IF decision = "approved"
                               THEN "completed" ELSE "rejected"
      BY <1>t, <2>1, <2>2, TransitionHistory
         DEF Status, Final, transitionRetailTask, Profile
    <2>4. /\ Len(reviews) \in Nat /\ DOMAIN reviews = 1..Len(reviews)
          /\ Len(reviews') = Len(reviews) + 1 /\ DOMAIN reviews' = 1..Len(reviews')
          /\ \A i \in 1..Len(reviews) : reviews'[i] = reviews[i]
          /\ reviews'[Len(reviews')].decision = decision
      BY <1>t, <2>2 DEF TypeOK
    <2>5. submissions' = submissions /\ Len(submissions) \in Nat
      BY <1>4, <1>t DEF ReviewCommit, TypeOK
    <2>6. /\ Len(submissions) = Len(reviews) + 1
          /\ \A i \in DOMAIN reviews : reviews[i].decision = "rejected"
      BY <1>t, <2>1 DEF BalanceInv, ReviewBalance
    <2>7. \A i \in DOMAIN reviews' :
            \/ reviews'[i].decision = "rejected"
            \/ i = Len(reviews') /\ decision = "approved"
      <3>1. ASSUME NEW i \in 1..Len(reviews)
            PROVE  reviews'[i].decision = "rejected"
        BY <2>4, <2>6
      <3>2. reviews'[Len(reviews')].decision \in {"rejected", "approved"}
        BY <2>4 DEF Decision
      <3>3. DOMAIN reviews' = 1..Len(reviews) \cup {Len(reviews')}
        BY <2>4
      <3>4. QED
        BY <2>4, <3>1, <3>2, <3>3
    <2>8. ReviewBalance'
      <3>1. CASE decision = "approved"
        <4>1. profile'.status = "completed" /\ reviews' # <<>>
              /\ Latest(reviews)'.decision = "approved"
          BY <2>3, <2>4, <3>1 DEF Latest
        <4>2. Len(submissions') = Len(reviews')
          BY <2>4, <2>5, <2>6
        <4>3. QED
          BY <4>1, <4>2 DEF ReviewBalance
      <3>2. CASE decision = "rejected"
        BY <2>3, <2>4, <2>5, <2>6, <2>7, <3>2 DEF ReviewBalance
      <3>3. QED
        BY <3>1, <3>2 DEF Decision
    <2>9. BalanceInv'
      BY <2>3, <2>7, <2>8 DEF BalanceInv, OneFinalReview, Decision
    <2>10. QED
      BY <1>0, <2>3, <2>9
  <1>5. CASE CancelCommit(r)
    <2>1. profile.status \in Status \ Final /\ tx[r].row.status = profile.status
      BY <1>5, <1>t DEF CancelCommit, Ready, Fresh
    <2>2. transitionRetailTask(r, "cancelled") /\ UNCHANGED <<submissions, reviews>>
      BY <1>5 DEF CancelCommit
    <2>3. HistoryInv' /\ profile'.status = "cancelled"
      BY <1>t, <2>1, <2>2, TransitionHistory
         DEF transitionRetailTask, Profile
    <2>4. QED
      BY <1>0, <1>t, <2>1, <2>2, <2>3, BalanceUnchanged DEF Status, Final
  <1>6. CASE CreateCommit(r)
    <2>1. /\ profile.status = "none" /\ profile' = tx[r].row
          /\ profile'.status \in {"draft", "assigned"}
          /\ UNCHANGED <<submissions, reviews, history>>
      BY <1>6, <1>t DEF CreateCommit, Ready, Fresh
    <2>2. history = <<>> /\ Exists'
      BY <1>t, <2>1 DEF HistoryInv, Exists, Status
    <2>3. HistoryInv'
      BY <2>1, <2>2 DEF HistoryInv, HistoryChains
    <2>4. QED
      BY <1>0, <1>t, <2>1, <2>3, BalanceUnchanged
  <1>7. CASE UpdateCommit(r)
    <2>1. /\ Exists /\ profile' = tx[r].row
          /\ profile'.status = UpdatedStatus(profile.status, tx[r].row.assignee)
          /\ UNCHANGED <<submissions, reviews, history>>
      BY <1>7, <1>t DEF UpdateCommit, Ready, Fresh
    <2>2. \/ profile'.status = profile.status
          \/ {profile.status, profile'.status} \subseteq {"draft", "assigned"}
      BY <2>1 DEF UpdatedStatus
    <2>3. Exists'
      BY <2>1, <2>2 DEF Exists, Status
    <2>4. profile.status \in {"draft", "assigned"} => history = <<>>
      BY <1>t DEF HistoryInv, HistoryChains, Latest, TypeOK
    <2>5. HistoryInv'
      BY <1>t, <2>1, <2>2, <2>3, <2>4 DEF HistoryInv, HistoryChains, Latest
    <2>6. QED
      BY <1>0, <1>t, <2>1, <2>2, <2>5, BalanceUnchanged
  <1>8. QED
    BY <1>1, <1>2, <1>3, <1>4, <1>5, <1>6, <1>7

LEMMA SafetyOtherStep ==
  ASSUME Isolation = "Serializable", SafetyInv, OtherStep
  PROVE  Fresh' /\ HistoryInv' /\ BalanceInv'
  <1>0. Fresh'
    BY NothingInFlight DEF OtherStep, DeleteProfile, CreateItem, UpdateItem,
       DeleteItem, Upload, DeleteAttachment, ToggleTaskDone,
       TrashOrRestoreTask, ChangeAccess
  <1>1. ASSUME NEW u \in Users, DeleteProfile(u) PROVE HistoryInv' /\ BalanceInv'
    <2>1. profile'.status = "deleted" /\ ~Exists'
      BY <1>1 DEF DeleteProfile, NoProfile, Exists, Status
    <2>2. submissions' = <<>> /\ reviews' = <<>> /\ history' = <<>>
      BY <1>1 DEF DeleteProfile
    <2>3. QED
      BY <2>1, <2>2 DEF HistoryInv, HistoryChains, BalanceInv, ReviewBalance,
         OneFinalReview
  <1>2. ASSUME UNCHANGED <<profile, submissions, reviews, history>>
        PROVE  HistoryInv' /\ BalanceInv'
    BY <1>2, RowsUnchanged DEF SafetyInv
  <1>3. \/ \E u \in Users : DeleteProfile(u)
        \/ UNCHANGED <<profile, submissions, reviews, history>>
    BY DEF OtherStep, CreateItem, UpdateItem, DeleteItem, Upload,
       DeleteAttachment, ToggleTaskDone, TrashOrRestoreTask, ChangeAccess
  <1>4. QED
    BY <1>0, <1>1, <1>2, <1>3

LEMMA SafetyInit == Init => SafetyInv
  <1> SUFFICES ASSUME Init PROVE SafetyInv
    OBVIOUS
  <1>1. Fresh
    BY DEF Init, Fresh, Idle
  <1>2. profile.status = "none" /\ ~Exists
    BY DEF Init, NoProfile, Exists, Status
  <1>3. HistoryInv /\ BalanceInv
    BY <1>2 DEF Init, HistoryInv, HistoryChains, BalanceInv, ReviewBalance,
       OneFinalReview
  <1>4. QED
    BY <1>1, <1>3, TypeInit DEF SafetyInv

LEMMA SafetyStep ==
  ASSUME Isolation = "Serializable", SafetyInv, [Next]_vars
  PROVE  SafetyInv'
  <1>1. TypeInv'
    BY TypeStep DEF SafetyInv
  <1>2. Fresh' /\ HistoryInv' /\ BalanceInv'
    <2>1. CASE UNCHANGED vars
      <3>1. Fresh'
        BY <2>1 DEF vars, SafetyInv, Fresh
      <3>2. QED
        BY <2>1, <3>1, RowsUnchanged DEF vars, SafetyInv
    <2>2. ASSUME NEW r \in Requests, RequestStep(r)
          PROVE  Fresh' /\ HistoryInv' /\ BalanceInv'
      <3>1. CASE SubmitCheck(r)
        <4>1. ASSUME NEW q \in Requests
              PROVE  tx'[q].op = tx[q].op /\ tx'[q].row = tx[q].row
          BY <3>1 DEF SubmitCheck, SafetyInv, TypeInv, TypeOK, Tx
        <4>2. Fresh'
          BY <3>1, <4>1 DEF SubmitCheck, SafetyInv, Fresh
        <4>3. QED
          BY <3>1, <4>2, RowsUnchanged DEF SubmitCheck, SafetyInv
      <3>2. CASE Rollback(r)
        <4>1. Fresh'
          BY <3>2 DEF Rollback, SafetyInv, TypeInv, TypeOK, Fresh, Idle
        <4>2. QED
          BY <3>2, <4>1, RowsUnchanged DEF Rollback, SafetyInv
      <3>3. QED
        BY <2>2, <3>1, <3>2, SafetyReadStep, SafetyCommitStep DEF RequestStep
    <2>3. CASE OtherStep
      BY <2>3, SafetyOtherStep
    <2>4. QED
      BY <2>1, <2>2, <2>3 DEF Next
  <1>3. QED
    BY <1>1, <1>2 DEF SafetyInv

LEMMA SafetyInvariant == ASSUME Isolation = "Serializable" PROVE Spec => []SafetyInv
  BY SafetyInit, SafetyStep, PTL DEF Spec

\* On a serializable database the recorded transitions form one chain that ends
\* in the current status.
THEOREM HistoryIsAChain ==
  ASSUME Isolation = "Serializable" PROVE Spec => []HistoryChains
  <1>1. SafetyInv => HistoryChains
    BY DEF SafetyInv, HistoryInv
  <1>2. QED
    BY <1>1, SafetyInvariant, PTL

\* On a serializable database every submission is answered by one review before
\* the work goes on.
THEOREM SubmissionsAreAnswered ==
  ASSUME Isolation = "Serializable" PROVE Spec => []ReviewBalance
  <1>1. SafetyInv => ReviewBalance
    BY DEF SafetyInv, BalanceInv
  <1>2. QED
    BY <1>1, SafetyInvariant, PTL

\* On a serializable database competing reviews, submissions and cancellations
\* produce one final result.
THEOREM ResultIsFinal ==
  ASSUME Isolation = "Serializable" PROVE Spec => []OneFinalResult
  <1>1. SafetyInv => OneFinalResult
    <2> SUFFICES ASSUME SafetyInv, NEW i \in DOMAIN history,
                        history[i].to \in Final
                 PROVE  i = Len(history)
      BY DEF OneFinalResult, SafetyInv, BalanceInv
    <2>1. Len(history) \in Nat /\ DOMAIN history = 1..Len(history)
      BY DEF SafetyInv, TypeInv, TypeOK
    <2>2. CASE i < Len(history)
      <3>1. history[i + 1].from \in Final /\ i + 1 \in DOMAIN history
        BY <2>1, <2>2 DEF SafetyInv, HistoryInv, HistoryChains
      <3>2. QED
        BY <3>1 DEF SafetyInv, HistoryInv
    <2>3. QED
      BY <2>1, <2>2
  <1>2. QED
    BY <1>1, SafetyInvariant, PTL

-----------------------------------------------------------------------------
(* Refinement of the atomic lifecycle *)

\* The decisions of a sequence of reviews grow with it.
LEMMA DecisionsAppend ==
  ASSUME NEW s \in Seq(Review), NEW e \in Review
  PROVE  [i \in DOMAIN Append(s, e) |-> Append(s, e)[i].decision]
           = Append([i \in DOMAIN s |-> s[i].decision], e.decision)
  <1> DEFINE n == Len(s)
             t == Append(s, e)
             f == [i \in DOMAIN s |-> s[i].decision]
             g == Append(f, e.decision)
  <1>1. /\ n \in Nat /\ DOMAIN s = 1..n
        /\ t \in Seq(Review) /\ DOMAIN t = 1..(n + 1)
        /\ \A i \in 1..n : t[i] = s[i]
        /\ t[n + 1] = e
    OBVIOUS
  <1>2. \A i \in 1..n : s[i] \in Review
    BY <1>1
  <1>3. f \in [1..n -> Decision]
    BY <1>1, <1>2 DEF Review
  <1>4. f \in Seq(Decision) /\ Len(f) = n
    BY <1>1, <1>3
  <1>5. e.decision \in Decision
    BY DEF Review
  <1>6. /\ g \in Seq(Decision) /\ Len(g) = n + 1
        /\ \A i \in 1..n : g[i] = f[i]
        /\ g[n + 1] = e.decision
    BY <1>1, <1>4, <1>5
  <1>7. g = [i \in 1..(n + 1) |-> g[i]]
    BY <1>1, <1>6
  <1>8. \A i \in 1..(n + 1) : t[i].decision = g[i]
    <2> SUFFICES ASSUME NEW i \in 1..(n + 1) PROVE t[i].decision = g[i]
      OBVIOUS
    <2>1. CASE i \in 1..n
      BY <1>1, <1>6, <2>1
    <2>2. CASE i = n + 1
      BY <1>1, <1>6, <2>2
    <2>3. QED
      BY <1>1, <2>1, <2>2
  <1> HIDE DEF g, t
  <1>9. [i \in DOMAIN t |-> t[i].decision] = g
    BY <1>1, <1>7, <1>8
  <1>10. QED
    BY <1>9 DEF g, t

LEMMA VerdictsAppend ==
  ASSUME reviews \in Seq(Review), NEW n \in Nat \ {0}, NEW d \in Decision,
         reviews' = Append(reviews, [submission |-> n, decision |-> d])
  PROVE  Verdicts' = Append(Verdicts, d)
  BY DecisionsAppend, [submission |-> n, decision |-> d] \in Review
     DEF Verdicts, Review

\* Steps that touch neither the profile nor its submissions and reviews.
LEMMA LifecycleStutters ==
  ASSUME UNCHANGED <<profile, submissions, reviews>>
  PROVE  UNCHANGED Lifecycle!vars
  BY DEF Lifecycle!vars, Verdicts

LEMMA LifecycleInit == Init => Lifecycle!Init
  <1> SUFFICES ASSUME Init PROVE Lifecycle!Init
    OBVIOUS
  <1>1. profile.status = "none" /\ Len(submissions) = 0
    BY DEF Init, NoProfile
  <1>2. Verdicts = <<>>
    BY DEF Init, Verdicts
  <1>3. QED
    BY <1>1, <1>2 DEF Lifecycle!Init

LEMMA LifecycleCommitStep ==
  ASSUME Isolation = "Serializable", SafetyInv, NEW r \in Requests,
         \/ StartCommit(r) \/ TickCommit(r) \/ SubmitCommit(r)
         \/ ReviewCommit(r) \/ CancelCommit(r)
         \/ CreateCommit(r) \/ UpdateCommit(r)
  PROVE  [Lifecycle!Next]_Lifecycle!vars
  <1>t. TypeOK /\ HoldsStatus /\ Fresh /\ profile \in Profile
    BY DEF SafetyInv, TypeInv, TypeOK
  <1>s. ASSUME NEW next \in Status, transitionRetailTask(r, next)
        PROVE  profile'.status = next
    BY <1>t, <1>s DEF transitionRetailTask, Profile
  <1>v. ASSUME reviews' = reviews PROVE Verdicts' = Verdicts
    BY <1>v DEF Verdicts
  <1>1. CASE StartCommit(r)
    <2>1. profile.status \in {"assigned", "rejected"}
      BY <1>1, <1>t DEF StartCommit, Ready, Fresh
    <2>2. profile'.status = "in_progress" /\ UNCHANGED <<submissions, reviews>>
      BY <1>1, <1>s DEF StartCommit, Status
    <2>3. Lifecycle!Start
      BY <1>v, <2>1, <2>2 DEF Lifecycle!Start, Lifecycle!Goto
    <2>4. QED
      BY <2>3 DEF Lifecycle!Next
  <1>2. CASE TickCommit(r)
    BY <1>2, LifecycleStutters DEF TickCommit
  <1>3. CASE SubmitCommit(r)
    <2>1. profile.status = "in_progress"
      BY <1>3, <1>t DEF SubmitCommit, HoldsStatus, Fresh
    <2>2. /\ profile'.status \in {"pending_review", "completed"}
          /\ reviews' = reviews
      BY <1>3, <1>s DEF SubmitCommit, Status
    <2>3. Len(submissions') = Len(submissions) + 1
      BY <1>3, <1>t DEF SubmitCommit, TypeOK
    <2>4. Lifecycle!Submit
      BY <1>v, <2>1, <2>2, <2>3 DEF Lifecycle!Submit, Lifecycle!Goto
    <2>5. QED
      BY <2>4 DEF Lifecycle!Next
  <1>4. CASE ReviewCommit(r)
    <2>1. profile.status = "pending_review"
      BY <1>4, <1>t DEF ReviewCommit, Ready, Fresh
    <2>2. PICK n \in DOMAIN submissions, d \in Decision :
            /\ reviews' = Append(reviews, [submission |-> n, decision |-> d])
            /\ transitionRetailTask(r, IF d = "approved"
                                       THEN "completed" ELSE "rejected")
      BY <1>4 DEF ReviewCommit
    <2>3. n \in Nat \ {0} /\ reviews \in Seq(Review)
      BY <1>t DEF TypeOK
    <2>4. Verdicts' = Append(Verdicts, d)
      BY <2>2, <2>3, VerdictsAppend
    <2>5. profile'.status = IF d = "approved" THEN "completed" ELSE "rejected"
      BY <1>s, <2>2 DEF Status
    <2>6. submissions' = submissions
      BY <1>4 DEF ReviewCommit
    <2>7. Lifecycle!Approve \/ Lifecycle!Reject
      BY <2>1, <2>4, <2>5, <2>6
         DEF Decision, Lifecycle!Approve, Lifecycle!Reject, Lifecycle!Goto
    <2>8. QED
      BY <2>7 DEF Lifecycle!Next
  <1>5. CASE CancelCommit(r)
    <2>1. profile.status \in Status \ Final
      BY <1>5, <1>t DEF CancelCommit, Ready, Fresh
    <2>2. profile'.status = "cancelled" /\ UNCHANGED <<submissions, reviews>>
      BY <1>5, <1>s DEF CancelCommit, Status
    <2>3. Lifecycle!Cancel
      BY <1>v, <2>1, <2>2
         DEF Status, Final, Lifecycle!Cancel, Lifecycle!Goto, Lifecycle!Open
    <2>4. QED
      BY <2>3 DEF Lifecycle!Next
  <1>6. CASE CreateCommit(r)
    <2>1. /\ profile.status = "none"
          /\ profile'.status \in {"draft", "assigned"}
          /\ UNCHANGED <<submissions, reviews>>
      BY <1>6, <1>t DEF CreateCommit, Ready, Fresh
    <2>2. Lifecycle!Create
      BY <1>v, <2>1 DEF Lifecycle!Create, Lifecycle!Goto
    <2>3. QED
      BY <2>2 DEF Lifecycle!Next
  <1>7. CASE UpdateCommit(r)
    <2>1. /\ profile'.status = UpdatedStatus(profile.status, tx[r].row.assignee)
          /\ UNCHANGED <<submissions, reviews>>
      BY <1>7, <1>t DEF UpdateCommit, Ready, Fresh
    <2>2. CASE profile'.status = profile.status
      BY <1>v, <2>1, <2>2 DEF Lifecycle!vars
    <2>3. CASE profile'.status # profile.status
      <3>1. Lifecycle!Reassign
        BY <1>v, <2>1, <2>3
           DEF UpdatedStatus, Lifecycle!Reassign, Lifecycle!Goto
      <3>2. QED
        BY <3>1 DEF Lifecycle!Next
    <2>4. QED
      BY <2>2, <2>3
  <1>8. QED
    BY <1>1, <1>2, <1>3, <1>4, <1>5, <1>6, <1>7

LEMMA LifecycleStep ==
  ASSUME Isolation = "Serializable", SafetyInv, [Next]_vars
  PROVE  [Lifecycle!Next]_Lifecycle!vars
  <1>1. CASE UNCHANGED <<profile, submissions, reviews>>
    BY <1>1, LifecycleStutters
  <1>2. ASSUME NEW r \in Requests,
               \/ StartCommit(r) \/ TickCommit(r) \/ SubmitCommit(r)
               \/ ReviewCommit(r) \/ CancelCommit(r)
               \/ CreateCommit(r) \/ UpdateCommit(r)
        PROVE  [Lifecycle!Next]_Lifecycle!vars
    BY <1>2, LifecycleCommitStep
  <1>3. ASSUME NEW u \in Users, DeleteProfile(u)
        PROVE  [Lifecycle!Next]_Lifecycle!vars
    <2>1. /\ profile.status \in Status /\ profile'.status = "deleted"
          /\ submissions' = <<>> /\ reviews' = <<>>
      BY <1>3 DEF DeleteProfile, Exists, NoProfile
    <2>2. Verdicts' = <<>> /\ Len(submissions') = 0
      BY <2>1 DEF Verdicts
    <2>3. Lifecycle!Remove
      BY <2>1, <2>2 DEF Status, Lifecycle!Remove, Lifecycle!Goto, Lifecycle!Open
    <2>4. QED
      BY <2>3 DEF Lifecycle!Next
  <1>4. ASSUME NEW r \in Requests, RequestStep(r)
        PROVE  \/ UNCHANGED <<profile, submissions, reviews>>
               \/ StartCommit(r) \/ TickCommit(r) \/ SubmitCommit(r)
               \/ ReviewCommit(r) \/ CancelCommit(r)
               \/ CreateCommit(r) \/ UpdateCommit(r)
    BY <1>4 DEF RequestStep, Read, StartRead, TickRead, SubmitRead, ReviewRead,
       CancelRead, CreateRead, UpdateRead, SubmitCheck, Rollback
  <1>5. ASSUME OtherStep
        PROVE  \/ UNCHANGED <<profile, submissions, reviews>>
               \/ \E u \in Users : DeleteProfile(u)
    BY <1>5 DEF OtherStep, CreateItem, UpdateItem, DeleteItem, Upload,
       DeleteAttachment, ToggleTaskDone, TrashOrRestoreTask, ChangeAccess
  <1>6. QED
    BY <1>1, <1>2, <1>3, <1>4, <1>5 DEF Next, vars

\* On a serializable database the concurrent requests together behave like the
\* atomic lifecycle.
THEOREM WorkflowImplementsLifecycle ==
  ASSUME Isolation = "Serializable" PROVE Spec => RefinesLifecycle
  <1>1. Init => Lifecycle!Init
    BY LifecycleInit
  <1>2. SafetyInv /\ [Next]_vars => [Lifecycle!Next]_Lifecycle!vars
    BY LifecycleStep
  <1>3. QED
    BY <1>1, <1>2, SafetyInvariant, PTL DEF Spec, RefinesLifecycle, Lifecycle!Spec

-----------------------------------------------------------------------------
(***************************************************************************)
(* What the tables say of a task's past, on either database and for any    *)
(* users, requests and bounds: every submission and review has its         *)
(* transition, and no status is shown that was not reached by one.  Here   *)
(* what a request has read need not be so any more when it commits; what   *)
(* counts is that it records the status it has read as the origin.         *)
(*   At the end, on a serializable database: what is submitted is          *)
(* complete, and the underlying task is done when the retail task is.      *)
(***************************************************************************)

\* The origins a request may record, by its operation.
Origins == \A r \in Requests :
    /\ tx[r].op = "start" => tx[r].row.status \in {"assigned", "rejected"}
    /\ tx[r].op = "submit" => tx[r].row.status = "in_progress"
    /\ tx[r].op = "review" => tx[r].row.status = "pending_review"

\* The transitions of a history between given statuses.
Moved(h, from, to) == {i \in DOMAIN h : h[i].from = from /\ h[i].to \in to}

Submitted(h) == Moved(h, "in_progress", {"pending_review", "completed"})
Reviewed(h) == Moved(h, "pending_review", {"completed", "rejected"})

Audit ==
    /\ Cardinality(Submitted(history)) = Len(submissions)
    /\ Cardinality(Reviewed(history)) = Len(reviews)

\* A status some transition led to, or one of the two before any.
Reached(status) ==
    status \in {"draft", "assigned"} \/ \E i \in DOMAIN history : history[i].to = status

\* A profile that is there shows a status it was brought to, and what an update
\* or a creation in flight is going to write is one too.
StatusInv ==
    /\ Exists => Reached(profile.status)
    /\ \A r \in Requests :
        /\ tx[r].op = "create" => tx[r].row.status \in {"draft", "assigned"}
        /\ tx[r].op = "update" =>
              profile.status # "none" /\ (Exists => Reached(tx[r].row.status))

AuditInv == TypeInv /\ Origins /\ Audit /\ StatusInv

-----------------------------------------------------------------------------
(* Requests *)

FirstRead(r) == \E u \in Users :
    \/ StartRead(r, u) \/ TickRead(r, u) \/ SubmitRead(r, u)
    \/ ReviewRead(r, u) \/ CancelRead(r, u)
    \/ CreateRead(r, u) \/ UpdateRead(r, u)

\* A slot keeps what it holds, is emptied, or is filled by a first read.
Kept(r) == tx'[r].op = "none" \/ (tx'[r].op = tx[r].op /\ tx'[r].row = tx[r].row)

LEMMA OutdatedKept ==
  ASSUME TypeInv, NEW t, \A q \in Requests : t[q] \in {tx[q], Idle}, tx' = Outdate(t)
  PROVE  \A q \in Requests : Kept(q)
  BY DEF Outdate, Kept, Idle

LEMMA CommitKept ==
  ASSUME TypeInv, NEW r \in Requests, Commit(r) PROVE \A q \in Requests : Kept(q)
  <1> DEFINE t == [tx EXCEPT ![r] = Idle]
  <1>1. \A q \in Requests : t[q] \in {tx[q], Idle}
    BY DEF TypeInv, TypeOK
  <1>2. tx' = Outdate(t)
    BY DEF Commit
  <1> HIDE DEF t
  <1>3. QED
    BY <1>1, <1>2, OutdatedKept

LEMMA FirstReadKept ==
  ASSUME TypeInv, NEW r \in Requests, FirstRead(r)
  PROVE  \A q \in Requests : q = r \/ Kept(q)
  BY DEF FirstRead, StartRead, TickRead, SubmitRead, ReviewRead, CancelRead, CreateRead,
     UpdateRead, Read, Kept, TypeInv, TypeOK

LEMMA SlotsKept ==
  ASSUME TypeInv, [Next]_vars
  PROVE  \A q \in Requests : Kept(q) \/ FirstRead(q)
  <1>1. ASSUME NEW r \in Requests, RequestStep(r)
        PROVE  \A q \in Requests : Kept(q) \/ FirstRead(q)
    <2>1. CASE FirstRead(r)
      BY <2>1, FirstReadKept
    <2>2. CASE \/ StartCommit(r) \/ TickCommit(r) \/ SubmitCommit(r) \/ ReviewCommit(r)
               \/ CancelCommit(r) \/ CreateCommit(r) \/ UpdateCommit(r)
      BY <2>2, CommitKept DEF StartCommit, TickCommit, SubmitCommit, ReviewCommit, CancelCommit,
         CreateCommit, UpdateCommit
    <2>3. CASE SubmitCheck(r)
      BY <2>3 DEF SubmitCheck, Kept, TypeInv, TypeOK, Tx
    <2>4. CASE Rollback(r)
      BY <2>4 DEF Rollback, Kept, TypeInv, TypeOK, Idle
    <2>5. QED
      BY <1>1, <2>1, <2>2, <2>3, <2>4 DEF RequestStep, FirstRead
  <1>2. CASE OtherStep
    <2>1. tx' = Outdate(tx)
      BY <1>2 DEF OtherStep, DeleteProfile, CreateItem, UpdateItem, DeleteItem, Upload,
         DeleteAttachment, ToggleTaskDone, TrashOrRestoreTask, ChangeAccess
    <2>2. QED
      BY <2>1, OutdatedKept
  <1>3. CASE UNCHANGED vars
    BY <1>3 DEF vars, Kept
  <1>4. QED
    BY <1>1, <1>2, <1>3 DEF Next

\* What a first read leaves in its slot.
LEMMA FirstReadHolds ==
  ASSUME TypeInv, NEW r \in Requests, FirstRead(r)
  PROVE  /\ UNCHANGED <<profile, submissions, reviews, history>>
         /\ tx'[r].op = "start" => tx'[r].row.status \in {"assigned", "rejected"}
         /\ tx'[r].op = "submit" => tx'[r].row.status = "in_progress"
         /\ tx'[r].op = "review" => tx'[r].row.status = "pending_review"
         /\ tx'[r].op = "create" => tx'[r].row.status \in {"draft", "assigned"}
         /\ tx'[r].op = "update" =>
              /\ Exists
              /\ tx'[r].row.status = profile.status
                   \/ tx'[r].row.status \in {"draft", "assigned"}
  <1>0. StatusRead.status = profile.status /\ PolicyRead.status = profile.status
    BY RowsRead DEF TypeInv
  <1>1. ASSUME NEW op, NEW u, NEW row, NEW item, Read(r, op, u, row, item)
        PROVE  /\ tx'[r].op = op /\ tx'[r].row = row
               /\ UNCHANGED <<profile, submissions, reviews, history>>
    <2> DEFINE new == [Idle EXCEPT !.pc = "read", !.op = op, !.actor = u,
                                   !.row = row, !.item = item]
    <2>1. new.op = op /\ new.row = row
      BY DEF Idle
    <2>2. tx' = [tx EXCEPT ![r] = new]
      BY <1>1 DEF Read
    <2> HIDE DEF new
    <2>3. tx'[r] = new
      BY <2>2 DEF TypeInv, TypeOK
    <2>4. QED
      BY <1>1, <2>1, <2>3 DEF Read
  <1>2. PICK u \in Users :
          \/ StartRead(r, u) \/ TickRead(r, u) \/ SubmitRead(r, u)
          \/ ReviewRead(r, u) \/ CancelRead(r, u)
          \/ CreateRead(r, u) \/ UpdateRead(r, u)
    BY DEF FirstRead
  <1>3. CASE StartRead(r, u) \/ SubmitRead(r, u) \/ ReviewRead(r, u) \/ CancelRead(r, u)
    BY <1>0, <1>1, <1>3 DEF StartRead, SubmitRead, ReviewRead, CancelRead
  <1>4. CASE TickRead(r, u)
    BY <1>1, <1>4 DEF TickRead
  <1>5. CASE CreateRead(r, u)
    <2>1. PICK assignee, reviewer, evidence :
            Read(r, "create", u,
                 [status |-> UpdatedStatus("draft", assignee), assignee |-> assignee,
                  reviewer |-> reviewer, evidence |-> evidence], NoItem)
      BY <1>5 DEF CreateRead
    <2>2. /\ tx'[r].op = "create" /\ tx'[r].row.status = UpdatedStatus("draft", assignee)
          /\ UNCHANGED <<profile, submissions, reviews, history>>
      BY <1>1, <2>1
    <2>3. QED
      BY <2>2 DEF UpdatedStatus
  <1>6. CASE UpdateRead(r, u)
    <2>1. PICK assignee, reviewer, evidence :
            Read(r, "update", u,
                 [status |-> UpdatedStatus(profile.status, assignee), assignee |-> assignee,
                  reviewer |-> reviewer, evidence |-> evidence], NoItem)
      BY <1>6 DEF UpdateRead
    <2>2. /\ tx'[r].op = "update" /\ tx'[r].row.status = UpdatedStatus(profile.status, assignee)
          /\ UNCHANGED <<profile, submissions, reviews, history>>
      BY <1>1, <2>1
    <2>3. Exists
      BY <1>6 DEF UpdateRead
    <2>4. QED
      BY <2>2, <2>3 DEF UpdatedStatus
  <1>7. QED
    BY <1>2, <1>3, <1>4, <1>5, <1>6

LEMMA OriginsStep ==
  ASSUME TypeInv, Origins, [Next]_vars PROVE Origins'
  BY SlotsKept, FirstReadHolds DEF Origins, Kept

-----------------------------------------------------------------------------
(* What a step does to the rows *)

\* A transition is recorded and its target shown.
Records(from, to) ==
    /\ Exists
    /\ history' = Append(history, [from |-> from, to |-> to])
    /\ profile'.status = to

Started == \E from \in {"assigned", "rejected"} :
    Records(from, "in_progress") /\ UNCHANGED <<submissions, reviews>>

Handed == \E to \in {"pending_review", "completed"} :
    /\ Records("in_progress", to)
    /\ Len(submissions') = Len(submissions) + 1 /\ UNCHANGED reviews

Judged == \E to \in {"completed", "rejected"} :
    /\ Records("pending_review", to)
    /\ Len(reviews') = Len(reviews) + 1 /\ UNCHANGED submissions

Cancelled == \E from \in Status :
    Records(from, "cancelled") /\ UNCHANGED <<submissions, reviews>>

Written == \E r \in Requests :
    /\ CreateCommit(r) \/ UpdateCommit(r)
    /\ profile' = tx[r].row /\ UNCHANGED rows

LEMMA TransitionRecords ==
  ASSUME TypeInv, NEW r \in Requests, NEW next, transitionRetailTask(r, next)
  PROVE  Records(tx[r].row.status, next)
  BY DEF transitionRetailTask, Records, TypeInv, TypeOK, Profile

LEMMA StepKinds ==
  ASSUME TypeInv, Origins, [Next]_vars
  PROVE  \/ UNCHANGED <<profile, submissions, reviews, history>>
         \/ Started \/ Handed \/ Judged \/ Cancelled \/ Written
         \/ \E u \in Users : DeleteProfile(u)
  <1>1. ASSUME NEW r \in Requests, StartCommit(r) PROVE Started
    <2>1. tx[r].row.status \in {"assigned", "rejected"}
      BY <1>1 DEF StartCommit, Ready, Origins
    <2>2. Records(tx[r].row.status, "in_progress") /\ UNCHANGED <<submissions, reviews>>
      BY <1>1, TransitionRecords DEF StartCommit
    <2>3. QED
      BY <2>1, <2>2 DEF Started
  <1>2. ASSUME NEW r \in Requests, SubmitCommit(r) PROVE Handed
    <2> DEFINE next == IF tx[r].row.reviewer = NoUser THEN "completed" ELSE "pending_review"
    <2>1. tx[r].row.status = "in_progress"
      BY <1>2 DEF SubmitCommit, TypeInv, HoldsStatus, Origins
    <2>2. Records("in_progress", next) /\ UNCHANGED reviews
      BY <1>2, <2>1, TransitionRecords DEF SubmitCommit
    <2>3. Len(submissions') = Len(submissions) + 1
      BY <1>2 DEF SubmitCommit, TypeInv, TypeOK
    <2>4. QED
      BY <2>2, <2>3 DEF Handed
  <1>3. ASSUME NEW r \in Requests, ReviewCommit(r) PROVE Judged
    <2>1. tx[r].row.status = "pending_review"
      BY <1>3 DEF ReviewCommit, Ready, Origins
    <2>2. PICK s \in DOMAIN submissions, decision \in Decision :
            /\ reviews' = Append(reviews, [submission |-> s, decision |-> decision])
            /\ transitionRetailTask(r, IF decision = "approved"
                                       THEN "completed" ELSE "rejected")
      BY <1>3 DEF ReviewCommit
    <2>3. Records("pending_review", IF decision = "approved" THEN "completed" ELSE "rejected")
      BY <2>1, <2>2, TransitionRecords
    <2>4. Len(reviews') = Len(reviews) + 1 /\ UNCHANGED submissions
      BY <1>3, <2>2 DEF ReviewCommit, TypeInv, TypeOK
    <2>5. QED
      BY <2>3, <2>4 DEF Judged
  <1>4. ASSUME NEW r \in Requests, CancelCommit(r) PROVE Cancelled
    <2>1. tx[r].row.status \in Status
      BY <1>4 DEF CancelCommit, Ready, TypeInv, HoldsStatus
    <2>2. Records(tx[r].row.status, "cancelled") /\ UNCHANGED <<submissions, reviews>>
      BY <1>4, TransitionRecords DEF CancelCommit
    <2>3. QED
      BY <2>1, <2>2 DEF Cancelled
  <1>5. ASSUME NEW r \in Requests, CreateCommit(r) \/ UpdateCommit(r) PROVE Written
    BY <1>5 DEF Written, CreateCommit, UpdateCommit
  <1>6. ASSUME NEW r \in Requests, RequestStep(r)
        PROVE  \/ UNCHANGED <<profile, submissions, reviews, history>>
               \/ StartCommit(r) \/ SubmitCommit(r) \/ ReviewCommit(r)
               \/ CancelCommit(r) \/ CreateCommit(r) \/ UpdateCommit(r)
    BY <1>6 DEF RequestStep, Read, StartRead, TickRead, SubmitRead, ReviewRead,
       CancelRead, CreateRead, UpdateRead, TickCommit, SubmitCheck, Rollback
  <1>7. ASSUME OtherStep
        PROVE  \/ UNCHANGED <<profile, submissions, reviews, history>>
               \/ \E u \in Users : DeleteProfile(u)
    BY <1>7 DEF OtherStep, CreateItem, UpdateItem, DeleteItem, Upload,
       DeleteAttachment, ToggleTaskDone, TrashOrRestoreTask, ChangeAccess
  <1>8. QED
    BY <1>1, <1>2, <1>3, <1>4, <1>5, <1>6, <1>7 DEF Next, vars

-----------------------------------------------------------------------------
(* Counting *)

LEMMA MovedFinite ==
  ASSUME TypeInv, NEW from, NEW to
  PROVE  /\ IsFiniteSet(Moved(history, from, to))
         /\ Len(history) + 1 \notin Moved(history, from, to)
         /\ Cardinality(Moved(history, from, to)) \in Nat
  <1>1. Len(history) \in Nat /\ DOMAIN history = 1..Len(history)
    BY DEF TypeInv, TypeOK
  <1>2. IsFiniteSet(1..Len(history))
    BY <1>1, FS_Interval
  <1>3. Moved(history, from, to) \in SUBSET (1..Len(history))
    BY <1>1 DEF Moved
  <1>4. IsFiniteSet(Moved(history, from, to))
    BY <1>2, <1>3, FS_Subset
  <1>5. QED
    BY <1>1, <1>3, <1>4, FS_CardinalityType

\* A recorded transition is one more of its kind, and no more of any other.
LEMMA CountAppend ==
  ASSUME TypeInv, NEW a, NEW b, NEW from, NEW to,
         history' = Append(history, [from |-> a, to |-> b])
  PROVE  Cardinality(Moved(history', from, to)) =
           Cardinality(Moved(history, from, to)) + (IF a = from /\ b \in to THEN 1 ELSE 0)
  <1> DEFINE n == Len(history)
  <1>1. /\ n \in Nat /\ DOMAIN history = 1..n
        /\ DOMAIN history' = 1..(n + 1)
        /\ \A i \in 1..n : history'[i] = history[i]
        /\ history'[n + 1] = [from |-> a, to |-> b]
    BY DEF TypeInv, TypeOK
  <1>2. CASE a = from /\ b \in to
    <2>1. Moved(history', from, to) = Moved(history, from, to) \cup {n + 1}
      BY <1>1, <1>2 DEF Moved
    <2>2. QED
      BY <1>2, <2>1, MovedFinite, FS_AddElement
  <1>3. CASE ~(a = from /\ b \in to)
    <2>1. Moved(history', from, to) = Moved(history, from, to)
      BY <1>1, <1>3 DEF Moved
    <2>2. QED
      BY <1>3, <2>1, MovedFinite
  <1>4. QED
    BY <1>2, <1>3

LEMMA AuditStep ==
  ASSUME TypeInv, Origins, Audit, [Next]_vars PROVE Audit'
  <1>1. CASE UNCHANGED <<profile, submissions, reviews, history>> \/ Written
    BY <1>1 DEF Audit, Submitted, Reviewed, Written
  <1>2. ASSUME NEW from, NEW to, Records(from, to)
        PROVE  /\ Cardinality(Submitted(history')) = Cardinality(Submitted(history))
                    + IF from = "in_progress" /\ to \in {"pending_review", "completed"}
                      THEN 1 ELSE 0
               /\ Cardinality(Reviewed(history')) = Cardinality(Reviewed(history))
                    + IF from = "pending_review" /\ to \in {"completed", "rejected"}
                      THEN 1 ELSE 0
    BY <1>2, CountAppend DEF Records, Submitted, Reviewed
  <1>3. /\ Cardinality(Submitted(history)) \in Nat
        /\ Cardinality(Reviewed(history)) \in Nat
    BY MovedFinite DEF Submitted, Reviewed
  <1>4. CASE Started
    BY <1>2, <1>3, <1>4 DEF Started, Audit
  <1>5. CASE Handed
    BY <1>2, <1>3, <1>5 DEF Handed, Audit
  <1>6. CASE Judged
    BY <1>2, <1>3, <1>6 DEF Judged, Audit
  <1>7. CASE Cancelled
    BY <1>2, <1>3, <1>7 DEF Cancelled, Audit
  <1>8. ASSUME NEW u \in Users, DeleteProfile(u) PROVE Audit'
    <2>1. submissions' = <<>> /\ reviews' = <<>> /\ history' = <<>>
      BY <1>8 DEF DeleteProfile
    <2>2. Submitted(history') = {} /\ Reviewed(history') = {}
      BY <2>1 DEF Submitted, Reviewed, Moved
    <2>3. QED
      BY <2>1, <2>2, FS_EmptySet DEF Audit
  <1>9. QED
    BY <1>1, <1>4, <1>5, <1>6, <1>7, <1>8, StepKinds

-----------------------------------------------------------------------------
(* Statuses *)

LEMMA ReachedIsStatus ==
  ASSUME TypeInv, NEW status, Reached(status) PROVE status \in Status
  <1>1. \A i \in DOMAIN history : history[i].to \in Status
    <2>1. history \in Seq(Transition)
      BY DEF TypeInv, TypeOK
    <2>2. \A i \in DOMAIN history : history[i] \in Transition
      BY <2>1
    <2>3. QED
      BY <2>2 DEF Transition
  <1>2. QED
    BY <1>1 DEF Reached, Status

\* Once a profile is there it is never "none" again, and while it is there
\* what was reached stays so and what it shows is reached.
LEMMA ShownIsReached ==
  ASSUME TypeInv, Origins, StatusInv, [Next]_vars
  PROVE  /\ Exists' => Reached(profile.status)'
         /\ profile.status # "none" =>
              /\ profile'.status # "none"
              /\ Exists' => Exists /\ \A status : Reached(status) => Reached(status)'
  <1> DEFINE Goal ==
        /\ Exists' => Reached(profile.status)'
        /\ profile.status # "none" =>
              /\ profile'.status # "none"
              /\ Exists' => Exists /\ \A status : Reached(status) => Reached(status)'
  <1> SUFFICES Goal
    OBVIOUS
  <1>1. CASE UNCHANGED <<profile, submissions, reviews, history>>
    BY <1>1 DEF Reached, Exists, StatusInv
  <1>2. ASSUME NEW from, NEW to \in Status, Records(from, to) PROVE Goal
    <2> DEFINE n == Len(history)
    <2>1. /\ n \in Nat /\ DOMAIN history = 1..n
          /\ DOMAIN history' = 1..(n + 1)
          /\ \A i \in 1..n : history'[i] = history[i]
          /\ history'[n + 1] = [from |-> from, to |-> to]
      BY <1>2 DEF Records, TypeInv, TypeOK
    <2>2. Exists /\ profile'.status = to /\ to # "none"
      BY <1>2 DEF Records, Status
    <2>3. n + 1 \in DOMAIN history' /\ history'[n + 1].to = profile'.status
      BY <2>1, <2>2
    <2>4. Reached(profile.status)'
      BY <2>3 DEF Reached
    <2>5. \A status : Reached(status) => Reached(status)'
      BY <2>1 DEF Reached
    <2>6. QED
      BY <2>2, <2>4, <2>5
  <1>3. CASE Started \/ Handed \/ Judged \/ Cancelled
    <2>1. \E from, to \in Status : Records(from, to)
      BY <1>3 DEF Started, Handed, Judged, Cancelled, Status
    <2>2. QED
      BY <1>2, <2>1
  <1>4. CASE Written
    <2>1. PICK r \in Requests :
            /\ CreateCommit(r) \/ UpdateCommit(r)
            /\ profile' = tx[r].row /\ UNCHANGED rows
      BY <1>4 DEF Written
    <2>2. \A status : Reached(status) <=> Reached(status)'
      BY <2>1 DEF Reached
    <2>3. CASE CreateCommit(r)
      <3>1. profile.status = "none" /\ profile'.status \in {"draft", "assigned"}
        BY <2>1, <2>3 DEF CreateCommit, Ready, StatusInv
      <3>2. QED
        BY <3>1 DEF Reached
    <2>4. CASE UpdateCommit(r)
      <3>1. Exists /\ Reached(profile'.status)
        BY <2>1, <2>4 DEF UpdateCommit, Ready, StatusInv
      <3>2. profile'.status \in Status
        BY <3>1, ReachedIsStatus
      <3>3. Reached(profile.status)'
        BY <2>1, <3>1 DEF Reached
      <3>4. QED
        BY <2>2, <3>1, <3>2, <3>3 DEF Status
    <2>5. QED
      BY <2>1, <2>3, <2>4
  <1>5. ASSUME NEW u \in Users, DeleteProfile(u) PROVE Goal
    <2>1. profile'.status = "deleted"
      BY <1>5 DEF DeleteProfile, NoProfile
    <2>2. QED
      BY <2>1 DEF Exists, Status
  <1>6. QED
    BY <1>1, <1>3, <1>4, <1>5, StepKinds

LEMMA StatusStep ==
  ASSUME TypeInv, Origins, StatusInv, [Next]_vars PROVE StatusInv'
  <1>1. SUFFICES ASSUME NEW q \in Requests
                 PROVE  /\ tx'[q].op = "create" => tx'[q].row.status \in {"draft", "assigned"}
                        /\ tx'[q].op = "update" =>
                              /\ profile'.status # "none"
                              /\ Exists' => Reached(tx[q].row.status)'
    BY ShownIsReached DEF StatusInv
  <1>2. CASE Kept(q)
    <2>1. CASE tx'[q].op = "none"
      BY <2>1
    <2>2. CASE tx'[q].op = tx[q].op /\ tx'[q].row = tx[q].row
      <3>1. ASSUME tx'[q].op = "update", Exists' PROVE Reached(tx[q].row.status)'
        <4>1. /\ Exists /\ Reached(tx[q].row.status)
              /\ \A status : Reached(status) => Reached(status)'
          BY <2>2, <3>1, ShownIsReached DEF StatusInv
        <4>2. QED
          BY <2>2, <4>1 DEF Reached
      <3>2. QED
        BY <2>2, <3>1, ShownIsReached DEF StatusInv
    <2>3. QED
      BY <1>2, <2>1, <2>2 DEF Kept
  <1>3. CASE FirstRead(q)
    <2>1. CASE tx'[q].op = "update"
      <3>1. /\ Exists
            /\ tx'[q].row.status = profile.status \/ tx'[q].row.status \in {"draft", "assigned"}
            /\ UNCHANGED <<profile, history>>
        BY <1>3, <2>1, FirstReadHolds
      <3>2. Reached(profile.status)
        BY <3>1 DEF StatusInv
      <3>3. Reached(tx[q].row.status)'
        BY <3>1, <3>2 DEF Reached
      <3>4. QED
        BY <2>1, <3>1, <3>3 DEF Exists, Status
    <2>2. QED
      BY <1>3, <2>1, FirstReadHolds
  <1>4. QED
    BY <1>2, <1>3, SlotsKept

-----------------------------------------------------------------------------
(* Theorems *)

LEMMA AuditInit == Init => AuditInv
  <1> SUFFICES ASSUME Init PROVE AuditInv
    OBVIOUS
  <1>1. TypeInv
    BY TypeInit
  <1>2. history = <<>> /\ submissions = <<>> /\ reviews = <<>>
        /\ profile.status = "none" /\ \A r \in Requests : tx[r].op = "none"
    BY DEF Init, NoProfile, Idle
  <1>3. Submitted(history) = {} /\ Reviewed(history) = {}
    BY <1>2 DEF Submitted, Reviewed, Moved
  <1>4. Audit
    BY <1>2, <1>3, FS_EmptySet DEF Audit
  <1>5. Origins /\ StatusInv
    BY <1>2 DEF Origins, StatusInv, Exists, Status
  <1>6. QED
    BY <1>1, <1>4, <1>5 DEF AuditInv

LEMMA AuditInvStep == AuditInv /\ [Next]_vars => AuditInv'
  BY TypeStep, OriginsStep, AuditStep, StatusStep DEF AuditInv

LEMMA AuditInvariant == Spec => []AuditInv
  BY AuditInit, AuditInvStep, PTL DEF Spec

\* Whatever the database lets requests overwrite, a task has as many recorded
\* hand-ins as submissions and as many recorded verdicts as reviews
\* (SubmitRetailTask, ReviewRetailTask).
THEOREM EveryAnswerIsOnRecord == Spec => []AuditIsComplete
  <1>1. AuditInv => AuditIsComplete
    BY DEF AuditInv, Audit, AuditIsComplete, Submitted, Reviewed, Moved
  <1>2. QED
    BY <1>1, AuditInvariant, PTL

\* A late write of a profile update brings back only a status that a recorded
\* transition once led to (RetailTaskProfile.Update).
THEOREM ShownStatusWasReached == Spec => []StatusWasOnceReached
  <1>1. AuditInv => StatusWasOnceReached
    BY DEF AuditInv, StatusInv, StatusWasOnceReached, Reached, Exists
  <1>2. QED
    BY <1>1, AuditInvariant, PTL

-----------------------------------------------------------------------------
(* On a serializable database *)

\* What a request has checked for its submission is still so.
Checks == \A r \in Requests :
    /\ tx[r].op = "submit" => tx[r].row.evidence = profile.evidence
    /\ tx[r].pc = "checked" =>
          /\ Undone = {} /\ tx[r].files \subseteq Stored
          /\ tx[r].row.evidence => tx[r].files # {}

\* The done flag before there is a profile, too.
DoneInv ==
    ~drifted /\ profile.status # "deleted" => (done <=> profile.status = "completed")

WorkInv == SafetyInv /\ Checks /\ DoneInv

LEMMA NoneChecked ==
  ASSUME Isolation = "Serializable", NEW t, tx' = Outdate(t) PROVE Checks'
  BY DEF Outdate, Checks, Idle

LEMMA FirstReadChecks ==
  ASSUME TypeInv, Checks, NEW r \in Requests, FirstRead(r) PROVE Checks'
  <1>1. PolicyRead.evidence = profile.evidence
    BY DEF PolicyRead, TypeInv, TypeOK, Profile
  <1>2. ASSUME NEW op, NEW u, NEW row, NEW item, Read(r, op, u, row, item),
               op = "submit" => row.evidence = profile.evidence
        PROVE  Checks'
    <2> DEFINE filled == [Idle EXCEPT !.pc = "read", !.op = op, !.actor = u,
                                      !.row = row, !.item = item]
    <2>1. filled.op = op /\ filled.row = row /\ filled.pc = "read"
      BY DEF Idle
    <2>2. tx' = [tx EXCEPT ![r] = filled] /\ UNCHANGED <<profile, items, attachment>>
      BY <1>2 DEF Read
    <2> HIDE DEF filled
    <2>3. \A q \in Requests : tx'[q] = IF q = r THEN filled ELSE tx[q]
      BY <2>2 DEF TypeInv, TypeOK
    <2>4. QED
      BY <1>2, <2>1, <2>2, <2>3 DEF Checks, Undone, Stored
  <1>3. PICK u \in Users :
          \/ StartRead(r, u) \/ TickRead(r, u) \/ SubmitRead(r, u)
          \/ ReviewRead(r, u) \/ CancelRead(r, u)
          \/ CreateRead(r, u) \/ UpdateRead(r, u)
    BY DEF FirstRead
  <1>4. CASE StartRead(r, u) \/ SubmitRead(r, u) \/ ReviewRead(r, u) \/ CancelRead(r, u)
    BY <1>1, <1>2, <1>4 DEF StartRead, SubmitRead, ReviewRead, CancelRead
  <1>5. CASE TickRead(r, u)
    BY <1>2, <1>5 DEF TickRead
  <1>6. CASE CreateRead(r, u)
    BY <1>2, <1>6 DEF CreateRead
  <1>7. CASE UpdateRead(r, u)
    BY <1>2, <1>7 DEF UpdateRead
  <1>8. QED
    BY <1>3, <1>4, <1>5, <1>6, <1>7

LEMMA ChecksStep ==
  ASSUME Isolation = "Serializable", TypeInv, Checks, [Next]_vars PROVE Checks'
  <1>1. ASSUME NEW r \in Requests, RequestStep(r) PROVE Checks'
    <2>1. CASE FirstRead(r)
      BY <2>1, FirstReadChecks
    <2>2. CASE \/ StartCommit(r) \/ TickCommit(r) \/ SubmitCommit(r) \/ ReviewCommit(r)
               \/ CancelCommit(r) \/ CreateCommit(r) \/ UpdateCommit(r)
      BY <2>2, NoneChecked DEF StartCommit, TickCommit, SubmitCommit, ReviewCommit, CancelCommit,
         CreateCommit, UpdateCommit, Commit
    <2>3. CASE SubmitCheck(r)
      <3>1. PICK files \in SUBSET Stored :
              /\ tx[r].row.evidence => files # {}
              /\ tx' = [tx EXCEPT ![r].pc = "checked", ![r].files = files]
        BY <2>3 DEF SubmitCheck
      <3>2. Undone = {} /\ UNCHANGED <<profile, items, attachment>>
        BY <2>3 DEF SubmitCheck
      <3>3. \A q \in Requests :
              /\ tx'[q].op = tx[q].op /\ tx'[q].row = tx[q].row
              /\ q = r \/ tx'[q] = tx[q]
        BY <3>1 DEF TypeInv, TypeOK, Tx
      <3>4. tx'[r].files = files
        BY <3>1 DEF TypeInv, TypeOK, Tx
      <3>5. Undone' = Undone /\ Stored' = Stored
        BY <3>2 DEF Undone, Stored
      <3>6. QED
        BY <3>1, <3>2, <3>3, <3>4, <3>5 DEF Checks
    <2>4. CASE Rollback(r)
      <3>1. \A q \in Requests : tx'[q] \in {tx[q], Idle}
        BY <2>4 DEF Rollback, TypeInv, TypeOK
      <3>2. UNCHANGED <<profile, items, attachment>>
        BY <2>4 DEF Rollback
      <3>3. QED
        BY <3>1, <3>2 DEF Checks, Undone, Stored, Idle
    <2>5. QED
      BY <1>1, <2>1, <2>2, <2>3, <2>4 DEF RequestStep, FirstRead
  <1>2. CASE OtherStep
    <2>1. tx' = Outdate(tx)
      BY <1>2 DEF OtherStep, DeleteProfile, CreateItem, UpdateItem, DeleteItem, Upload,
         DeleteAttachment, ToggleTaskDone, TrashOrRestoreTask, ChangeAccess
    <2>2. QED
      BY <2>1, NoneChecked
  <1>3. CASE UNCHANGED vars
    BY <1>3 DEF vars, Checks, Undone, Stored
  <1>4. QED
    BY <1>1, <1>2, <1>3 DEF Next

LEMMA DoneStep ==
  ASSUME SafetyInv, DoneInv, [Next]_vars PROVE DoneInv'
  <1>1. \A r \in Requests :
          /\ tx[r].op = "start" => profile.status \in {"assigned", "rejected"}
          /\ tx[r].op = "submit" => profile.status = "in_progress"
          /\ tx[r].op = "create" => tx[r].row.status \in {"draft", "assigned"}
          /\ tx[r].op = "update" =>
                tx[r].row.status = UpdatedStatus(profile.status, tx[r].row.assignee)
          /\ tx[r].pc = "checked" => tx[r].op = "submit"
    BY DEF SafetyInv, Fresh, TypeInv, HoldsStatus
  <1>2. ASSUME NEW r \in Requests, NEW next, transitionRetailTask(r, next)
        PROVE  profile'.status = next /\ profile.status \in Status
    BY <1>2 DEF transitionRetailTask, Exists, SafetyInv, TypeInv, TypeOK, Profile
  <1>3. ASSUME NEW r \in Requests, StartCommit(r) PROVE DoneInv'
    BY <1>1, <1>2, <1>3 DEF StartCommit, Ready, DoneInv
  <1>4. ASSUME NEW r \in Requests, SubmitCommit(r) PROVE DoneInv'
    <2>1. profile.status = "in_progress"
      BY <1>1, <1>4 DEF SubmitCommit
    <2>2. CASE tx[r].row.reviewer = NoUser
      <3>1. profile'.status = "completed" /\ done'
        BY <1>2, <1>4, <2>2 DEF SubmitCommit, setRetailUnderlyingTaskDone
      <3>2. QED
        BY <3>1 DEF DoneInv
    <2>3. CASE tx[r].row.reviewer # NoUser
      <3>1. profile'.status = "pending_review" /\ UNCHANGED <<done, drifted>>
        BY <1>2, <1>4, <2>3 DEF SubmitCommit
      <3>2. QED
        BY <2>1, <3>1 DEF DoneInv
    <2>4. QED
      BY <2>2, <2>3
  <1>5. ASSUME NEW r \in Requests, ReviewCommit(r) PROVE DoneInv'
    <2>1. PICK decision \in Decision :
            /\ transitionRetailTask(r, IF decision = "approved" THEN "completed" ELSE "rejected")
            /\ setRetailUnderlyingTaskDone(decision = "approved")
      BY <1>5 DEF ReviewCommit
    <2>2. profile'.status = IF decision = "approved" THEN "completed" ELSE "rejected"
      BY <1>2, <2>1
    <2>3. done' <=> decision = "approved"
      BY <2>1 DEF setRetailUnderlyingTaskDone
    <2>4. QED
      BY <2>2, <2>3 DEF DoneInv
  <1>6. ASSUME NEW r \in Requests, CancelCommit(r) PROVE DoneInv'
    <2>1. profile'.status = "cancelled" /\ ~done'
      BY <1>2, <1>6 DEF CancelCommit, setRetailUnderlyingTaskDone
    <2>2. QED
      BY <2>1 DEF DoneInv
  <1>7. ASSUME NEW r \in Requests, CreateCommit(r) PROVE DoneInv'
    BY <1>1, <1>7 DEF CreateCommit, Ready, DoneInv
  <1>8. ASSUME NEW r \in Requests, UpdateCommit(r) PROVE DoneInv'
    <2>1. /\ profile'.status = UpdatedStatus(profile.status, tx[r].row.assignee)
          /\ profile.status \in Status /\ UNCHANGED <<done, drifted>>
      BY <1>1, <1>8 DEF UpdateCommit, Ready, Exists
    <2>2. profile'.status = "completed" <=> profile.status = "completed"
      BY <2>1 DEF UpdatedStatus
    <2>3. QED
      BY <2>1, <2>2 DEF DoneInv, Status
  <1>9. ASSUME NEW r \in Requests, RequestStep(r)
        PROVE  \/ UNCHANGED <<profile, done, drifted>>
               \/ StartCommit(r) \/ SubmitCommit(r) \/ ReviewCommit(r)
               \/ CancelCommit(r) \/ CreateCommit(r) \/ UpdateCommit(r)
    BY <1>9 DEF RequestStep, Read, StartRead, TickRead, SubmitRead, ReviewRead,
       CancelRead, CreateRead, UpdateRead, TickCommit, SubmitCheck, Rollback
  <1>10. ASSUME OtherStep
         PROVE  \/ UNCHANGED <<profile, done, drifted>>
                \/ profile'.status = "deleted" \/ drifted'
    BY <1>10 DEF OtherStep, DeleteProfile, NoProfile, CreateItem, UpdateItem, DeleteItem,
       Upload, DeleteAttachment, ToggleTaskDone, TrashOrRestoreTask, ChangeAccess
  <1>11. CASE UNCHANGED <<profile, done, drifted>>
    BY <1>11 DEF DoneInv
  <1>12. QED
    BY <1>3, <1>4, <1>5, <1>6, <1>7, <1>8, <1>9, <1>10, <1>11 DEF Next, vars, DoneInv

LEMMA WorkInvariant == ASSUME Isolation = "Serializable" PROVE Spec => []WorkInv
  <1>1. Init => Checks /\ DoneInv
    <2> SUFFICES ASSUME Init PROVE Checks /\ DoneInv
      OBVIOUS
    <2>1. \A r \in Requests : tx[r].op = "none" /\ tx[r].pc = "idle"
      BY DEF Init, Idle
    <2>2. done = FALSE /\ profile.status = "none"
      BY DEF Init, NoProfile
    <2>3. QED
      BY <2>1, <2>2 DEF Checks, DoneInv
  <1>2. SafetyInv /\ Checks /\ DoneInv /\ [Next]_vars => (Checks /\ DoneInv)'
    BY ChecksStep, DoneStep DEF SafetyInv
  <1>3. QED
    BY <1>1, <1>2, SafetyInvariant, PTL DEF Spec, WorkInv

\* On a serializable database the required items, the cited files and the evidence
\* that SubmitRetailTask checked are there when its submission becomes visible.
THEOREM NothingIncompleteIsSubmitted ==
  ASSUME Isolation = "Serializable" PROVE Spec => SubmittedComplete
  <1> DEFINE Complete ==
        Len(submissions') > Len(submissions) =>
          /\ Undone = {}
          /\ Latest(submissions').files \subseteq Stored
          /\ profile.evidence => Latest(submissions').files # {}
  <1>1. WorkInv /\ [Next]_vars => [Complete]_vars
    <2> SUFFICES ASSUME WorkInv, [Next]_vars, Len(submissions') > Len(submissions)
                 PROVE  Complete
      OBVIOUS
    <2>0. TypeInv /\ Len(submissions) \in Nat
      BY DEF WorkInv, SafetyInv, TypeInv, TypeOK
    <2>1. PICK r \in Requests : SubmitCommit(r)
      <3>1. ASSUME NEW r \in Requests, RequestStep(r)
            PROVE  UNCHANGED submissions \/ SubmitCommit(r)
        BY <3>1 DEF RequestStep, Read, StartRead, TickRead, SubmitRead, ReviewRead,
           CancelRead, CreateRead, UpdateRead, StartCommit, TickCommit, SubmitCheck,
           ReviewCommit, CancelCommit, CreateCommit, UpdateCommit, Rollback
      <3>2. ASSUME OtherStep PROVE UNCHANGED submissions \/ submissions' = <<>>
        BY <3>2 DEF OtherStep, DeleteProfile, CreateItem, UpdateItem, DeleteItem, Upload,
           DeleteAttachment, ToggleTaskDone, TrashOrRestoreTask, ChangeAccess
      <3>3. Len(<<>>) = 0
        OBVIOUS
      <3>4. QED
        BY <2>0, <3>1, <3>2, <3>3 DEF Next, vars
    <2>2. /\ submissions' = Append(submissions, [files |-> tx[r].files])
          /\ tx[r].pc = "checked"
      BY <2>1 DEF SubmitCommit
    <2>3. Latest(submissions').files = tx[r].files
      BY <2>0, <2>2 DEF Latest, TypeInv, TypeOK
    <2>4. tx[r].op = "submit"
      BY <2>0, <2>2 DEF TypeInv, HoldsStatus
    <2>5. QED
      BY <2>2, <2>3, <2>4 DEF WorkInv, Checks
  <1>2. QED
    BY <1>1, WorkInvariant, PTL DEF Spec, SubmittedComplete

\* On a serializable database the task is done exactly when its profile is
\* completed, unless somebody ticked it by hand (setRetailUnderlyingTaskDone).
THEOREM DoneFollowsTheProfile ==
  ASSUME Isolation = "Serializable" PROVE Spec => []DoneMirrorsCompletion
  <1>1. WorkInv => DoneMirrorsCompletion
    BY DEF WorkInv, DoneInv, DoneMirrorsCompletion, Exists, Status
  <1>2. QED
    BY <1>1, WorkInvariant, PTL

=============================================================================
