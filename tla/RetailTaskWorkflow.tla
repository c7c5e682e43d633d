-------------------------- MODULE RetailTaskWorkflow --------------------------
(***************************************************************************)
(* One retail task profile, from its creation to its removal, under        *)
(* concurrent HTTP requests.  Every request runs in one database           *)
(* transaction: it first reads the profile and decides (a ...Read action), *)
(* and later writes and commits (a ...Commit action); other requests,      *)
(* generic task edits and membership changes interleave between the two.   *)
(*                                                                         *)
(* Isolation tells the two databases the application runs on apart.  The   *)
(* guards of the code are plain reads and its UPDATEs go by primary key,   *)
(* so under "ReadCommitted" (PostgreSQL's default) a commit is never       *)
(* refused because the row changed.  Under "Serializable" (SQLite in WAL   *)
(* mode) a transaction that read before another one committed cannot       *)
(* write any more.                                                         *)
(***************************************************************************)
EXTENDS Naturals, Sequences, FiniteSets

CONSTANTS
    Users,              \* everybody who may call the API
    NoUser,             \* the zero id: no assignee, no reviewer
    Fickle,             \* the users whose membership or admin right may change
    Items,              \* ids of the checklist items that may ever be created
    NoItem,
    Attachments,        \* ids of the attachments that may ever be uploaded
    EvidencePolicies,   \* values callers give evidence_required
    Requests,           \* slots for requests in flight
    Isolation,          \* "ReadCommitted" or "Serializable"
    GenericEdits,       \* whether the generic task API is used on the task
    MaxSubmissions,     \* bound on the number of submissions
    MaxHistory          \* bound on the number of recorded transitions

ASSUME UsersAssumption == NoUser \notin Users /\ Fickle \subseteq Users
ASSUME ItemsAssumption == NoItem \notin Items
ASSUME EvidenceAssumption == EvidencePolicies \subseteq BOOLEAN
ASSUME IsolationAssumption == Isolation \in {"ReadCommitted", "Serializable"}
ASSUME GenericEditsAssumption == GenericEdits \in BOOLEAN
ASSUME BoundsAssumption == MaxSubmissions \in Nat /\ MaxHistory \in Nat

VARIABLES
    profile,      \* the retail_task_profiles row
    checklist,    \* state of each checklist item
    required,     \* the items flagged as required
    attachment,   \* state of each attachment of the task
    submissions,  \* the retail_submissions rows with their files, oldest first
    reviews,      \* the retail_reviews rows, oldest first
    history,      \* the retail_task_transitions rows, oldest first
    done,         \* tasks.done of the underlying task
    trashed,      \* the underlying task is soft-deleted
    drifted,      \* a generic edit changed done since the workflow last set it
    members,      \* users with an effective membership in the org unit
    admins,       \* users with (inherited) admin access to the org unit
    tx            \* what each request in flight has read or is going to write

rows == <<submissions, reviews, history>>
items == <<checklist, required>>
task == <<done, trashed, drifted>>
access == <<members, admins>>
vars == <<profile, items, attachment, rows, task, access, tx>>

-----------------------------------------------------------------------------
(* Values *)

Status == {"draft", "assigned", "in_progress", "pending_review",
           "rejected", "completed", "cancelled"}
Final == {"completed", "cancelled"}
Decision == {"approved", "rejected"}
Op == {"start", "tick", "submit", "review", "cancel", "create", "update"}

\* "none" before the row is inserted, "deleted" after it was removed: a profile
\* created later for the same task has another id and is another instance.
Profile == [status: Status \cup {"none", "deleted"},
            assignee: Users \cup {NoUser},
            reviewer: Users \cup {NoUser},
            evidence: BOOLEAN]

NoProfile == [status |-> "none", assignee |-> NoUser,
              reviewer |-> NoUser, evidence |-> FALSE]

Tx == [pc: {"idle", "read", "checked"}, op: Op \cup {"none"},
       actor: Users \cup {NoUser}, row: Profile,
       item: Items \cup {NoItem}, files: SUBSET Attachments]

Idle == [pc |-> "idle", op |-> "none", actor |-> NoUser, row |-> NoProfile,
         item |-> NoItem, files |-> {}]

Transition == [from: Status, to: Status]
Submission == [files: SUBSET Attachments]
Review == [submission: Nat \ {0}, decision: Decision]

StatusRead == [NoProfile EXCEPT !.status = profile.status]
PolicyRead == [profile EXCEPT !.assignee = NoUser]

Exists == profile.status \in Status
Undone == {i \in required : checklist[i] = "todo"}
Stored == {f \in Attachments : attachment[f] = "stored"}

TypeOK ==
    /\ profile \in Profile
    /\ checklist \in [Items -> {"absent", "todo", "done", "deleted"}]
    /\ required \subseteq Items
    /\ attachment \in [Attachments -> {"absent", "stored", "deleted"}]
    /\ submissions \in Seq(Submission)
    /\ reviews \in Seq(Review)
    /\ history \in Seq(Transition)
    /\ done \in BOOLEAN /\ trashed \in BOOLEAN /\ drifted \in BOOLEAN
    /\ members \subseteq Users
    /\ admins \subseteq Users
    /\ tx \in [Requests -> Tx]

-----------------------------------------------------------------------------
(* Access *)

WorkerOrAdmin(u) == u = profile.assignee \/ u \in admins
ReviewerOrAdmin(u) == u = profile.reviewer \/ u \in admins
CanRead(u) == u \in members \cup admins

-----------------------------------------------------------------------------
(* Transactions *)

\* The other open transactions once t has committed: where the database is
\* serializable their first write will be refused, and all they can do is fail.
Outdate(t) == IF Isolation = "Serializable" THEN [q \in Requests |-> Idle] ELSE t

\* Request r of user u reads the profile.  It goes on with row: the columns it
\* read and still needs or, in Create and Update, the row it is going to write.
Read(r, op, u, row, item) ==
    /\ tx[r] = Idle
    /\ tx' = [tx EXCEPT ![r] = [Idle EXCEPT
                !.pc = "read", !.op = op, !.actor = u, !.row = row,
                !.item = item]]
    /\ UNCHANGED <<profile, items, attachment, rows, task, access>>

\* Request r is past its first read.
Ready(r, op) == tx[r].pc = "read" /\ tx[r].op = op

Commit(r) == tx' = Outdate([tx EXCEPT ![r] = Idle])

\* Any request may fail between its first read and its commit: a guard that
\* fails late, a database error, a conflict.  All its writes are rolled back.
Rollback(r) ==
    /\ tx[r] # Idle
    /\ tx' = [tx EXCEPT ![r] = Idle]
    /\ UNCHANGED <<profile, items, attachment, rows, task, access>>

-----------------------------------------------------------------------------
(* The status change every workflow operation ends with.  The UPDATE goes by *)
(* id, whatever the status is by then; the recorded origin is the one read.  *)

\* Mutants: the origin is taken after the update; origin and target are swapped;
\* a transition into the current status is not recorded.
transitionRetailTask_LateOrigin(r, next) ==
    /\ Exists
    /\ Len(history) < MaxHistory
    /\ profile' = [profile EXCEPT !.status = next]
    /\ history' = Append(history, [from |-> next, to |-> next])

transitionRetailTask_Swapped(r, next) ==
    /\ Exists
    /\ Len(history) < MaxHistory
    /\ profile' = [profile EXCEPT !.status = next]
    /\ history' = Append(history, [from |-> next, to |-> tx[r].row.status])

transitionRetailTask_OnlyChanges(r, next) ==
    /\ Exists
    /\ Len(history) < MaxHistory
    /\ profile' = [profile EXCEPT !.status = next]
    /\ history' = IF profile.status = next THEN history
                  ELSE Append(history, [from |-> tx[r].row.status, to |-> next])

transitionRetailTask(r, next) ==
    /\ Exists
    /\ Len(history) < MaxHistory
    /\ profile' = [profile EXCEPT !.status = next]
    /\ history' = Append(history, [from |-> tx[r].row.status, to |-> next])

\* Mutant: done is never taken back.
setRetailUnderlyingTaskDone_Sticky(value) ==
    /\ ~trashed
    /\ done' = (done \/ value)
    /\ drifted' = FALSE
    /\ UNCHANGED trashed

\* GetTaskByIDSimple does not find a soft-deleted task.
setRetailUnderlyingTaskDone(value) ==
    /\ ~trashed
    /\ done' = value
    /\ drifted' = FALSE
    /\ UNCHANGED trashed

(* StartRetailTask *)

\* Mutant: a draft may be started.
StartRead_AlsoDraft(r, u) ==
    /\ WorkerOrAdmin(u)
    /\ profile.status \in {"draft", "assigned", "rejected"}
    /\ Read(r, "start", u, StatusRead, NoItem)

StartRead(r, u) ==
    /\ WorkerOrAdmin(u)
    /\ profile.status \in {"assigned", "rejected"}
    /\ Read(r, "start", u, StatusRead, NoItem)

StartCommit(r) ==
    /\ Ready(r, "start")
    /\ CanRead(tx[r].actor)
    /\ transitionRetailTask(r, "in_progress")
    /\ Commit(r)
    /\ UNCHANGED <<items, attachment, submissions, reviews, task, access>>

(* SetRetailChecklistItemDone *)

TickRead(r, u) ==
    /\ WorkerOrAdmin(u)
    /\ profile.status = "in_progress"
    /\ \E i \in Items :
        /\ checklist[i] \in {"todo", "done"}
        /\ Read(r, "tick", u, NoProfile, i)

TickCommit(r) ==
    /\ Ready(r, "tick")
    /\ checklist[tx[r].item] \in {"todo", "done"}
    /\ \E state \in {"todo", "done"} :
        checklist' = [checklist EXCEPT ![tx[r].item] = state]
    /\ Commit(r)
    /\ UNCHANGED <<profile, required, attachment, rows, task, access>>

(* SubmitRetailTask *)

SubmitRead(r, u) ==
    /\ WorkerOrAdmin(u)
    /\ profile.status = "in_progress"
    /\ Read(r, "submit", u, PolicyRead, NoItem)

\* Mutant: the checklist is not counted.
SubmitCheck_NoChecklist(r) ==
    /\ Ready(r, "submit")
    /\ \E files \in SUBSET Stored :
        /\ tx[r].row.evidence => files # {}
        /\ tx' = [tx EXCEPT ![r].pc = "checked", ![r].files = files]
    /\ UNCHANGED <<profile, items, attachment, rows, task, access>>

\* The checklist and the attachments are looked up after the profile was.
SubmitCheck(r) ==
    /\ Ready(r, "submit")
    /\ Undone = {}
    /\ \E files \in SUBSET Stored :
        /\ tx[r].row.evidence => files # {}
        /\ tx' = [tx EXCEPT ![r].pc = "checked", ![r].files = files]
    /\ UNCHANGED <<profile, items, attachment, rows, task, access>>

SubmitCommit(r) ==
    LET next == IF tx[r].row.reviewer = NoUser
                THEN "completed" ELSE "pending_review"
    IN  /\ tx[r].pc = "checked"
        /\ CanRead(tx[r].actor)
        /\ Len(submissions) < MaxSubmissions
        /\ submissions' = Append(submissions, [files |-> tx[r].files])
        /\ transitionRetailTask(r, next)
        /\ IF next = "completed" THEN setRetailUnderlyingTaskDone(TRUE)
                                 ELSE UNCHANGED task
        /\ Commit(r)
        /\ UNCHANGED <<items, attachment, reviews, access>>

(* ReviewRetailTask: any submission of the profile may be named. *)

\* Mutant: a rejected task may be reviewed again.
ReviewRead_AlsoRejected(r, u) ==
    /\ ReviewerOrAdmin(u)
    /\ profile.status \in {"pending_review", "rejected"}
    /\ Read(r, "review", u, StatusRead, NoItem)

ReviewRead(r, u) ==
    /\ ReviewerOrAdmin(u)
    /\ profile.status = "pending_review"
    /\ Read(r, "review", u, StatusRead, NoItem)

ReviewCommit(r) ==
    /\ Ready(r, "review")
    /\ CanRead(tx[r].actor)
    /\ \E s \in DOMAIN submissions, decision \in Decision :
        /\ reviews' = Append(reviews, [submission |-> s, decision |-> decision])
        /\ transitionRetailTask(r, IF decision = "approved"
                                   THEN "completed" ELSE "rejected")
        /\ setRetailUnderlyingTaskDone(decision = "approved")
    /\ Commit(r)
    /\ UNCHANGED <<items, attachment, submissions, access>>

(* CancelRetailTask *)

\* Mutant: the status is not checked.
CancelRead_AnyStatus(r, u) ==
    /\ u \in admins
    /\ Exists
    /\ Read(r, "cancel", u, StatusRead, NoItem)

CancelRead(r, u) ==
    /\ u \in admins
    /\ Exists /\ profile.status \notin Final
    /\ Read(r, "cancel", u, StatusRead, NoItem)

CancelCommit(r) ==
    /\ Ready(r, "cancel")
    /\ CanRead(tx[r].actor)
    /\ transitionRetailTask(r, "cancelled")
    /\ setRetailUnderlyingTaskDone(FALSE)
    /\ Commit(r)
    /\ UNCHANGED <<items, attachment, submissions, reviews, access>>

-----------------------------------------------------------------------------
(* RetailTaskProfile.Create, Update and Delete *)

\* The staff rules of validate().
ValidStaff(assignee, reviewer) ==
    /\ assignee # NoUser => assignee \in members
    /\ reviewer # NoUser => reviewer # assignee /\ reviewer \in admins

\* Mutant: the status is left empty.
UpdatedStatus_Unset(status, assignee) ==
    CASE assignee # NoUser /\ status = "draft"    -> "assigned"
      [] assignee = NoUser /\ status = "assigned" -> "draft"
      [] OTHER                                    -> ""

\* The status Update writes back along with the other columns.
UpdatedStatus(status, assignee) ==
    CASE assignee # NoUser /\ status = "draft"    -> "assigned"
      [] assignee = NoUser /\ status = "assigned" -> "draft"
      [] OTHER                                    -> status

CreateRead(r, u) ==
    /\ u \in admins
    /\ profile.status = "none"
    /\ ~trashed
    /\ \E assignee, reviewer \in Users \cup {NoUser}, evidence \in EvidencePolicies :
        /\ ValidStaff(assignee, reviewer)
        /\ Read(r, "create", u,
             [status |-> UpdatedStatus("draft", assignee), assignee |-> assignee,
              reviewer |-> reviewer, evidence |-> evidence], NoItem)

\* The unique index on task_id refuses a second row.
CreateCommit(r) ==
    /\ Ready(r, "create")
    /\ profile.status = "none"
    /\ profile' = tx[r].row
    /\ Commit(r)
    /\ UNCHANGED <<items, attachment, rows, task, access>>

UpdateRead(r, u) ==
    /\ u \in admins
    /\ Exists
    /\ ~trashed
    /\ \E assignee, reviewer \in Users \cup {NoUser}, evidence \in EvidencePolicies :
        /\ ValidStaff(assignee, reviewer)
        /\ Read(r, "update", u,
             [status |-> UpdatedStatus(profile.status, assignee),
              assignee |-> assignee, reviewer |-> reviewer,
              evidence |-> evidence], NoItem)

UpdateCommit(r) ==
    /\ Ready(r, "update")
    /\ Exists
    /\ profile' = tx[r].row
    /\ Commit(r)
    /\ UNCHANGED <<items, attachment, rows, task, access>>

\* Delete has no guard on the status and no read that could be outdated.
DeleteProfile(u) ==
    /\ u \in admins
    /\ Exists
    /\ profile' = [NoProfile EXCEPT !.status = "deleted"]
    /\ submissions' = <<>> /\ reviews' = <<>> /\ history' = <<>>
    /\ checklist' = [i \in Items |-> "deleted"]
    /\ tx' = Outdate(tx)
    /\ UNCHANGED <<required, attachment, task, access>>

-----------------------------------------------------------------------------
(* RetailChecklistItem.Create, Update and Delete, in any status *)

ChecklistAdmin(u) == u \in admins /\ Exists

CreateItem(u, i) ==
    /\ ChecklistAdmin(u)
    /\ checklist[i] = "absent"
    /\ checklist' = [checklist EXCEPT ![i] = "todo"]
    /\ required' \in {required, required \cup {i}}
    /\ tx' = Outdate(tx)
    /\ UNCHANGED <<profile, attachment, rows, task, access>>

UpdateItem(u, i) ==
    /\ ChecklistAdmin(u)
    /\ checklist[i] \in {"todo", "done"}
    /\ required' \in {required \ {i}, required \cup {i}}
    /\ tx' = Outdate(tx)
    /\ UNCHANGED <<profile, checklist, attachment, rows, task, access>>

DeleteItem(u, i) ==
    /\ ChecklistAdmin(u)
    /\ checklist[i] \in {"todo", "done"}
    /\ checklist' = [checklist EXCEPT ![i] = "deleted"]
    /\ tx' = Outdate(tx)
    /\ UNCHANGED <<profile, required, attachment, rows, task, access>>

-----------------------------------------------------------------------------
(* What the rest of the application does to the same task and org unit *)

Upload(f) ==
    /\ attachment[f] = "absent"
    /\ attachment' = [attachment EXCEPT ![f] = "stored"]
    /\ tx' = Outdate(tx)
    /\ UNCHANGED <<profile, items, rows, task, access>>

\* TaskAttachment.Delete does not ask whether a submission cites the file.
DeleteAttachment(f) ==
    /\ attachment[f] = "stored"
    /\ attachment' = [attachment EXCEPT ![f] = "deleted"]
    /\ tx' = Outdate(tx)
    /\ UNCHANGED <<profile, items, rows, task, access>>

\* Task.Update knows nothing of the retail workflow.
ToggleTaskDone ==
    /\ GenericEdits /\ ~trashed
    /\ done' = ~done
    /\ drifted' = TRUE
    /\ tx' = Outdate(tx)
    /\ UNCHANGED <<profile, items, attachment, rows, trashed, access>>

\* Task.Delete is a soft delete and may be undone.
TrashOrRestoreTask ==
    /\ GenericEdits
    /\ trashed' = ~trashed
    /\ tx' = Outdate(tx)
    /\ UNCHANGED <<profile, items, attachment, rows, done, drifted, access>>

\* A membership is created, deactivated, expires or is deleted; the admin right
\* of the org unit or of an ancestor is granted or withdrawn.
ChangeAccess(u) ==
    /\ members' \in {members, members \cup {u}, members \ {u}}
    /\ admins' \in {admins, admins \cup {u}, admins \ {u}}
    /\ tx' = Outdate(tx)
    /\ UNCHANGED <<profile, items, attachment, rows, task>>

-----------------------------------------------------------------------------

Init ==
    /\ profile = NoProfile
    /\ checklist = [i \in Items |-> "absent"]
    /\ required = {}
    /\ attachment = [f \in Attachments |-> "absent"]
    /\ submissions = <<>> /\ reviews = <<>> /\ history = <<>>
    /\ done = FALSE /\ trashed = FALSE /\ drifted = FALSE
    /\ members \in SUBSET Users
    /\ admins \in SUBSET Users
    /\ tx = [r \in Requests |-> Idle]

RequestStep(r) ==
    \/ \E u \in Users :
        \/ StartRead(r, u) \/ TickRead(r, u) \/ SubmitRead(r, u)
        \/ ReviewRead(r, u) \/ CancelRead(r, u)
        \/ CreateRead(r, u) \/ UpdateRead(r, u)
    \/ StartCommit(r) \/ TickCommit(r) \/ SubmitCheck(r) \/ SubmitCommit(r)
    \/ ReviewCommit(r) \/ CancelCommit(r)
    \/ CreateCommit(r) \/ UpdateCommit(r)
    \/ Rollback(r)

OtherStep ==
    \/ \E u \in Users : DeleteProfile(u)
    \/ \E u \in Users, i \in Items :
        CreateItem(u, i) \/ UpdateItem(u, i) \/ DeleteItem(u, i)
    \/ \E f \in Attachments : Upload(f) \/ DeleteAttachment(f)
    \/ ToggleTaskDone
    \/ TrashOrRestoreTask
    \/ \E u \in Fickle : ChangeAccess(u)

Next == (\E r \in Requests : RequestStep(r)) \/ OtherStep

Spec == Init /\ [][Next]_vars
-----------------------------------------------------------------------------
(* Properties *)

Latest(s) == s[Len(s)]

\* The recorded transitions form one path that ends in the current status
\* (transitionRetailTask): no operation acted on a status that was gone, and no
\* status was written behind the history's back.
HistoryChains ==
    /\ \A i \in 1..(Len(history) - 1) : history[i].to = history[i + 1].from
    /\ history # <<>> => Latest(history).to = profile.status

\* QA_PLAN.md section 2: concurrent reviews produce one valid final result.  No
\* review is recorded after one that approved.
OneFinalReview ==
    \A i \in DOMAIN reviews :
        reviews[i].decision = "approved" => i = Len(reviews)

\* The same of reviews, completions and cancellations together: no transition
\* follows one into a final status.
OneFinalResult ==
    /\ OneFinalReview
    /\ \A i \in DOMAIN history : history[i].to \in Final => i = Len(history)

\* Each submission is answered by one review before the work goes on
\* (SubmitRetailTask, ReviewRetailTask): work is open only when every submission
\* so far was rejected, a review is awaited for exactly one, and a task is
\* completed by an approval or by a submission nobody had to review.
ReviewBalance ==
    LET rejections == \A i \in DOMAIN reviews : reviews[i].decision = "rejected"
    IN  /\ profile.status \in {"draft", "assigned", "in_progress", "rejected"} =>
            Len(submissions) = Len(reviews) /\ rejections
        /\ profile.status = "pending_review" =>
            Len(submissions) = Len(reviews) + 1 /\ rejections
        /\ profile.status = "completed" =>
            \/ Len(submissions) = Len(reviews) + 1 /\ rejections
            \/ /\ Len(submissions) = Len(reviews) /\ reviews # <<>>
               /\ Latest(reviews).decision = "approved"

\* Unless a generic edit intervened, the underlying task is done exactly when
\* the retail task is completed (setRetailUnderlyingTaskDone).
DoneMirrorsCompletion ==
    Exists /\ ~drifted => (done <=> profile.status = "completed")

\* At the moment a submission is committed the required items are ticked, the
\* cited files are stored, and there is one if evidence is required: the checks
\* of SubmitRetailTask still hold when its writes become visible.
SubmittedComplete ==
    [][ Len(submissions') > Len(submissions) =>
          /\ Undone = {}
          /\ Latest(submissions').files \subseteq Stored
          /\ profile.evidence => Latest(submissions').files # {} ]_vars

\* Submissions, reviews and transitions are written together: each submission
\* and each review has its transition, whatever the interleaving.
AuditIsComplete ==
    LET Moves(from, to) ==
            {i \in DOMAIN history : history[i].from = from /\ history[i].to \in to}
    IN  /\ Cardinality(Moves("in_progress", {"pending_review", "completed"}))
             = Len(submissions)
        /\ Cardinality(Moves("pending_review", {"completed", "rejected"}))
             = Len(reviews)

\* A profile update may write an outdated status back, but never one the task
\* was not brought to by a recorded transition.
StatusWasOnceReached ==
    profile.status \in Status \ {"draft", "assigned"} =>
        \E i \in DOMAIN history : history[i].to = profile.status

\* The decisions given so far.
Verdicts == [i \in DOMAIN reviews |-> reviews[i].decision]

Lifecycle == INSTANCE RetailTaskLifecycle WITH
    status <- profile.status,
    submitted <- Len(submissions),
    verdicts <- Verdicts

\* The requests together behave like the atomic lifecycle: each commit is one
\* step of RetailTaskLifecycle, reads and roll backs are none.
RefinesLifecycle == Lifecycle!Spec

=============================================================================
