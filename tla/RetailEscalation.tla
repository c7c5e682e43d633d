--------------------------- MODULE RetailEscalation ---------------------------
(***************************************************************************)
(* The minutely escalation of overdue retail tasks.  A tick is one          *)
(* transaction in a goroutine of its own: it looks the overdue tasks up,   *)
(* works out whom to tell at each level, and for each escalation that has  *)
(* no delivery row inserts a notification and a delivery row, whose unique *)
(* key is the task, the level and the recipient.  Ticks may overlap, so an *)
(* insert may meet the same key in another transaction: it waits for it,   *)
(* and a key that is then taken undoes the whole tick, as PostgreSQL does. *)
(* The rest of the program edits the tasks, the people and the unit while  *)
(* ticks run.  All tasks belong to one unit.                               *)
(***************************************************************************)
EXTENDS Naturals, FiniteSets

CONSTANTS
    Tasks, Users, NoUser,
    Bots,           \* users that are bot accounts, never notified
    NoDue,          \* a task without a due date
    Dues,           \* due dates tasks are given
    ManagerAfter,   \* how long after the due date the manager is told (30 min)
    AreaAfter,      \* ... and the admins of the unit above (120 min)
    Ticks,          \* slots for ticks in flight
    Isolations,     \* which of "ReadCommitted", "Serializable" the database may be
    Edits,          \* the kinds of change other parts of the program make
    MaxTime,        \* bound on the clock
    MaxChanges      \* bound on the number of those changes and of crashes

ASSUME UsersAssumption == NoUser \notin Users /\ Bots \subseteq Users
ASSUME DuesAssumption == Dues \subseteq Nat /\ NoDue \notin Nat
ASSUME DelaysAssumption == ManagerAfter \in Nat /\ AreaAfter \in Nat
ASSUME IsolationsAssumption == Isolations \subseteq {"ReadCommitted", "Serializable"}
ASSUME BoundsAssumption == MaxTime \in Nat /\ MaxChanges \in Nat

VARIABLES
    isolation,   \* the database's isolation level, fixed at the start
    now,         \* the clock
    task,        \* due date, people and state of each task
    manager,     \* manager_user_id of each user's membership in the unit
    areaAdmins,  \* admin rows of the team of the unit above
    enabled,     \* users whose account is active
    deliveries,  \* the retail_notification_deliveries rows
    notified,    \* number of notification rows each escalation led to
    tx,          \* the transaction of each tick
    changes      \* changes made so far, see MaxChanges

world == <<task, manager, areaAdmins, enabled>>
vars == <<isolation, now, world, deliveries, notified, tx, changes>>

-----------------------------------------------------------------------------
(* Values *)

Levels == {"assignee_overdue", "manager_30m", "area_120m"}

\* What stands for the idempotency key.
Key == Tasks \X Levels \X Users

Time == 0..MaxTime
Due == Dues \cup {NoDue}
Person == Users \cup {NoUser}

Task == [open: BOOLEAN, due: Due, assignee: Person, reviewer: Person]
Row == [task: Tasks, due: Dues, assignee: Person, reviewer: Person]

Tx == [at: Time, todo: SUBSET Row, pending: SUBSET Key, insert: SUBSET Key,
       rows: SUBSET Key, stale: BOOLEAN]
Idle == [at |-> 0, todo |-> {}, pending |-> {}, insert |-> {}, rows |-> {},
         stale |-> FALSE]

TypeOK ==
    /\ isolation \in Isolations
    /\ now \in Time
    /\ task \in [Tasks -> Task]
    /\ manager \in [Users -> Person]
    /\ areaAdmins \in SUBSET Users
    /\ enabled \in SUBSET Users
    /\ deliveries \in SUBSET Key
    /\ notified \in [Key -> Nat]
    /\ tx \in [Ticks -> Tx]
    /\ changes \in 0..MaxChanges

Silent == {k \in Key : k[3] \in Bots}

Init ==
    /\ isolation \in Isolations
    /\ now = 0
    /\ task \in [Tasks -> [open: {TRUE}, due: Dues, assignee: Users, reviewer: Person]]
    /\ manager \in [Users -> Person]
    /\ areaAdmins \in SUBSET Users
    /\ enabled = Users
    /\ deliveries = {}
    /\ notified = [k \in Key |-> 0]
    /\ tx = [t \in Ticks |-> Idle]
    /\ changes = 0

-----------------------------------------------------------------------------
(* Whom to tell *)

Overdue(time) == {p \in Tasks : /\ task[p].open
                                /\ task[p].due # NoDue
                                /\ task[p].due < time}

RowOf(p) == [task |-> p, due |-> task[p].due, assignee |-> task[p].assignee,
             reviewer |-> task[p].reviewer]

ManagerOf(row) ==
    IF row.reviewer # NoUser THEN row.reviewer
    ELSE IF row.assignee # NoUser THEN manager[row.assignee] ELSE NoUser

\* Mutant: a task or a member without a manager has a nobody to tell.
retailEscalationRecipients_Nobody(row, time) ==
    {k \in {row.task} \X Levels \X Person :
        \/ k[2] = "assignee_overdue" /\ k[3] = row.assignee
        \/ /\ k[2] = "manager_30m" /\ time >= row.due + ManagerAfter
           /\ k[3] = ManagerOf(row)
        \/ /\ k[2] = "area_120m" /\ time >= row.due + AreaAfter
           /\ k[3] \in areaAdmins}

retailEscalationRecipients(row, time) ==
    {k \in {row.task} \X Levels \X Users :
        \/ k[2] = "assignee_overdue" /\ k[3] = row.assignee
        \/ /\ k[2] = "manager_30m" /\ time >= row.due + ManagerAfter
           /\ k[3] = ManagerOf(row)
        \/ /\ k[2] = "area_120m" /\ time >= row.due + AreaAfter
           /\ k[3] \in areaAdmins}

-----------------------------------------------------------------------------
(* A tick *)

Close(t) == tx' = [tx EXCEPT ![t] = Idle]

\* What a commit of somebody else does to the transactions in flight: a
\* serializable database refuses those that read before it.
Outdate(txs, others) ==
    [t \in Ticks |-> IF t \in others /\ isolation = "Serializable" /\ txs[t] # Idle
                     THEN [txs[t] EXCEPT !.stale = TRUE] ELSE txs[t]]

\* The lookup of the overdue tasks; `at' is the time the cron passed in.  A tick
\* that finds nothing does nothing.
TickStart(t) ==
    /\ tx[t] = Idle
    /\ Overdue(now) # {}
    /\ tx' = [tx EXCEPT ![t] = [Idle EXCEPT !.at = now,
                                            !.todo = {RowOf(p) : p \in Overdue(now)}]]
    /\ UNCHANGED <<isolation, now, world, deliveries, notified, changes>>

\* Mutant: the levels are worked out by the time it is, not the tick's time.
TickTask_LaterClock(t) ==
    /\ tx[t].pending = {} /\ tx[t].insert = {}
    /\ \E row \in tx[t].todo :
         tx' = [tx EXCEPT ![t].todo = @ \ {row},
                          ![t].pending = retailEscalationRecipients(row, now)]
    /\ UNCHANGED <<isolation, now, world, deliveries, notified, changes>>

\* The next task's recipients, from the unit and memberships as they are now.
TickTask(t) ==
    /\ tx[t].pending = {} /\ tx[t].insert = {}
    /\ \E row \in tx[t].todo :
         tx' = [tx EXCEPT ![t].todo = @ \ {row},
                          ![t].pending = retailEscalationRecipients(row, tx[t].at)]
    /\ UNCHANGED <<isolation, now, world, deliveries, notified, changes>>

\* Mutant: the delivery row is not looked up before notifying again.
TickCheck_NoLookup(t) ==
    /\ tx[t].insert = {}
    /\ \E k \in tx[t].pending :
         tx' = [tx EXCEPT ![t].pending = @ \ {k},
                          ![t].insert = IF k[3] \in enabled THEN {k} ELSE {}]
    /\ UNCHANGED <<isolation, now, world, deliveries, notified, changes>>

\* The first half of sendOneRetailEscalation, for the escalations of a task in
\* any order: one that is delivered, or whose recipient's account is not
\* active, is passed over.
TickCheck(t) ==
    /\ tx[t].insert = {}
    /\ \E k \in tx[t].pending :
         tx' = [tx EXCEPT ![t].pending = @ \ {k},
                          ![t].insert = IF k \notin deliveries \cup tx[t].rows
                                             /\ k[3] \in enabled THEN {k} ELSE {}]
    /\ UNCHANGED <<isolation, now, world, deliveries, notified, changes>>

\* Mutant: the notification is committed apart from the delivery row.
TickInsert_OwnSession(t) ==
    /\ tx[t].insert # {}
    /\ \A u \in Ticks \ {t} : tx[t].insert \cap tx[u].rows = {}
    /\ IF tx[t].stale \/ tx[t].insert \subseteq deliveries
       THEN Close(t)
       ELSE tx' = [tx EXCEPT ![t].insert = {}, ![t].rows = @ \cup tx[t].insert]
    /\ notified' = [k \in Key |-> IF k \in tx[t].insert \ Silent
                                  THEN notified[k] + 1 ELSE notified[k]]
    /\ UNCHANGED <<isolation, now, world, deliveries, changes>>

\* Mutant: a taken key only fails its own row, the notification stays.
TickInsert_OnlyStatement(t) ==
    /\ tx[t].insert # {}
    /\ \A u \in Ticks \ {t} : tx[t].insert \cap tx[u].rows = {}
    /\ IF tx[t].stale
       THEN Close(t)
       ELSE tx' = [tx EXCEPT ![t].insert = {}, ![t].rows = @ \cup tx[t].insert]
    /\ UNCHANGED <<isolation, now, world, deliveries, notified, changes>>

\* The second half: the notification and the delivery row.  The insert waits
\* for a transaction that holds the key; a key that is taken by then, or on a
\* serializable database a commit since the tick began, undoes the tick.
TickInsert(t) ==
    /\ tx[t].insert # {}
    /\ \A u \in Ticks \ {t} : tx[t].insert \cap tx[u].rows = {}
    /\ IF tx[t].stale \/ tx[t].insert \subseteq deliveries
       THEN Close(t)
       ELSE tx' = [tx EXCEPT ![t].insert = {}, ![t].rows = @ \cup tx[t].insert]
    /\ UNCHANGED <<isolation, now, world, deliveries, notified, changes>>

\* Transactions that wait for each other's keys: the database undoes one.
Waits(t, u) == tx[t].insert \cap tx[u].rows # {}
Deadlocked(t) ==
    \E cycle \in SUBSET Ticks :
        t \in cycle /\ \A u \in cycle : \E w \in cycle \ {u} : Waits(u, w)

DeadlockVictim(t) ==
    /\ Deadlocked(t)
    /\ Close(t)
    /\ UNCHANGED <<isolation, now, world, deliveries, notified, changes>>

Finished(t) == tx[t] # Idle /\ tx[t].todo = {} /\ tx[t].pending = {} /\ tx[t].insert = {}

TickCommit(t) ==
    /\ Finished(t)
    /\ LET sent == IF tx[t].stale THEN {} ELSE tx[t].rows
           closed == [tx EXCEPT ![t] = Idle]
       IN /\ deliveries' = deliveries \cup sent
          /\ notified' = [k \in Key |-> IF k \in sent \ Silent
                                        THEN notified[k] + 1 ELSE notified[k]]
          /\ tx' = IF sent = {} THEN closed ELSE Outdate(closed, Ticks)
    /\ UNCHANGED <<isolation, now, world, changes>>

-----------------------------------------------------------------------------
(* The rest of the program, the clock and crashes *)

Change == changes < MaxChanges /\ changes' = changes + 1

\* A change some other request commits.
Edit(kind) ==
    /\ kind \in Edits
    /\ Change
    /\ tx' = Outdate(tx, Ticks)
    /\ UNCHANGED <<isolation, now, deliveries, notified>>

\* Completed or cancelled, or reopened.
SetOpen(p) ==
    /\ Edit("open")
    /\ task' = [task EXCEPT ![p].open = ~@]
    /\ UNCHANGED <<manager, areaAdmins, enabled>>

Redate(p) ==
    /\ Edit("due")
    /\ \E due \in Due : task' = [task EXCEPT ![p].due = due]
    /\ UNCHANGED <<manager, areaAdmins, enabled>>

Reassign(p) ==
    /\ Edit("people")
    /\ \E a \in Users, r \in Person :
         task' = [task EXCEPT ![p].assignee = a, ![p].reviewer = r]
    /\ UNCHANGED <<manager, areaAdmins, enabled>>

SetManager(u) ==
    /\ Edit("manager")
    /\ \E m \in Person \ {u} : manager' = [manager EXCEPT ![u] = m]
    /\ UNCHANGED <<task, areaAdmins, enabled>>

SetAreaAdmin(u) ==
    /\ Edit("admins")
    /\ areaAdmins' = IF u \in areaAdmins THEN areaAdmins \ {u} ELSE areaAdmins \cup {u}
    /\ UNCHANGED <<task, manager, enabled>>

\* The account is disabled or locked, or active again.
SetAccount(u) ==
    /\ Edit("account")
    /\ enabled' = IF u \in enabled THEN enabled \ {u} ELSE enabled \cup {u}
    /\ UNCHANGED <<task, manager, areaAdmins>>

\* The server stops: every transaction in flight is undone.
Crash ==
    /\ Change
    /\ tx' = [t \in Ticks |-> Idle]
    /\ UNCHANGED <<isolation, now, world, deliveries, notified>>

Advance ==
    /\ now < MaxTime
    /\ now' = now + 1
    /\ UNCHANGED <<isolation, world, deliveries, notified, tx, changes>>

Tick(t) == TickStart(t) \/ TickTask(t) \/ TickCheck(t) \/ TickInsert(t)
           \/ DeadlockVictim(t) \/ TickCommit(t)

Next == \/ \E t \in Ticks : Tick(t)
        \/ \E p \in Tasks : SetOpen(p) \/ Redate(p) \/ Reassign(p)
        \/ \E u \in Users : SetManager(u) \/ SetAreaAdmin(u) \/ SetAccount(u)
        \/ Crash \/ Advance

Spec == Init /\ [][Next]_vars

\* The cron fires every minute and the database answers, detects deadlocks and
\* ends transactions.  Nobody has to edit, to crash or to let time pass.
FairSpec == Spec /\ \A t \in Ticks : WF_vars(Tick(t))

-----------------------------------------------------------------------------
(* Properties *)

\* An escalation led to exactly one notification if it is recorded as delivered
\* and to none if it is not (to none at all for a bot): neither an overlapping
\* tick nor an undone one makes the two tables disagree.
DeliveryMatchesNotification ==
    \A k \in Key : notified[k] = IF k \in deliveries \ Silent THEN 1 ELSE 0

\* The escalations the state calls for at a time.
CalledFor(time) ==
    {k \in UNION {retailEscalationRecipients(RowOf(p), time) : p \in Overdue(time)} :
        k[3] \in enabled}

\* On a serializable database a tick is as good as atomic: what it delivers is
\* what the tasks, people and accounts at its commit call for at its time, all
\* of it, and nothing that was delivered before.  A task that was completed,
\* moved or reassigned while the tick ran is not escalated on what it was.
TickIsExact(t) ==
    isolation = "Serializable" /\ ~tx[t].stale
        => deliveries' = deliveries \cup CalledFor(tx[t].at)
TicksAreExact == [][\A t \in Ticks : TickCommit(t) => TickIsExact(t)]_vars

\* Whoever has to be told and stays so is told at last, although ticks undo each
\* other or die with the server.  Only ticks that start inside each other over
\* and over, and deadlock each time, could put it off for ever.
OverdueIsEscalated ==
    <>[](\A t \in Ticks : ~Deadlocked(t))
      => \A k \in Key : <>[](k \in CalledFor(now)) => <>(k \in deliveries)

\* The ticks implement the delivery of each escalation once.
Promise == INSTANCE RetailEscalationDelivery WITH Keys <- Key
RefinesDelivery == Promise!Spec
=============================================================================
