------------------------ MODULE RetailEscalationProofs ------------------------
(***************************************************************************)
(* Escalations go out once, for any tasks, people, ticks and delays and on *)
(* either database.  The argument: a transaction in flight holds only keys *)
(* that are not delivered, and no two transactions hold the same key,      *)
(* because an insert waits for whoever holds its key and gives up when the *)
(* key has been taken.  So a commit adds new deliveries only, and counts   *)
(* each of their notifications for the first time.                         *)
(*                                                                         *)
(* On a serializable database a tick is exact as well, because whatever    *)
(* changes the state it looks at outdates it: a tick that can commit has   *)
(* done, or has still ahead, what the present state calls for (Exact).     *)
(***************************************************************************)
EXTENDS RetailEscalation, TLAPS

\* A transaction inserts one escalation at a time.
OneInsert == \A t \in Ticks : tx[t].insert # {} => \E k \in Key : tx[t].insert = {k}

\* The rows a transaction holds are new ...
RowsAreNew == \A t \in Ticks : tx[t].rows \cap deliveries = {}

\* ... and its own.
RowsAreOwn == \A t, u \in Ticks : t # u => tx[t].rows \cap tx[u].rows = {}

Held == OneInsert /\ RowsAreNew /\ RowsAreOwn

IInv == TypeOK /\ Held /\ DeliveryMatchesNotification

-----------------------------------------------------------------------------
(* Types *)

\* A fresh transaction is a transaction.
LEMMA IdleTyped == Idle \in Tx
  BY BoundsAssumption DEF Idle, Tx, Time

\* The recipients of a task are escalations.
LEMMA RecipientsTyped ==
  ASSUME NEW row \in Row, NEW time
  PROVE  retailEscalationRecipients(row, time) \in SUBSET Key
  BY DEF retailEscalationRecipients, Key, Row

\* Outdating leaves every transaction what it is but for its mark.
LEMMA OutdateKeeps ==
  ASSUME NEW txs \in [Ticks -> Tx]
  PROVE  /\ Outdate(txs, Ticks) \in [Ticks -> Tx]
         /\ \A t \in Ticks : /\ Outdate(txs, Ticks)[t].insert = txs[t].insert
                             /\ Outdate(txs, Ticks)[t].rows = txs[t].rows
  BY DEF Outdate, Tx

\* An overdue task's row is a row.
LEMMA RowTyped ==
  ASSUME TypeOK, NEW p \in Overdue(now)
  PROVE  RowOf(p) \in Row
  BY DEF Overdue, RowOf, Row, TypeOK, Task, Due

\* Every edit leaves the deliveries alone and the transactions as they are but
\* for their mark.
LEMMA EditKeeps ==
  ASSUME IInv, NEW kind, Edit(kind)
  PROVE  /\ tx' \in [Ticks -> Tx] /\ changes' \in 0..MaxChanges
         /\ isolation' \in Isolations /\ now' \in Time
         /\ deliveries' \in SUBSET Key /\ notified' \in [Key -> Nat]
         /\ Held' /\ DeliveryMatchesNotification'
<1>1. tx' = Outdate(tx, Ticks) /\ tx \in [Ticks -> Tx]
  BY DEF Edit, IInv, TypeOK
<1>2. /\ tx' \in [Ticks -> Tx]
      /\ \A t \in Ticks : tx'[t].insert = tx[t].insert /\ tx'[t].rows = tx[t].rows
  BY <1>1, OutdateKeeps
<1>3. changes' \in 0..MaxChanges
  BY BoundsAssumption DEF Edit, Change, IInv, TypeOK
<1>4. UNCHANGED <<isolation, now, deliveries, notified>>
  BY DEF Edit
<1>5. Held'
  BY <1>2, <1>4 DEF IInv, Held, OneInsert, RowsAreNew, RowsAreOwn
<1>6. DeliveryMatchesNotification'
  BY <1>4 DEF IInv, DeliveryMatchesNotification
<1> QED
  BY <1>2, <1>3, <1>4, <1>5, <1>6 DEF IInv, TypeOK

-----------------------------------------------------------------------------
(* The ticks *)

\* What a step of a tick keeps that changes no table: its transaction stays a
\* transaction, and the rows it adds are new and nobody else's.
LEMMA OwnStepKeeps ==
  ASSUME IInv, NEW t \in Ticks, NEW new \in Tx,
         tx' = [tx EXCEPT ![t] = new],
         UNCHANGED <<isolation, now, world, deliveries, notified, changes>>,
         new.insert # {} => \E k \in Key : new.insert = {k},
         new.rows \cap deliveries = {},
         \A u \in Ticks \ {t} : new.rows \cap tx[u].rows = {}
  PROVE  IInv'
<1>1. TypeOK'
  BY DEF IInv, TypeOK, world
<1>2. tx'[t] = new /\ \A u \in Ticks \ {t} : tx'[u] = tx[u]
  BY DEF IInv, TypeOK
<1>3. OneInsert'
  BY <1>2 DEF IInv, Held, OneInsert
<1>4. RowsAreNew'
  BY <1>2 DEF IInv, Held, RowsAreNew
<1>5. RowsAreOwn'
  BY <1>2 DEF IInv, Held, RowsAreOwn
<1>6. DeliveryMatchesNotification'
  BY DEF IInv, DeliveryMatchesNotification
<1> QED
  BY <1>1, <1>3, <1>4, <1>5, <1>6 DEF IInv, Held

\* Giving a transaction up keeps the invariant.
LEMMA CloseKeeps ==
  ASSUME IInv, NEW t \in Ticks, Close(t),
         UNCHANGED <<isolation, now, world, deliveries, notified, changes>>
  PROVE  IInv'
<1>1. Idle.insert = {} /\ Idle.rows = {}
  BY DEF Idle
<1> QED
  BY <1>1, IdleTyped, OwnStepKeeps DEF Close

LEMMA TickStartKeeps ==
  ASSUME IInv, NEW t \in Ticks, TickStart(t)
  PROVE  IInv'
<1> DEFINE new == [Idle EXCEPT !.at = now, !.todo = {RowOf(p) : p \in Overdue(now)}]
<1>1. {RowOf(p) : p \in Overdue(now)} \in SUBSET Row
  BY RowTyped DEF IInv
<1>2. new \in Tx /\ new.insert = {} /\ new.rows = {}
  BY <1>1, IdleTyped DEF Idle, Tx, IInv, TypeOK
<1>3. tx' = [tx EXCEPT ![t] = new]
  BY DEF TickStart
<1> HIDE DEF new
<1> QED
  BY <1>2, <1>3, OwnStepKeeps DEF TickStart

LEMMA TickTaskKeeps ==
  ASSUME IInv, NEW t \in Ticks, TickTask(t)
  PROVE  IInv'
<1>1. PICK row \in tx[t].todo :
        tx' = [tx EXCEPT ![t].todo = @ \ {row},
                         ![t].pending = retailEscalationRecipients(row, tx[t].at)]
  BY DEF TickTask
<1> DEFINE new == [tx[t] EXCEPT !.todo = @ \ {row},
                     !.pending = retailEscalationRecipients(row, tx[t].at)]
<1>2. tx[t] \in Tx /\ row \in Row
  BY DEF IInv, TypeOK, Tx
<1>3. retailEscalationRecipients(row, tx[t].at) \in SUBSET Key
  BY <1>2, RecipientsTyped
<1>4. new \in Tx /\ new.insert = tx[t].insert /\ new.rows = tx[t].rows
  BY <1>2, <1>3 DEF Tx
<1>5. tx' = [tx EXCEPT ![t] = new]
  BY <1>1 DEF IInv, TypeOK
<1>6. /\ new.insert # {} => \E k \in Key : new.insert = {k}
      /\ new.rows \cap deliveries = {}
      /\ \A u \in Ticks \ {t} : new.rows \cap tx[u].rows = {}
  BY <1>4 DEF IInv, Held, OneInsert, RowsAreNew, RowsAreOwn
<1> HIDE DEF new
<1> QED
  BY <1>4, <1>5, <1>6, OwnStepKeeps DEF TickTask

LEMMA TickCheckKeeps ==
  ASSUME IInv, NEW t \in Ticks, TickCheck(t)
  PROVE  IInv'
<1>1. PICK k \in tx[t].pending :
        tx' = [tx EXCEPT ![t].pending = @ \ {k},
                 ![t].insert = IF k \notin deliveries \cup tx[t].rows
                                    /\ k[3] \in enabled THEN {k} ELSE {}]
  BY DEF TickCheck
<1> DEFINE chosen == IF k \notin deliveries \cup tx[t].rows /\ k[3] \in enabled
                     THEN {k} ELSE {}
           new == [tx[t] EXCEPT !.pending = @ \ {k}, !.insert = chosen]
<1>2. tx[t] \in Tx /\ k \in Key
  BY DEF IInv, TypeOK, Tx
<1>3. chosen = {k} \/ chosen = {}
  OBVIOUS
<1> HIDE DEF chosen
<1>4. new \in Tx /\ new.insert = chosen /\ new.rows = tx[t].rows
  BY <1>2, <1>3 DEF Tx
<1>5. tx' = [tx EXCEPT ![t] = new]
  BY <1>1 DEF IInv, TypeOK, chosen
<1>6. /\ new.insert # {} => \E e \in Key : new.insert = {e}
      /\ new.rows \cap deliveries = {}
      /\ \A u \in Ticks \ {t} : new.rows \cap tx[u].rows = {}
  BY <1>2, <1>3, <1>4 DEF IInv, Held, RowsAreNew, RowsAreOwn
<1> HIDE DEF new
<1> QED
  BY <1>4, <1>5, <1>6, OwnStepKeeps DEF TickCheck

LEMMA TickInsertKeeps ==
  ASSUME IInv, NEW t \in Ticks, TickInsert(t)
  PROVE  IInv'
<1>1. CASE tx[t].stale \/ tx[t].insert \subseteq deliveries
  BY <1>1, CloseKeeps DEF TickInsert
<1>2. CASE ~(tx[t].stale \/ tx[t].insert \subseteq deliveries)
  <2> DEFINE new == [tx[t] EXCEPT !.insert = {}, !.rows = @ \cup tx[t].insert]
  <2>1. PICK k \in Key : tx[t].insert = {k}
    BY DEF TickInsert, IInv, Held, OneInsert
  <2>2. tx[t] \in Tx
    BY DEF IInv, TypeOK
  <2>3. new \in Tx /\ new.insert = {} /\ new.rows = tx[t].rows \cup {k}
    BY <2>1, <2>2 DEF Tx
  <2>4. tx' = [tx EXCEPT ![t] = new]
    BY <1>2 DEF TickInsert, IInv, TypeOK
  <2>5. k \notin deliveries /\ \A u \in Ticks \ {t} : k \notin tx[u].rows
    BY <1>2, <2>1 DEF TickInsert
  <2>6. /\ new.rows \cap deliveries = {}
        /\ \A u \in Ticks \ {t} : new.rows \cap tx[u].rows = {}
    BY <2>3, <2>5 DEF IInv, Held, RowsAreNew, RowsAreOwn
  <2> HIDE DEF new
  <2> QED
    BY <2>3, <2>4, <2>6, OwnStepKeeps DEF TickInsert
<1> QED
  BY <1>1, <1>2

\* A commit turns rows that are new and the tick's own into deliveries, and
\* counts their notifications for the first time.
LEMMA TickCommitKeeps ==
  ASSUME IInv, NEW t \in Ticks, TickCommit(t)
  PROVE  IInv'
<1> DEFINE sent == IF tx[t].stale THEN {} ELSE tx[t].rows
           closed == [tx EXCEPT ![t] = Idle]
<1>1. /\ deliveries' = deliveries \cup sent
      /\ notified' = [k \in Key |-> IF k \in sent \ Silent
                                    THEN notified[k] + 1 ELSE notified[k]]
      /\ tx' = IF sent = {} THEN closed ELSE Outdate(closed, Ticks)
      /\ UNCHANGED <<isolation, now, world, changes>>
  BY DEF TickCommit
<1>2. tx[t] \in Tx /\ closed \in [Ticks -> Tx]
  BY IdleTyped DEF IInv, TypeOK
<1>3. sent \in SUBSET Key /\ sent \subseteq tx[t].rows
  BY <1>2 DEF Tx
<1>4. sent \cap deliveries = {} /\ \A u \in Ticks \ {t} : sent \cap tx[u].rows = {}
  BY <1>3 DEF IInv, Held, RowsAreNew, RowsAreOwn
<1>5. /\ closed[t].insert = {} /\ closed[t].rows = {}
      /\ \A u \in Ticks \ {t} : closed[u] = tx[u]
  BY DEF IInv, TypeOK, Idle
<1> HIDE DEF sent, closed
<1>6. /\ tx' \in [Ticks -> Tx]
      /\ \A u \in Ticks : tx'[u].insert = closed[u].insert /\ tx'[u].rows = closed[u].rows
  BY <1>1, <1>2, OutdateKeeps
<1>7. TypeOK'
  BY <1>1, <1>3, <1>6 DEF IInv, TypeOK, world
<1>8. OneInsert'
  BY <1>5, <1>6 DEF IInv, Held, OneInsert
<1>9. RowsAreNew'
  BY <1>1, <1>4, <1>5, <1>6 DEF IInv, Held, RowsAreNew
<1>10. RowsAreOwn'
  BY <1>5, <1>6 DEF IInv, Held, RowsAreOwn
<1>11. DeliveryMatchesNotification'
  <2> SUFFICES ASSUME NEW k \in Key
               PROVE  notified'[k] = IF k \in deliveries' \ Silent THEN 1 ELSE 0
    BY <1>1 DEF DeliveryMatchesNotification, Silent
  <2>1. notified[k] = IF k \in deliveries \ Silent THEN 1 ELSE 0
    BY DEF IInv, DeliveryMatchesNotification
  <2>2. notified'[k] = IF k \in sent \ Silent THEN notified[k] + 1 ELSE notified[k]
    BY <1>1
  <2> QED
    BY <1>1, <1>4, <2>1, <2>2
<1> QED
  BY <1>7, <1>8, <1>9, <1>10, <1>11 DEF IInv, Held

-----------------------------------------------------------------------------
(* The theorems *)

LEMMA InitEstablishes == Init => IInv
<1> SUFFICES ASSUME Init PROVE IInv
  OBVIOUS
<1>1. task \in [Tasks -> Task]
  BY DEF Init, Task, Due, Person
<1>2. TypeOK
  BY <1>1, IdleTyped, BoundsAssumption DEF Init, TypeOK, Time
<1>3. Held
  BY DEF Init, Held, OneInsert, RowsAreNew, RowsAreOwn, Idle
<1>4. DeliveryMatchesNotification
  BY DEF Init, DeliveryMatchesNotification
<1> QED
  BY <1>2, <1>3, <1>4 DEF IInv

LEMMA NextKeeps == IInv /\ [Next]_vars => IInv'
<1> SUFFICES ASSUME IInv, [Next]_vars PROVE IInv'
  OBVIOUS
<1>1. ASSUME NEW t \in Ticks, Tick(t) PROVE IInv'
  BY <1>1, TickStartKeeps, TickTaskKeeps, TickCheckKeeps, TickInsertKeeps,
     TickCommitKeeps, CloseKeeps DEF Tick, DeadlockVictim
<1>2. ASSUME NEW p \in Tasks, SetOpen(p) PROVE IInv'
  <2>1. task' \in [Tasks -> Task] /\ UNCHANGED <<manager, areaAdmins, enabled>>
    BY <1>2 DEF SetOpen, IInv, TypeOK, Task
  <2> QED
    BY <1>2, <2>1, EditKeeps DEF SetOpen, IInv, TypeOK
<1>3. ASSUME NEW p \in Tasks, Redate(p) PROVE IInv'
  <2>1. task' \in [Tasks -> Task] /\ UNCHANGED <<manager, areaAdmins, enabled>>
    BY <1>3 DEF Redate, IInv, TypeOK, Task
  <2> QED
    BY <1>3, <2>1, EditKeeps DEF Redate, IInv, TypeOK
<1>4. ASSUME NEW p \in Tasks, Reassign(p) PROVE IInv'
  <2>1. PICK a \in Users, r \in Person :
          task' = [task EXCEPT ![p].assignee = a, ![p].reviewer = r]
    BY <1>4 DEF Reassign
  <2>2. task' \in [Tasks -> Task] /\ UNCHANGED <<manager, areaAdmins, enabled>>
    BY <1>4, <2>1 DEF Reassign, IInv, TypeOK, Task, Person
  <2> QED
    BY <1>4, <2>2, EditKeeps DEF Reassign, IInv, TypeOK
<1>5. ASSUME NEW u \in Users, SetManager(u) PROVE IInv'
  <2>1. manager' \in [Users -> Person] /\ UNCHANGED <<task, areaAdmins, enabled>>
    BY <1>5 DEF SetManager, IInv, TypeOK
  <2> QED
    BY <1>5, <2>1, EditKeeps DEF SetManager, IInv, TypeOK
<1>6. ASSUME NEW u \in Users, SetAreaAdmin(u) PROVE IInv'
  <2>1. areaAdmins' \in SUBSET Users /\ UNCHANGED <<task, manager, enabled>>
    BY <1>6 DEF SetAreaAdmin, IInv, TypeOK
  <2> QED
    BY <1>6, <2>1, EditKeeps DEF SetAreaAdmin, IInv, TypeOK
<1>7. ASSUME NEW u \in Users, SetAccount(u) PROVE IInv'
  <2>1. enabled' \in SUBSET Users /\ UNCHANGED <<task, manager, areaAdmins>>
    BY <1>7 DEF SetAccount, IInv, TypeOK
  <2> QED
    BY <1>7, <2>1, EditKeeps DEF SetAccount, IInv, TypeOK
<1>8. CASE Crash
  <2>1. TypeOK'
    BY <1>8, IdleTyped, BoundsAssumption DEF Crash, Change, IInv, TypeOK, world
  <2>2. Held'
    BY <1>8 DEF Crash, Held, OneInsert, RowsAreNew, RowsAreOwn, Idle
  <2> QED
    BY <1>8, <2>1, <2>2 DEF Crash, IInv, DeliveryMatchesNotification
<1>9. CASE Advance
  <2>1. TypeOK'
    BY <1>9, BoundsAssumption DEF Advance, IInv, TypeOK, world, Time
  <2> QED
    BY <1>9, <2>1 DEF Advance, IInv, DeliveryMatchesNotification, Held, OneInsert,
       RowsAreNew, RowsAreOwn
<1>10. CASE UNCHANGED vars
  BY <1>10 DEF vars, world, IInv, TypeOK, DeliveryMatchesNotification, Held,
     OneInsert, RowsAreNew, RowsAreOwn
<1> QED
  BY <1>1, <1>2, <1>3, <1>4, <1>5, <1>6, <1>7, <1>8, <1>9, <1>10 DEF Next

\* The invariant holds in every state.
LEMMA Inductive == Spec => []IInv
  BY InitEstablishes, NextKeeps, PTL DEF Spec

\* Every variable keeps to its values, however ticks and edits interleave.
THEOREM TypeCorrect == Spec => []TypeOK
<1>1. IInv => TypeOK
  BY DEF IInv
<1> QED
  BY <1>1, Inductive, PTL

\* An escalation has its one notification exactly when sendOneRetailEscalation
\* has recorded its delivery.
THEOREM NotifiedOnce == Spec => []DeliveryMatchesNotification
<1>1. IInv => DeliveryMatchesNotification
  BY DEF IInv
<1> QED
  BY <1>1, Inductive, PTL

\* A step of a tick that changes a table is the delivery of a new batch.
LEMMA StepDelivers == IInv /\ [Next]_vars => [Promise!Next]_(Promise!vars)
<1> SUFFICES ASSUME IInv, [Next]_vars,
                    ~(UNCHANGED <<deliveries, notified>>)
             PROVE  Promise!Next
  BY DEF Promise!vars
<1>1. PICK t \in Ticks : TickCommit(t)
  BY DEF Next, vars, Tick, TickStart, TickTask, TickCheck, TickInsert, DeadlockVictim,
     SetOpen, Redate, Reassign, SetManager, SetAreaAdmin, SetAccount, Edit, Crash, Advance
<1> DEFINE sent == IF tx[t].stale THEN {} ELSE tx[t].rows
<1>2. /\ deliveries' = deliveries \cup sent
      /\ notified' = [k \in Key |-> IF k \in sent \ Silent
                                    THEN notified[k] + 1 ELSE notified[k]]
  BY <1>1 DEF TickCommit
<1>3. sent \in SUBSET Key
  BY DEF IInv, TypeOK, Tx
<1>4. sent \cap deliveries = {}
  BY DEF IInv, Held, RowsAreNew
<1> HIDE DEF sent
<1>5. Promise!Deliver(sent)
  BY <1>2, <1>4 DEF Promise!Deliver
<1> QED
  BY <1>3, <1>5 DEF Promise!Next

\* The ticks implement the promise: each escalation is delivered in one step
\* with its notification, and never again.
THEOREM EscalationImplementsPromise == Spec => RefinesDelivery
<1>1. Init => Promise!Init
  BY DEF Init, Promise!Init
<1> QED
  BY <1>1, StepDelivers, Inductive, PTL DEF Spec, RefinesDelivery, Promise!Spec

-----------------------------------------------------------------------------
(* On a serializable database a tick works for the state it will commit in:  *)
(* what changes that state outdates it.                                      *)

\* Whom the overdue tasks call for, active or not.
Asked(time) == UNION {retailEscalationRecipients(RowOf(p), time) : p \in Overdue(time)}

\* Whom the tasks a tick has not come to call for.
Ahead(t) == UNION {retailEscalationRecipients(row, tx[t].at) : row \in tx[t].todo}

\* A tick that can commit has done nothing the present state does not call for,
\* and what this calls for is delivered, done or still ahead.
Exact(t) ==
    /\ tx[t].todo \subseteq {RowOf(p) : p \in Overdue(tx[t].at)}
    /\ tx[t].pending \subseteq Asked(tx[t].at)
    /\ tx[t].insert \cup tx[t].rows \subseteq CalledFor(tx[t].at)
    /\ CalledFor(tx[t].at)
         \subseteq deliveries \cup tx[t].rows \cup tx[t].insert \cup tx[t].pending \cup Ahead(t)
CanCommit(t) == isolation = "Serializable" /\ tx[t] # Idle /\ ~tx[t].stale
Current(t) == CanCommit(t) => Exact(t)

\* Those called for are those asked for whose account is active.
LEMMA CalledAreAsked ==
  ASSUME NEW time
  PROVE  CalledFor(time) = {k \in Asked(time) : k[3] \in enabled}
BY DEF CalledFor, Asked

\* It stays so as long as the tick and what it looks at stay as they are.
LEMMA StaysCurrent ==
  ASSUME NEW t \in Ticks, Current(t), tx'[t] = tx[t],
         UNCHANGED <<isolation, world, deliveries>>
  PROVE  Current(t)'
BY DEF Current, CanCommit, Exact, Ahead, Asked, CalledFor, retailEscalationRecipients, RowOf,
   ManagerOf, Overdue, world

\* A tick that is outdated or undone has nothing to keep to.
LEMMA OutdatedIsCurrent ==
  ASSUME NEW txs \in [Ticks -> Tx], tx' = Outdate(txs, Ticks), UNCHANGED isolation
  PROVE  \A t \in Ticks : Current(t)'
<1> SUFFICES ASSUME NEW t \in Ticks, CanCommit(t)' PROVE FALSE
  BY DEF Current
<1>1. isolation = "Serializable" /\ tx'[t] # Idle /\ ~tx'[t].stale
  BY DEF CanCommit
<1>2. tx'[t] = [txs[t] EXCEPT !.stale = TRUE] \/ tx'[t] = Idle
  BY <1>1 DEF Outdate
<1>3. [txs[t] EXCEPT !.stale = TRUE].stale
  BY DEF Tx
<1> QED
  BY <1>1, <1>2, <1>3

\* A step of a tick leaves the others what they are.
LEMMA OwnStepCurrent ==
  ASSUME IInv, \A u \in Ticks : Current(u), NEW t \in Ticks, NEW new,
         tx' = [tx EXCEPT ![t] = new],
         UNCHANGED <<isolation, now, world, deliveries, notified, changes>>,
         Current(t)'
  PROVE  \A u \in Ticks : Current(u)'
<1>1. ASSUME NEW u \in Ticks, u # t PROVE Current(u)'
  <2>1. tx'[u] = tx[u]
    BY <1>1 DEF IInv, TypeOK
  <2> QED
    BY <2>1, StaysCurrent
<1> QED
  BY <1>1

\* Giving up leaves nothing to keep to.
LEMMA CloseCurrent ==
  ASSUME IInv, \A u \in Ticks : Current(u), NEW t \in Ticks, Close(t),
         UNCHANGED <<isolation, now, world, deliveries, notified, changes>>
  PROVE  \A u \in Ticks : Current(u)'
<1>1. tx'[t] = Idle
  BY DEF Close, IInv, TypeOK
<1>2. Current(t)'
  BY <1>1 DEF Current, CanCommit
<1> QED
  BY <1>2, OwnStepCurrent DEF Close

\* At its start everything is ahead of a tick.
LEMMA TickStartCurrent ==
  ASSUME IInv, \A u \in Ticks : Current(u), NEW t \in Ticks, TickStart(t)
  PROVE  \A u \in Ticks : Current(u)'
<1> DEFINE new == [Idle EXCEPT !.at = now, !.todo = {RowOf(p) : p \in Overdue(now)}]
<1>1. /\ new.at = now /\ new.todo = {RowOf(p) : p \in Overdue(now)}
      /\ new.pending = {} /\ new.insert = {} /\ new.rows = {}
  BY DEF Idle
<1>2. tx' = [tx EXCEPT ![t] = new] /\ tx'[t] = new
  BY DEF TickStart, IInv, TypeOK
<1> HIDE DEF new
<1>3. UNCHANGED <<isolation, now, world, deliveries, notified, changes>>
  BY DEF TickStart
<1>4. UNCHANGED <<task, manager, areaAdmins, enabled>>
  BY <1>3 DEF world
<1>5. /\ Overdue(now)' = Overdue(now)
      /\ \A p \in Overdue(now) : RowOf(p)' = RowOf(p)
  BY <1>3, <1>4 DEF Overdue, RowOf
<1>6. Ahead(t)' = Asked(now)'
  BY <1>1, <1>2, <1>3, <1>5 DEF Ahead, Asked
<1>7. CalledFor(now)' \subseteq Asked(now)'
  BY DEF CalledFor, Asked
<1>8. Exact(t)'
  BY <1>1, <1>2, <1>3, <1>5, <1>6, <1>7 DEF Exact
<1> QED
  BY <1>2, <1>3, <1>8, OwnStepCurrent DEF Current

\* A task's recipients are pending when it is no longer ahead.
LEMMA TickTaskCurrent ==
  ASSUME IInv, \A u \in Ticks : Current(u), NEW t \in Ticks, TickTask(t)
  PROVE  \A u \in Ticks : Current(u)'
<1>1. PICK row \in tx[t].todo :
        tx' = [tx EXCEPT ![t].todo = @ \ {row},
                         ![t].pending = retailEscalationRecipients(row, tx[t].at)]
  BY DEF TickTask
<1> DEFINE new == [tx[t] EXCEPT !.todo = @ \ {row},
                     !.pending = retailEscalationRecipients(row, tx[t].at)]
<1>2. tx[t] \in Tx
  BY DEF IInv, TypeOK
<1>3. /\ new.at = tx[t].at /\ new.todo = tx[t].todo \ {row}
      /\ new.pending = retailEscalationRecipients(row, tx[t].at)
      /\ new.insert = tx[t].insert /\ new.rows = tx[t].rows /\ new.stale = tx[t].stale
  BY <1>2 DEF Tx
<1>4. tx' = [tx EXCEPT ![t] = new] /\ tx'[t] = new
  BY <1>1 DEF IInv, TypeOK
<1> HIDE DEF new
<1>5. /\ tx[t].pending = {} /\ tx[t].insert = {}
      /\ UNCHANGED <<isolation, now, world, deliveries, notified, changes>>
  BY DEF TickTask
<1>6. ASSUME CanCommit(t)' PROVE Exact(t)'
  <2>1. tx[t] # Idle
    BY <1>1 DEF Idle
  <2>2. Exact(t)
    BY <1>3, <1>4, <1>5, <1>6, <2>1 DEF Current, CanCommit
  <2>3. \A time : UNCHANGED <<CalledFor(time), Asked(time)>>
    BY <1>5 DEF CalledFor, Asked, retailEscalationRecipients, RowOf, ManagerOf, Overdue, world
  <2>4. UNCHANGED {RowOf(p) : p \in Overdue(tx[t].at)}
    BY <1>3, <1>4, <1>5 DEF RowOf, Overdue, world
  <2>5. tx'[t].at = tx[t].at
    BY <1>3, <1>4
  <2>6. ASSUME NEW r
        PROVE  retailEscalationRecipients(r, tx[t].at)' = retailEscalationRecipients(r, tx[t].at)
    <3>1. UNCHANGED <<manager, areaAdmins, ManagerOf(r), tx[t].at>>
      BY <1>5, <2>5 DEF world, ManagerOf
    <3> QED
      BY <3>1 DEF retailEscalationRecipients
  <2>7. Ahead(t) = tx'[t].pending \cup Ahead(t)'
    <3>1. tx'[t].todo = tx[t].todo \ {row}
      BY <1>3, <1>4
    <3>2. tx'[t].pending = retailEscalationRecipients(row, tx[t].at)
      BY <1>3, <1>4
    <3> QED
      BY <2>6, <3>1, <3>2, Zenon DEF Ahead
  <2>8. retailEscalationRecipients(row, tx[t].at) \subseteq Asked(tx[t].at)
    BY <2>2 DEF Exact, Asked
  <2> QED
    BY <1>3, <1>4, <1>5, <2>2, <2>3, <2>4, <2>7, <2>8 DEF Exact
<1> QED
  BY <1>4, <1>5, <1>6, OwnStepCurrent DEF Current

\* What a tick has of an escalation, and what of it is called for, is decided by
\* the state it began with.
LEMMA StepCurrent ==
  ASSUME IInv, \A u \in Ticks : Current(u), NEW t \in Ticks, NEW new \in Tx, tx[t] # Idle,
         tx' = [tx EXCEPT ![t] = new],
         UNCHANGED <<isolation, now, world, deliveries, notified, changes>>,
         new.at = tx[t].at, new.todo = tx[t].todo, new.stale = tx[t].stale,
         new.pending \subseteq tx[t].pending,
         CanCommit(t) => /\ new.insert \cup new.rows \subseteq CalledFor(tx[t].at)
                         /\ \A k \in CalledFor(tx[t].at) \cap (tx[t].pending \cup tx[t].insert) :
                              k \in deliveries \cup new.rows \cup new.insert \cup new.pending,
         tx[t].rows \subseteq new.rows
  PROVE  \A u \in Ticks : Current(u)'
<1>1. tx'[t] = new
  BY DEF IInv, TypeOK
<1>2. ASSUME CanCommit(t)' PROVE Exact(t)'
  <2>1. CanCommit(t) /\ Exact(t)
    BY <1>1, <1>2 DEF Current, CanCommit
  <2>2. \A time : UNCHANGED <<CalledFor(time), Asked(time)>>
    BY DEF CalledFor, Asked, retailEscalationRecipients, RowOf, ManagerOf, Overdue, world
  <2>3. UNCHANGED {RowOf(p) : p \in Overdue(tx[t].at)}
    BY <1>1 DEF RowOf, Overdue, world
  <2>4. ASSUME NEW r
        PROVE  retailEscalationRecipients(r, tx[t].at)' = retailEscalationRecipients(r, tx[t].at)
    <3>1. UNCHANGED <<manager, areaAdmins, ManagerOf(r), tx[t].at>>
      BY <1>1 DEF world, ManagerOf
    <3> QED
      BY <3>1 DEF retailEscalationRecipients
  <2>5. Ahead(t)' = Ahead(t)
    BY <1>1, <2>4, Zenon DEF Ahead
  <2> QED
    BY <1>1, <2>1, <2>2, <2>3, <2>5 DEF Exact
<1> QED
  BY <1>1, <1>2, OwnStepCurrent DEF Current

\* An escalation is passed over if it is delivered or not called for.
LEMMA TickCheckCurrent ==
  ASSUME IInv, \A u \in Ticks : Current(u), NEW t \in Ticks, TickCheck(t)
  PROVE  \A u \in Ticks : Current(u)'
<1>1. PICK k \in tx[t].pending :
        tx' = [tx EXCEPT ![t].pending = @ \ {k},
                 ![t].insert = IF k \notin deliveries \cup tx[t].rows
                                    /\ k[3] \in enabled THEN {k} ELSE {}]
  BY DEF TickCheck
<1> DEFINE chosen == IF k \notin deliveries \cup tx[t].rows /\ k[3] \in enabled
                     THEN {k} ELSE {}
           new == [tx[t] EXCEPT !.pending = @ \ {k}, !.insert = chosen]
<1>2. tx[t] \in Tx /\ k \in Key /\ tx[t] # Idle
  BY <1>1 DEF IInv, TypeOK, Tx, Idle
<1>3. chosen \in SUBSET Key
  BY <1>2
<1> HIDE DEF chosen
<1>4. /\ new \in Tx /\ new.at = tx[t].at /\ new.todo = tx[t].todo /\ new.stale = tx[t].stale
      /\ new.pending = tx[t].pending \ {k} /\ new.insert = chosen /\ new.rows = tx[t].rows
  BY <1>2, <1>3 DEF Tx
<1>5. tx' = [tx EXCEPT ![t] = new]
  BY <1>1 DEF IInv, TypeOK, chosen
<1> HIDE DEF new
<1>6. /\ tx[t].insert = {}
      /\ UNCHANGED <<isolation, now, world, deliveries, notified, changes>>
  BY DEF TickCheck
<1>7. ASSUME CanCommit(t)
      PROVE  /\ chosen \subseteq CalledFor(tx[t].at) /\ tx[t].rows \subseteq CalledFor(tx[t].at)
             /\ k \in CalledFor(tx[t].at) => k \in deliveries \cup tx[t].rows \cup chosen
  <2>1. tx[t].rows \subseteq CalledFor(tx[t].at) /\ k \in Asked(tx[t].at)
    BY <1>7 DEF Current, Exact
  <2>2. k \in CalledFor(tx[t].at) <=> k[3] \in enabled
    BY <2>1, CalledAreAsked
  <2> QED
    BY <2>1, <2>2 DEF chosen
<1> QED
  BY <1>2, <1>4, <1>5, <1>6, <1>7, StepCurrent

\* What is inserted becomes a row, or the tick is undone.
LEMMA TickInsertCurrent ==
  ASSUME IInv, \A u \in Ticks : Current(u), NEW t \in Ticks, TickInsert(t)
  PROVE  \A u \in Ticks : Current(u)'
<1>1. CASE tx[t].stale \/ tx[t].insert \subseteq deliveries
  BY <1>1, CloseCurrent DEF TickInsert
<1>2. CASE ~(tx[t].stale \/ tx[t].insert \subseteq deliveries)
  <2> DEFINE new == [tx[t] EXCEPT !.insert = {}, !.rows = @ \cup tx[t].insert]
  <2>1. tx[t] \in Tx /\ tx[t] # Idle
    BY DEF TickInsert, IInv, TypeOK, Idle
  <2>2. /\ new \in Tx /\ new.at = tx[t].at /\ new.todo = tx[t].todo /\ new.stale = tx[t].stale
        /\ new.pending = tx[t].pending /\ new.insert = {}
        /\ new.rows = tx[t].rows \cup tx[t].insert
    BY <2>1 DEF Tx
  <2>3. tx' = [tx EXCEPT ![t] = new]
    BY <1>2 DEF TickInsert, IInv, TypeOK
  <2>4. UNCHANGED <<isolation, now, world, deliveries, notified, changes>>
    BY DEF TickInsert
  <2> HIDE DEF new
  <2>5. CanCommit(t) => tx[t].insert \cup tx[t].rows \subseteq CalledFor(tx[t].at)
    BY DEF Current, Exact
  <2> QED
    BY <2>1, <2>2, <2>3, <2>4, <2>5, StepCurrent
<1> QED
  BY <1>1, <1>2

\* A commit that delivers something outdates the others; one that delivers
\* nothing leaves them what they are.
LEMMA TickCommitCurrent ==
  ASSUME IInv, \A u \in Ticks : Current(u), NEW t \in Ticks, TickCommit(t)
  PROVE  \A u \in Ticks : Current(u)'
<1> DEFINE sent == IF tx[t].stale THEN {} ELSE tx[t].rows
           closed == [tx EXCEPT ![t] = Idle]
<1>1. /\ deliveries' = deliveries \cup sent
      /\ tx' = IF sent = {} THEN closed ELSE Outdate(closed, Ticks)
      /\ UNCHANGED <<isolation, now, world, changes>>
  BY DEF TickCommit
<1>2. closed \in [Ticks -> Tx] /\ closed[t] = Idle /\ \A u \in Ticks \ {t} : closed[u] = tx[u]
  BY IdleTyped DEF IInv, TypeOK
<1> HIDE DEF sent, closed
<1>3. CASE sent # {}
  BY <1>1, <1>2, <1>3, OutdatedIsCurrent
<1>4. CASE sent = {}
  <2>1. deliveries' = deliveries /\ tx' = closed
    BY <1>1, <1>4
  <2>2. ASSUME NEW u \in Ticks, u # t PROVE Current(u)'
    BY <1>1, <1>2, <2>1, <2>2, StaysCurrent
  <2>3. Current(t)'
    BY <1>2, <2>1 DEF Current, CanCommit
  <2> QED
    BY <2>2, <2>3
<1> QED
  BY <1>3, <1>4

\* A tick that ends without being outdated has delivered what is called for.
LEMMA CommitIsExact ==
  ASSUME IInv, NEW t \in Ticks, Current(t), TickCommit(t)
  PROVE  TickIsExact(t)
<1> SUFFICES ASSUME isolation = "Serializable", ~tx[t].stale
             PROVE  deliveries' = deliveries \cup CalledFor(tx[t].at)
  BY DEF TickIsExact
<1>1. tx[t] # Idle /\ tx[t].todo = {} /\ tx[t].pending = {} /\ tx[t].insert = {}
  BY DEF TickCommit, Finished
<1>2. deliveries' = deliveries \cup tx[t].rows
  BY DEF TickCommit
<1>3. Exact(t)
  BY <1>1 DEF Current, CanCommit
<1>4. Ahead(t) = {}
  BY <1>1 DEF Ahead
<1> QED
  BY <1>1, <1>2, <1>3, <1>4 DEF Exact

\* Every step keeps ticks to the state they will commit in.
LEMMA NextCurrent ==
  IInv /\ (\A u \in Ticks : Current(u)) /\ [Next]_vars => \A u \in Ticks : Current(u)'
<1> SUFFICES ASSUME IInv, \A u \in Ticks : Current(u), [Next]_vars
             PROVE  \A u \in Ticks : Current(u)'
  OBVIOUS
<1>1. ASSUME NEW t \in Ticks, Tick(t) PROVE \A u \in Ticks : Current(u)'
  BY <1>1, TickStartCurrent, TickTaskCurrent, TickCheckCurrent, TickInsertCurrent,
     TickCommitCurrent, CloseCurrent DEF Tick, DeadlockVictim
<1>2. ASSUME NEW kind, Edit(kind) PROVE \A u \in Ticks : Current(u)'
  BY <1>2, OutdatedIsCurrent DEF Edit, IInv, TypeOK
<1>3. CASE Crash
  BY <1>3 DEF Crash, Current, CanCommit
<1>4. CASE Advance
  BY <1>4, StaysCurrent DEF Advance
<1>5. CASE UNCHANGED vars
  BY <1>5, StaysCurrent DEF vars
<1> QED
  BY <1>1, <1>2, <1>3, <1>4, <1>5
     DEF Next, SetOpen, Redate, Reassign, SetManager, SetAreaAdmin, SetAccount

\* On a serializable database a tick delivers what its commit's state calls for at
\* the tick's time, all of it and nothing else, whatever was edited while
\* sendRetailEscalationsAt ran and however ticks overlap.
THEOREM TicksDeliverExactly == Spec => TicksAreExact
<1> DEFINE Inv == IInv /\ \A u \in Ticks : Current(u)
<1>1. Init => Inv
  BY InitEstablishes DEF Init, Current, CanCommit
<1>2. Inv /\ [Next]_vars => Inv'
  BY NextKeeps, NextCurrent
<1>3. Inv /\ [Next]_vars => [\A t \in Ticks : TickCommit(t) => TickIsExact(t)]_vars
  BY CommitIsExact
<1> QED
  BY <1>1, <1>2, <1>3, PTL DEF Spec, TicksAreExact

=============================================================================
