------------------------ MODULE RetailMembershipProofs ------------------------
(***************************************************************************)
(* Memberships, teams, managers and units agree on a serializable          *)
(* database, for any units, users and requests.  The argument: what an     *)
(* open transaction has read is still so when it commits, because any      *)
(* other commit dooms it and the passing of time makes only those          *)
(* memberships end that are no longer asked about.  So each commit may be  *)
(* taken for an operation on the rows as they are.                         *)
(***************************************************************************)
EXTENDS RetailMembership, TLAPS

\* What a request in flight has read is still so.
FreshRequest(r) ==
    LET k == tx[r].unit  u == tx[r].user  row == tx[r].row
    IN  /\ tx[r].op # "none" => k \in Units
        /\ tx[r].op \in {"createUnit", "create", "update", "delete"} =>
              u \in Users /\ tx[r].role = team[k][u]
        /\ tx[r].op \in {"createUnit", "create", "update"} =>
              /\ row \in Membership
              /\ row.manager # NoUser => row.manager # u /\ Member(k, row.manager)
        /\ tx[r].op = "createUnit" =>
              /\ row.active /\ row.manager = NoUser
              /\ Parent[k] # NoUnit => Live(Parent[k])
        /\ tx[r].op = "deleteUnit" => \A c \in Units : Parent[c] = k => ~Live(c)
        /\ tx[r].op = "create" => row.active /\ ~Member(k, u) /\ u \in accounts
        /\ tx[r].op = "update" => KeepsAdmin(k, u, tx[r].admin /\ row.active)
        /\ tx[r].op = "delete" => KeepsAdmin(k, u, FALSE)

\* So is what the expiry has listed.
FreshCron ==
    cron.pc = "read" =>
        /\ \A p \in cron.gone : Active(p[1], p[2]) /\ Ended(p[1], p[2])
        /\ MayGo(cron.gone)

Agreement ==
    TeamMirrorsMembership /\ UnitsKeepAdmin /\ HierarchyIntact /\ ManagersBelong

SafetyInv ==
    TypeOK /\ (\A r \in Requests : FreshRequest(r)) /\ FreshCron /\ Agreement

-----------------------------------------------------------------------------
(* Types *)

\* Changing a field of a row leaves a row with the other fields as they were.
LEMMA RowChanges ==
  ASSUME NEW m \in Membership
  PROVE  /\ m # NoMembership
         /\ LET n == [m EXCEPT !.primary = FALSE]
            IN  n \in Membership /\ n.active = m.active /\ n.ends = m.ends /\ n.manager = m.manager
         /\ LET n == [m EXCEPT !.manager = NoUser]
            IN  n \in Membership /\ n.active = m.active /\ n.ends = m.ends /\ n.manager = NoUser
         /\ LET n == [m EXCEPT !.active = FALSE]
            IN  n \in Membership /\ n.active = FALSE /\ n.ends = m.ends /\ n.manager = m.manager
         /\ LET n == [m EXCEPT !.ends = "past"]
            IN  n \in Membership /\ n.active = m.active /\ n.ends = "past" /\ n.manager = m.manager
  BY MembershipAssumption DEF Membership

LEMMA IdleTyped == Idle \in Tx /\ Sleeping \in [pc: {"idle", "read"}, gone: SUBSET Pair]
  BY DEF Idle, Tx, Role, Sleeping

\* What a membership may be given is a membership.
LEMMA InputTyped ==
  ASSUME NEW k, NEW u, NEW m \in MembershipInput(k, u)
  PROVE  m \in Membership /\ ValidManager(k, u, m.manager)
  BY ChoicesAssumption DEF MembershipInput, Membership

\* A request in flight has read something of its kind.
LEMMA ReadTyped ==
  ASSUME TypeOK, NEW r \in Requests, NEW op \in Op, NEW k \in Units,
         NEW u \in Users \cup {NoUser}, NEW row \in Membership \cup {NoMembership},
         NEW admin \in BOOLEAN, Read(r, op, k, u, row, admin)
  PROVE  TypeOK'
  <1> DEFINE role == IF u = NoUser THEN "none" ELSE team[k][u]
             new == [op |-> op, unit |-> k, user |-> u, row |-> row, admin |-> admin, role |-> role]
  <1>1. role \in Role
    BY DEF TypeOK, Role
  <1> HIDE DEF role
  <1>2. new \in Tx
    BY <1>1 DEF Tx
  <1>3. tx' = [tx EXCEPT ![r] = new] /\ UNCHANGED <<accounts, unit, membership, team, cron>>
    BY DEF Read, role
  <1> HIDE DEF new
  <1>4. QED
    BY <1>2, <1>3 DEF TypeOK

LEMMA CommitTyped ==
  ASSUME TypeOK, NEW r \in Requests, Commit(r)
  PROVE  tx' \in [Requests -> Tx] /\ cron' \in [pc: {"idle", "read"}, gone: SUBSET Pair]
  BY IdleTyped DEF TypeOK, Commit, Outdate, OutdateCron

\* What is written to the tables is of their types.
LEMMA SyncedTyped ==
  ASSUME TypeOK, NEW k \in Units, NEW u \in Users, NEW was, NEW active, NEW admin
  PROVE  Synced(k, u, was, active, admin) \in Role
  <1>1. team[k][u] \in Role /\ "admin" \in Role /\ "member" \in Role /\ "none" \in Role
    BY DEF TypeOK, Role
  <1>2. Synced(k, u, was, active, admin) \in {"admin", "member", "none", team[k][u]}
    BY DEF Synced
  <1>3. QED
    BY <1>1, <1>2

LEMMA WithPrimaryTyped ==
  ASSUME TypeOK, NEW k, NEW u, NEW row \in Membership \cup {NoMembership}
  PROVE  WithPrimary(k, u, row) \in [Units -> [Users -> Membership \cup {NoMembership}]]
  <1> DEFINE new(x, v) == IF x = k /\ v = u THEN row
                          ELSE IF v = u /\ row.primary /\ Member(x, v)
                               THEN [membership[x][v] EXCEPT !.primary = FALSE]
                               ELSE membership[x][v]
  <1>1. ASSUME NEW x \in Units, NEW v \in Users
        PROVE  new(x, v) \in Membership \cup {NoMembership}
    <2>1. membership[x][v] \in Membership \cup {NoMembership}
      BY DEF TypeOK
    <2>2. Member(x, v) => [membership[x][v] EXCEPT !.primary = FALSE] \in Membership
      BY <2>1, RowChanges DEF Member
    <2>3. QED
      BY <2>1, <2>2, Zenon
  <1>2. WithPrimary(k, u, row) = [x \in Units |-> [v \in Users |-> new(x, v)]]
    BY DEF WithPrimary
  <1> HIDE DEF new
  <1>3. QED
    BY <1>1, <1>2

LEMMA TypeStep == TypeOK /\ [Next]_vars => TypeOK'
  <1> SUFFICES ASSUME TypeOK, [Next]_vars PROVE TypeOK'
    OBVIOUS
  <1> USE DEF Op
  <1>1. ASSUME NEW r \in Requests, NEW u \in accounts, CreateUnitRead(r, u) PROVE TypeOK'
    <2>1. PICK k \in Units : Read(r, "createUnit", k, u,
                [active |-> TRUE, ends |-> "never", manager |-> NoUser,
                 primary |-> Parent[k] = NoUnit], TRUE)
      BY <1>1 DEF CreateUnitRead
    <2>2. [active |-> TRUE, ends |-> "never", manager |-> NoUser,
           primary |-> Parent[k] = NoUnit] \in Membership /\ u \in Users
      BY DEF Membership, TypeOK
    <2>3. QED
      BY <2>1, <2>2, ReadTyped
  <1>2. ASSUME NEW r \in Requests, DeleteUnitRead(r) PROVE TypeOK'
    BY <1>2, ReadTyped DEF DeleteUnitRead
  <1>3. ASSUME NEW r \in Requests, CreateRead(r) \/ UpdateRead(r) PROVE TypeOK'
    <2>1. PICK op \in {"create", "update"}, k \in Units, u \in accounts, admin \in BOOLEAN :
            \E m \in MembershipInput(k, u) : Read(r, op, k, u, m, admin)
      BY <1>3 DEF CreateRead, UpdateRead
    <2>2. u \in Users
      BY DEF TypeOK
    <2>3. QED
      BY <2>1, <2>2, InputTyped, ReadTyped
  <1>4. ASSUME NEW r \in Requests, DeleteRead(r) PROVE TypeOK'
    <2>1. PICK k \in Units, u \in accounts : Read(r, "delete", k, u, NoMembership, FALSE)
      BY <1>4 DEF DeleteRead
    <2>2. u \in Users
      BY DEF TypeOK
    <2>3. QED
      BY <2>1, <2>2, ReadTyped
  <1>5. ASSUME NEW r \in Requests, CreateUnitCommit(r) PROVE TypeOK'
    <2>1. tx[r] \in Tx /\ UNCHANGED accounts /\ Commit(r)
      BY <1>5 DEF TypeOK, CreateUnitCommit
    <2>2. tx[r].row \in Membership \cup {NoMembership} /\ "admin" \in Role
      BY <2>1 DEF Tx, Role
    <2>3. /\ unit' \in [Units -> {"absent", "live", "deleted"}]
          /\ membership' \in [Units -> [Users -> Membership \cup {NoMembership}]]
          /\ team' \in [Units -> [Users -> Role]]
      BY <1>5, <2>2 DEF TypeOK, CreateUnitCommit
    <2>4. QED
      BY <2>1, <2>3, CommitTyped DEF TypeOK
  <1>6. ASSUME NEW r \in Requests, DeleteUnitCommit(r) PROVE TypeOK'
    <2>1. /\ unit' \in [Units -> {"absent", "live", "deleted"}]
          /\ membership' \in [Units -> [Users -> Membership \cup {NoMembership}]]
          /\ team' \in [Units -> [Users -> Role]]
          /\ UNCHANGED accounts /\ Commit(r)
      BY <1>6 DEF TypeOK, DeleteUnitCommit, Role
    <2>2. QED
      BY <2>1, CommitTyped DEF TypeOK
  <1>7. ASSUME NEW r \in Requests, WriteCommit(r) PROVE TypeOK'
    <2>1. tx[r] \in Tx /\ tx[r].row \in Membership \cup {NoMembership}
      BY DEF TypeOK, Tx
    <2>2. membership' \in [Units -> [Users -> Membership \cup {NoMembership}]]
      BY <1>7, <2>1, WithPrimaryTyped DEF WriteCommit
    <2>3. team' \in [Units -> [Users -> Role]] /\ UNCHANGED <<accounts, unit>> /\ Commit(r)
      BY <1>7, SyncedTyped DEF WriteCommit, TypeOK
    <2>4. QED
      BY <2>2, <2>3, CommitTyped DEF TypeOK
  <1>8. ASSUME NEW r \in Requests, DeleteCommit(r) PROVE TypeOK'
    <2> DEFINE k == tx[r].unit
               new(v) == IF v = tx[r].user THEN NoMembership
                         ELSE IF Member(k, v) /\ membership[k][v].manager = tx[r].user
                              THEN [membership[k][v] EXCEPT !.manager = NoUser]
                              ELSE membership[k][v]
    <2>1. ASSUME k \in Units, NEW v \in Users
          PROVE  new(v) \in Membership \cup {NoMembership}
      <3>1. membership[k][v] \in Membership \cup {NoMembership}
        BY <2>1 DEF TypeOK
      <3>2. Member(k, v) => [membership[k][v] EXCEPT !.manager = NoUser] \in Membership
        BY <3>1, RowChanges DEF Member
      <3>3. QED
        BY <3>1, <3>2, Zenon
    <2>2. membership' \in [Units -> [Users -> Membership \cup {NoMembership}]]
      <3>1. membership' = [membership EXCEPT ![k] = [v \in Users |-> new(v)]]
        BY <1>8 DEF DeleteCommit
      <3> HIDE DEF k, new
      <3>2. QED
        BY <2>1, <3>1 DEF TypeOK
    <2>3. team' \in [Units -> [Users -> Role]] /\ UNCHANGED <<accounts, unit>> /\ Commit(r)
      BY <1>8, SyncedTyped DEF DeleteCommit, TypeOK
    <2>4. QED
      BY <2>2, <2>3, CommitTyped DEF TypeOK
  <1>9. ASSUME NEW r \in Requests, Rollback(r) PROVE TypeOK'
    BY <1>9, IdleTyped DEF Rollback, TypeOK
  <1>10. CASE CronRead
    <2>1. PICK gone \in SUBSET Due : cron' = [pc |-> "read", gone |-> gone]
      BY <1>10 DEF CronRead
    <2>2. cron' \in [pc: {"idle", "read"}, gone: SUBSET Pair]
      BY <2>1 DEF Due
    <2>3. QED
      BY <1>10, <2>2 DEF CronRead, TypeOK
  <1>11. CASE CronCommit
    <2> DEFINE new(k, u) == IF <<k, u>> \in cron.gone /\ Member(k, u)
                            THEN [membership[k][u] EXCEPT !.active = FALSE]
                            ELSE membership[k][u]
    <2>1. ASSUME NEW k \in Units, NEW u \in Users
          PROVE  new(k, u) \in Membership \cup {NoMembership}
      <3>1. membership[k][u] \in Membership \cup {NoMembership}
        BY DEF TypeOK
      <3>2. Member(k, u) => [membership[k][u] EXCEPT !.active = FALSE] \in Membership
        BY <3>1, RowChanges DEF Member
      <3>3. QED
        BY <3>1, <3>2, Zenon
    <2>2. membership' \in [Units -> [Users -> Membership \cup {NoMembership}]]
      <3>1. membership' = [k \in Units |-> [u \in Users |-> new(k, u)]]
        BY <1>11 DEF CronCommit
      <3> HIDE DEF new
      <3>2. QED
        BY <2>1, <3>1
    <2>3. team' \in [Units -> [Users -> Role]]
      BY <1>11 DEF TypeOK, CronCommit, Role
    <2>4. tx' \in [Requests -> Tx] /\ cron' = Sleeping /\ UNCHANGED <<accounts, unit>>
      BY <1>11, IdleTyped DEF TypeOK, CronCommit, Outdate
    <2>5. QED
      BY <2>2, <2>3, <2>4, IdleTyped DEF TypeOK
  <1>12. ASSUME NEW u \in Leavers, DeleteUser(u) PROVE TypeOK'
    <2>1. team' \in [Units -> [Users -> Role]] /\ accounts' \subseteq Users
      BY <1>12 DEF TypeOK, DeleteUser, Role
    <2>2. tx' \in [Requests -> Tx] /\ cron' \in [pc: {"idle", "read"}, gone: SUBSET Pair]
      BY <1>12, IdleTyped DEF TypeOK, DeleteUser, Outdate, OutdateCron
    <2>3. QED
      BY <1>12, <2>1, <2>2 DEF TypeOK, DeleteUser
  <1>13. ASSUME NEW k \in Units, NEW u \in Users, Elapse(k, u) PROVE TypeOK'
    <2> DEFINE new == [membership[k][u] EXCEPT !.ends = "past"]
    <2>1. new \in Membership
      <3>1. membership[k][u] \in Membership
        BY <1>13 DEF TypeOK, Elapse, Member
      <3>2. QED
        BY <3>1, RowChanges, Zenon
    <2>2. membership' \in [Units -> [Users -> Membership \cup {NoMembership}]]
      <3>1. membership' = [membership EXCEPT ![k][u] = new]
        BY <1>13 DEF Elapse
      <3> HIDE DEF new
      <3>2. QED
        BY <2>1, <3>1 DEF TypeOK
    <2>3. QED
      BY <1>13, <2>2 DEF TypeOK, Elapse
  <1>14. CASE UNCHANGED vars
    BY <1>14 DEF TypeOK, vars
  <1>15. QED
    BY <1>1, <1>2, <1>3, <1>4, <1>5, <1>6, <1>7, <1>8, <1>9, <1>10, <1>11, <1>12, <1>13,
       <1>14 DEF Next, RequestStep

LEMMA TypeInit == Init => TypeOK
  BY IdleTyped DEF Init, TypeOK, Role

\* The rows, teams and transactions keep their types, on either database.
THEOREM TypeCorrect == Spec => []TypeOK
  BY TypeInit, TypeStep, PTL DEF Spec

-----------------------------------------------------------------------------
(* Reads and rollbacks *)

\* What nobody has changed is as fresh as it was.
LEMMA TablesStay ==
  ASSUME SafetyInv, UNCHANGED <<accounts, unit, membership, team>>
  PROVE  /\ Agreement'
         /\ \A r \in Requests : tx'[r] = tx[r] => FreshRequest(r)'
         /\ cron' = cron => FreshCron'
  <1>1. Agreement'
    BY DEF SafetyInv, Agreement, TeamMirrorsMembership, UnitsKeepAdmin, HierarchyIntact,
           ManagersBelong, Live, Member, Active, Admins
  <1>2. ASSUME NEW r \in Requests, tx'[r] = tx[r] PROVE FreshRequest(r)'
    <2>1. FreshRequest(r)
      BY DEF SafetyInv
    <2>2. QED
      BY <1>2, <2>1 DEF FreshRequest, Live, Member, KeepsAdmin, Admins
  <1>3. ASSUME cron' = cron PROVE FreshCron'
    BY <1>3 DEF SafetyInv, FreshCron, Active, Ended, Member, MayGo, Admins
  <1>4. QED
    BY <1>1, <1>2, <1>3

LEMMA IdleIsFresh == ASSUME NEW r \in Requests, tx'[r] = Idle PROVE FreshRequest(r)'
  BY DEF FreshRequest, Idle

\* A request reads what it will need.
LEMMA ReadIsFresh ==
  ASSUME SafetyInv, NEW r \in Requests, NEW op, NEW k \in Units, NEW u, NEW row, NEW admin,
         Read(r, op, k, u, row, admin), FreshRequest(r)'
  PROVE  (\A q \in Requests : FreshRequest(q))' /\ FreshCron' /\ Agreement'
  <1>1. UNCHANGED <<accounts, unit, membership, team>> /\ cron' = cron
    BY DEF Read
  <1>2. ASSUME NEW q \in Requests PROVE FreshRequest(q)'
    <2>1. CASE q = r
      BY <2>1
    <2>2. CASE q # r
      <3>1. tx'[q] = tx[q]
        BY <2>2 DEF Read, SafetyInv, TypeOK
      <3>2. QED
        BY <1>1, <3>1, TablesStay
    <2>3. QED
      BY <2>1, <2>2
  <1>3. QED
    BY <1>1, <1>2, TablesStay

\* The parts of what has been read.
LEMMA ReadHas ==
  ASSUME SafetyInv, NEW r \in Requests, NEW op, NEW k, NEW u, NEW row, NEW admin,
         Read(r, op, k, u, row, admin)
  PROVE  /\ tx'[r].op = op /\ tx'[r].unit = k /\ tx'[r].user = u
         /\ tx'[r].row = row /\ tx'[r].admin = admin
         /\ u \in Users => tx'[r].role = team[k][u]
         /\ UNCHANGED <<accounts, unit, membership, team>>
  BY UsersAssumption DEF Read, SafetyInv, TypeOK

LEMMA ReadStep ==
  ASSUME SafetyInv, NEW r \in Requests,
         \/ \E u \in accounts : CreateUnitRead(r, u)
         \/ DeleteUnitRead(r) \/ CreateRead(r) \/ UpdateRead(r) \/ DeleteRead(r)
  PROVE  (\A q \in Requests : FreshRequest(q))' /\ FreshCron' /\ Agreement'
  <1>0. accounts \subseteq Users
    BY DEF SafetyInv, TypeOK
  <1>1. ASSUME NEW u \in accounts, CreateUnitRead(r, u)
        PROVE  (\A q \in Requests : FreshRequest(q))' /\ FreshCron' /\ Agreement'
    <2> DEFINE own(k) == [active |-> TRUE, ends |-> "never", manager |-> NoUser,
                          primary |-> Parent[k] = NoUnit]
    <2>1. PICK k \in Units : /\ Parent[k] # NoUnit => Live(Parent[k])
                            /\ Read(r, "createUnit", k, u, own(k), TRUE)
      BY <1>1 DEF CreateUnitRead
    <2>2. own(k) \in Membership /\ own(k).active /\ own(k).manager = NoUser
      BY DEF Membership
    <2> HIDE DEF own
    <2>3. u \in Users
      BY <1>0
    <2>4. /\ tx'[r].op = "createUnit" /\ tx'[r].unit = k /\ tx'[r].user = u
          /\ tx'[r].row = own(k) /\ tx'[r].role = team[k][u]
          /\ UNCHANGED <<unit, team>>
      <3> PICK admin : Read(r, "createUnit", k, u, own(k), admin)
        BY <2>1
      <3>1. QED
        BY <2>3, ReadHas
    <2>5. FreshRequest(r)'
      BY <2>2, <2>1, <2>4, <2>3 DEF FreshRequest, Live
    <2>6. QED
      BY <2>1, <2>5, ReadIsFresh
  <1>2. CASE DeleteUnitRead(r)
    <2>1. PICK k \in Units : /\ \A c \in Units : Parent[c] = k => ~Live(c)
                            /\ Read(r, "deleteUnit", k, NoUser, NoMembership, FALSE)
      BY <1>2 DEF DeleteUnitRead
    <2>2. tx'[r].op = "deleteUnit" /\ tx'[r].unit = k /\ UNCHANGED unit
      BY <2>1, ReadHas
    <2>3. FreshRequest(r)'
      BY <2>1, <2>2 DEF FreshRequest, Live
    <2>4. QED
      BY <2>1, <2>3, ReadIsFresh
  <1>3. CASE CreateRead(r)
    <2>1. PICK k \in Units, u \in accounts, admin \in BOOLEAN :
            ~Member(k, u) /\ \E m \in MembershipInput(k, u) :
                m.active /\ Read(r, "create", k, u, m, admin)
      BY <1>3 DEF CreateRead
    <2> PICK m \in MembershipInput(k, u) :
            m.active /\ Read(r, "create", k, u, m, admin)
      BY <2>1
    <2>2. /\ tx'[r].op = "create" /\ tx'[r].unit = k /\ tx'[r].user = u /\ tx'[r].row = m
          /\ u \in Users /\ tx'[r].role = team[k][u]
          /\ UNCHANGED <<accounts, membership, team>>
      BY <1>0, <2>1, ReadHas
    <2>3. m \in Membership /\ (m.manager # NoUser => m.manager # u /\ Member(k, m.manager))
      BY InputTyped DEF ValidManager, Active
    <2>4. FreshRequest(r)'
      BY <2>1, <2>2, <2>3 DEF FreshRequest, Member
    <2>5. QED
      BY <2>1, <2>4, ReadIsFresh
  <1>4. CASE UpdateRead(r)
    <2>1. PICK k \in Units, u \in accounts, admin \in BOOLEAN :
            \E m \in MembershipInput(k, u) :
                KeepsAdmin(k, u, admin /\ m.active) /\ Read(r, "update", k, u, m, admin)
      BY <1>4 DEF UpdateRead
    <2> PICK m \in MembershipInput(k, u) :
            KeepsAdmin(k, u, admin /\ m.active) /\ Read(r, "update", k, u, m, admin)
      BY <2>1
    <2>2. /\ tx'[r].op = "update" /\ tx'[r].unit = k /\ tx'[r].user = u /\ tx'[r].row = m
          /\ tx'[r].admin = admin /\ u \in Users /\ tx'[r].role = team[k][u]
          /\ UNCHANGED <<accounts, membership, team>>
      BY <1>0, <2>1, ReadHas
    <2>3. m \in Membership /\ (m.manager # NoUser => m.manager # u /\ Member(k, m.manager))
      BY InputTyped DEF ValidManager, Active
    <2>4. FreshRequest(r)'
      BY <2>1, <2>2, <2>3 DEF FreshRequest, Member, KeepsAdmin, Admins
    <2>5. QED
      BY <2>1, <2>4, ReadIsFresh
  <1>5. CASE DeleteRead(r)
    <2>1. PICK k \in Units, u \in accounts :
            KeepsAdmin(k, u, FALSE) /\ Read(r, "delete", k, u, NoMembership, FALSE)
      BY <1>5 DEF DeleteRead
    <2>2. u \in Users
      BY <1>0
    <2>3. /\ tx'[r].op = "delete" /\ tx'[r].unit = k /\ tx'[r].user = u
          /\ tx'[r].role = team[k][u] /\ UNCHANGED <<accounts, team>>
      <3> PICK admin : Read(r, "delete", k, u, NoMembership, admin)
        BY <2>1
      <3>1. QED
        BY <2>2, ReadHas
    <2>4. FreshRequest(r)'
      BY <2>1, <2>3, <2>2 DEF FreshRequest, KeepsAdmin, Admins
    <2>5. QED
      BY <2>1, <2>4, ReadIsFresh
  <1>6. QED
    BY <1>1, <1>2, <1>3, <1>4, <1>5

LEMMA RollbackStep ==
  ASSUME SafetyInv, NEW r \in Requests, Rollback(r)
  PROVE  (\A q \in Requests : FreshRequest(q))' /\ FreshCron' /\ Agreement'
  <1>1. UNCHANGED <<accounts, unit, membership, team, cron>>
    BY DEF Rollback
  <1>2. ASSUME NEW q \in Requests PROVE tx'[q] = Idle \/ tx'[q] = tx[q]
    BY DEF Rollback, SafetyInv, TypeOK
  <1>3. QED
    BY <1>1, <1>2, TablesStay, IdleIsFresh

LEMMA CronReadStep ==
  ASSUME SafetyInv, CronRead
  PROVE  (\A q \in Requests : FreshRequest(q))' /\ FreshCron' /\ Agreement'
  <1>1. PICK gone \in SUBSET Due : MayGo(gone) /\ cron' = [pc |-> "read", gone |-> gone]
    BY DEF CronRead
  <1>2. UNCHANGED <<accounts, unit, membership, team, tx>>
    BY DEF CronRead
  <1>3. FreshCron'
    BY <1>1, <1>2 DEF FreshCron, Due, Active, Ended, Member, MayGo, Admins
  <1>4. QED
    BY <1>2, <1>3, TablesStay

-----------------------------------------------------------------------------
(* Commits *)

\* A commit undoes whatever else is open, so that nothing stale is left.
LEMMA CommitDooms ==
  ASSUME Isolation = "Serializable", NEW r, Commit(r)
  PROVE  (\A q \in Requests : FreshRequest(q))' /\ FreshCron'
  <1>1. tx' = [q \in Requests |-> Idle] /\ cron' = Sleeping
    BY DEF Commit, Outdate, OutdateCron
  <1>2. FreshCron'
    BY <1>1 DEF FreshCron, Sleeping
  <1>3. QED
    BY <1>1, <1>2, IdleIsFresh

LEMMA CreateUnitCommitAgrees ==
  ASSUME SafetyInv, NEW r \in Requests, CreateUnitCommit(r) PROVE Agreement'
  <1> DEFINE k == tx[r].unit
             u == tx[r].user
             row == tx[r].row
  <1>1. /\ k \in Units /\ u \in Users /\ row \in Membership /\ row # NoMembership
        /\ row.active /\ row.manager = NoUser
        /\ Parent[k] # NoUnit => Live(Parent[k])
    BY MembershipAssumption DEF SafetyInv, FreshRequest, CreateUnitCommit
  <1>2. /\ unit[k] = "absent" /\ unit' = [unit EXCEPT ![k] = "live"]
        /\ membership' = [membership EXCEPT ![k][u] = row]
        /\ team' = [team EXCEPT ![k][u] = "admin"] /\ UNCHANGED accounts
    BY DEF CreateUnitCommit
  <1> HIDE DEF k, u, row
  <1>3. /\ unit \in [Units -> {"absent", "live", "deleted"}] /\ accounts \subseteq Users
        /\ membership \in [Units -> [Users -> Membership \cup {NoMembership}]]
        /\ team \in [Units -> [Users -> Role]] /\ Agreement
    BY DEF SafetyInv, TypeOK
  <1>4. ASSUME NEW x \in Units, NEW v \in Users
        PROVE  /\ membership'[x][v] = IF x = k /\ v = u THEN row ELSE membership[x][v]
               /\ team'[x][v] = IF x = k /\ v = u THEN "admin" ELSE team[x][v]
               /\ unit'[x] = IF x = k THEN "live" ELSE unit[x]
    BY <1>1, <1>2, <1>3
  <1>5. TeamMirrorsMembership'
    BY <1>1, <1>2, <1>3, <1>4 DEF Agreement, TeamMirrorsMembership, Active, Member
  <1>6. UnitsKeepAdmin'
    BY <1>1, <1>2, <1>3, <1>4 DEF Agreement, UnitsKeepAdmin, Live, Admins
  <1>7. HierarchyIntact'
    BY <1>1, <1>3, <1>4, UnitsAssumption DEF Agreement, HierarchyIntact, Live
  <1>8. ManagersBelong'
    BY <1>1, <1>3, <1>4 DEF Agreement, ManagersBelong, Member, Membership
  <1>9. QED
    BY <1>5, <1>6, <1>7, <1>8 DEF Agreement

LEMMA DeleteUnitCommitAgrees ==
  ASSUME SafetyInv, NEW r \in Requests, DeleteUnitCommit(r) PROVE Agreement'
  <1> DEFINE k == tx[r].unit
  <1>1. k \in Units /\ \A c \in Units : Parent[c] = k => ~Live(c)
    BY DEF SafetyInv, FreshRequest, DeleteUnitCommit
  <1>2. /\ unit' = [unit EXCEPT ![k] = "deleted"]
        /\ membership' = [membership EXCEPT ![k] = [u \in Users |-> NoMembership]]
        /\ team' = [team EXCEPT ![k] = [u \in Users |-> "none"]] /\ UNCHANGED accounts
    BY DEF DeleteUnitCommit
  <1> HIDE DEF k
  <1>3. /\ unit \in [Units -> {"absent", "live", "deleted"}] /\ accounts \subseteq Users
        /\ membership \in [Units -> [Users -> Membership \cup {NoMembership}]]
        /\ team \in [Units -> [Users -> Role]] /\ Agreement
    BY DEF SafetyInv, TypeOK
  <1>4. ASSUME NEW x \in Units, NEW v \in Users
        PROVE  /\ membership'[x][v] = IF x = k THEN NoMembership ELSE membership[x][v]
               /\ team'[x][v] = IF x = k THEN "none" ELSE team[x][v]
    BY <1>1, <1>2, <1>3
  <1>5. ASSUME NEW x \in Units
        PROVE  unit'[x] = IF x = k THEN "deleted" ELSE unit[x]
    BY <1>1, <1>2, <1>3
  <1>6. TeamMirrorsMembership'
    BY <1>2, <1>3, <1>4 DEF Agreement, TeamMirrorsMembership, Active, Member
  <1>7. UnitsKeepAdmin'
    BY <1>2, <1>3, <1>4, <1>5 DEF Agreement, UnitsKeepAdmin, Live, Admins
  <1>8. HierarchyIntact'
    BY <1>1, <1>3, <1>5, UnitsAssumption DEF Agreement, HierarchyIntact, Live
  <1>9. ManagersBelong'
    <2> SUFFICES ASSUME NEW x \in Units, NEW v \in Users, Member(x, v)',
                        membership'[x][v].manager # NoUser
                 PROVE  /\ membership'[x][v].manager # v
                        /\ Member(x, membership[x][v].manager)'
      BY DEF ManagersBelong
    <2>1. x # k
      BY <1>4 DEF Member
    <2>2. membership'[x] = membership[x]
      BY <1>2, <1>3, <2>1
    <2>3. QED
      BY <1>3, <2>2 DEF Agreement, ManagersBelong, Member
  <1>10. QED
    BY <1>6, <1>7, <1>8, <1>9 DEF Agreement

\* A team row that was read is written to follow the membership.
LEMMA SyncedFollows ==
  ASSUME NEW k, NEW u, NEW active \in BOOLEAN, NEW admin \in BOOLEAN
  PROVE  LET new == Synced(k, u, team[k][u], active, admin)
         IN  /\ active => new = IF admin THEN "admin" ELSE "member"
             /\ ~active => new = "none"
  BY DEF Synced

LEMMA WriteCommitAgrees ==
  ASSUME SafetyInv, NEW r \in Requests, WriteCommit(r) PROVE Agreement'
  <1> DEFINE k == tx[r].unit
             u == tx[r].user
             row == tx[r].row
             admin == tx[r].admin
             role == Synced(k, u, team[k][u], row.active, admin)
  <1>1. /\ k \in Units /\ u \in Users /\ row \in Membership /\ row # NoMembership
        /\ row.manager # NoUser => row.manager # u /\ Member(k, row.manager)
        /\ tx[r].role = team[k][u]
    BY MembershipAssumption DEF SafetyInv, FreshRequest, WriteCommit
  <1>2. \/ ~Member(k, u) /\ row.active /\ u \in accounts
        \/ KeepsAdmin(k, u, admin /\ row.active)
    BY DEF SafetyInv, FreshRequest, WriteCommit
  <1>3. /\ membership' = WithPrimary(k, u, row)
        /\ team' = [team EXCEPT ![k][u] = role] /\ UNCHANGED <<accounts, unit>>
    BY <1>1 DEF WriteCommit
  <1>4. admin \in BOOLEAN /\ row.active \in BOOLEAN
    BY <1>1 DEF SafetyInv, TypeOK, Tx, Membership
  <1>5. /\ row.active => role = IF admin THEN "admin" ELSE "member"
        /\ ~row.active => role = "none"
    BY <1>4, SyncedFollows
  <1> HIDE DEF k, u, row, admin, role
  <1>6. /\ accounts \subseteq Users
        /\ membership \in [Units -> [Users -> Membership \cup {NoMembership}]]
        /\ team \in [Units -> [Users -> Role]] /\ Agreement
    BY DEF SafetyInv, TypeOK
  <1>7. membership'[k][u] = row
    BY <1>1, <1>3 DEF WithPrimary
  <1>8. ASSUME NEW x \in Units, NEW v \in Users, x # k \/ v # u
        PROVE  /\ Member(x, v)' <=> Member(x, v)
               /\ Member(x, v) => /\ membership'[x][v].active = membership[x][v].active
                                 /\ membership'[x][v].manager = membership[x][v].manager
    <2> DEFINE cleared == [membership[x][v] EXCEPT !.primary = FALSE]
    <2>1. membership'[x][v] = IF v = u /\ row.primary /\ Member(x, v)
                              THEN cleared ELSE membership[x][v]
      BY <1>3, <1>8 DEF WithPrimary
    <2>2. Member(x, v) => /\ cleared \in Membership
                          /\ cleared.active = membership[x][v].active
                          /\ cleared.manager = membership[x][v].manager
      <3>1. Member(x, v) => membership[x][v] \in Membership
        BY <1>6 DEF Member
      <3>2. QED
        BY <3>1, RowChanges, Zenon
    <2> HIDE DEF cleared
    <2>3. QED
      BY <2>1, <2>2, MembershipAssumption DEF Member
  <1>9. ASSUME NEW x \in Units, NEW v \in Users
        PROVE  team'[x][v] = IF x = k /\ v = u THEN role ELSE team[x][v]
    BY <1>1, <1>3, <1>6
  <1>10. TeamMirrorsMembership'
    <2> SUFFICES ASSUME NEW x \in Units, NEW v \in accounts
                 PROVE  team'[x][v] # "none" <=> Active(x, v)'
      BY <1>3 DEF TeamMirrorsMembership
    <2>0. v \in Users
      BY <1>6
    <2>1. CASE x = k /\ v = u
      BY <1>1, <1>5, <1>7, <1>9, <2>0, <2>1 DEF Active, Member
    <2>2. CASE x # k \/ v # u
      BY <1>6, <1>8, <1>9, <2>0, <2>2 DEF Active, Agreement, TeamMirrorsMembership
    <2>3. QED
      BY <2>1, <2>2
  <1>11. UnitsKeepAdmin'
    <2> SUFFICES ASSUME accounts = Users, NEW x \in Units, Live(x) PROVE Admins(x)' # {}
      BY <1>3 DEF UnitsKeepAdmin, Live
    <2>1. PICK v \in Users : team[x][v] = "admin"
      BY <1>6 DEF Agreement, UnitsKeepAdmin, Admins
    <2>2. CASE x # k \/ v # u
      BY <1>9, <2>1, <2>2 DEF Admins
    <2>3. CASE x = k /\ v = u
      <3>1. Active(k, u)
        BY <1>1, <1>6, <2>1, <2>3 DEF Agreement, TeamMirrorsMembership
      <3>2. KeepsAdmin(k, u, admin /\ row.active)
        BY <1>2, <3>1 DEF Active
      <3>3. CASE admin /\ row.active
        BY <1>5, <1>9, <2>3, <3>3 DEF Admins
      <3>4. CASE ~(admin /\ row.active)
        BY <1>9, <2>1, <2>3, <3>2, <3>4 DEF Admins, KeepsAdmin
      <3>5. QED
        BY <3>3, <3>4
    <2>4. QED
      BY <2>2, <2>3
  <1>12. HierarchyIntact'
    BY <1>3, <1>6 DEF Agreement, HierarchyIntact, Live
  <1>13. ManagersBelong'
    <2> SUFFICES ASSUME NEW x \in Units, NEW v \in Users, Member(x, v)',
                        membership'[x][v].manager # NoUser
                 PROVE  /\ membership'[x][v].manager # v
                        /\ Member(x, membership[x][v].manager)'
      BY DEF ManagersBelong
    <2> DEFINE m == membership'[x][v].manager
    <2>1. m # v /\ Member(x, m)
      <3>1. CASE x = k /\ v = u
        BY <1>1, <1>7, <3>1
      <3>2. CASE x # k \/ v # u
        BY <1>6, <1>8, <3>2 DEF Agreement, ManagersBelong
      <3>3. QED
        BY <3>1, <3>2
    <2>2. m \in Users
      <3>1. membership'[x][v] \in Membership
        BY <1>1, <1>3, <1>6, WithPrimaryTyped DEF Member, SafetyInv
      <3>2. QED
        BY <3>1 DEF Membership
    <2>3. membership'[x][m] # NoMembership
      BY <1>1, <1>7, <1>8, <2>1, <2>2 DEF Member
    <2>4. QED
      BY <2>1, <2>3 DEF Member
  <1>14. QED
    BY <1>10, <1>11, <1>12, <1>13 DEF Agreement

LEMMA DeleteCommitAgrees ==
  ASSUME SafetyInv, NEW r \in Requests, DeleteCommit(r) PROVE Agreement'
  <1> DEFINE k == tx[r].unit
             u == tx[r].user
             new(v) == IF v = u THEN NoMembership
                       ELSE IF Member(k, v) /\ membership[k][v].manager = u
                            THEN [membership[k][v] EXCEPT !.manager = NoUser]
                            ELSE membership[k][v]
  <1>1. /\ k \in Units /\ u \in Users /\ tx[r].role = team[k][u]
        /\ KeepsAdmin(k, u, FALSE)
    BY DEF SafetyInv, FreshRequest, DeleteCommit
  <1>2. /\ membership' = [membership EXCEPT ![k] = [v \in Users |-> new(v)]]
        /\ team' = [team EXCEPT ![k][u] = Synced(k, u, team[k][u], FALSE, FALSE)]
        /\ UNCHANGED <<accounts, unit>>
    BY <1>1 DEF DeleteCommit
  <1>3. Synced(k, u, team[k][u], FALSE, FALSE) = "none"
    BY SyncedFollows
  <1>4. /\ accounts \subseteq Users
        /\ membership \in [Units -> [Users -> Membership \cup {NoMembership}]]
        /\ team \in [Units -> [Users -> Role]] /\ Agreement
    BY DEF SafetyInv, TypeOK
  <1>5. ASSUME NEW v \in Users
        PROVE  /\ new(v) # NoMembership <=> v # u /\ Member(k, v)
               /\ v # u /\ Member(k, v) =>
                     /\ new(v).active = membership[k][v].active
                     /\ \/ membership[k][v].manager # u
                           /\ new(v).manager = membership[k][v].manager
                        \/ new(v).manager = NoUser
    <2> DEFINE cleared == [membership[k][v] EXCEPT !.manager = NoUser]
    <2>1. new(v) = IF v = u THEN NoMembership
                   ELSE IF Member(k, v) /\ membership[k][v].manager = u
                        THEN cleared ELSE membership[k][v]
      OBVIOUS
    <2>2. Member(k, v) => /\ cleared # NoMembership
                          /\ cleared.active = membership[k][v].active
                          /\ cleared.manager = NoUser
      <3>1. Member(k, v) => membership[k][v] \in Membership
        BY <1>1, <1>4 DEF Member
      <3>2. Member(k, v) => cleared \in Membership /\ cleared.manager = NoUser
                              /\ cleared.active = membership[k][v].active
        BY <3>1, RowChanges, Zenon
      <3>3. QED
        BY <3>2, MembershipAssumption
    <2> HIDE DEF cleared, new
    <2>3. QED
      BY <2>1, <2>2 DEF Member
  <1> HIDE DEF k, u, new
  <1>6. ASSUME NEW x \in Units, NEW v \in Users
        PROVE  /\ membership'[x][v] = IF x = k THEN new(v) ELSE membership[x][v]
               /\ team'[x][v] = IF x = k /\ v = u THEN "none" ELSE team[x][v]
    BY <1>1, <1>2, <1>3, <1>4
  <1>7. TeamMirrorsMembership'
    <2> SUFFICES ASSUME NEW x \in Units, NEW v \in accounts
                 PROVE  team'[x][v] # "none" <=> Active(x, v)'
      BY <1>2 DEF TeamMirrorsMembership
    <2>1. v \in Users /\ (team[x][v] # "none" <=> Active(x, v))
      BY <1>4 DEF Agreement, TeamMirrorsMembership
    <2>2. QED
      BY <1>5, <1>6, <2>1 DEF Active, Member
  <1>8. UnitsKeepAdmin'
    <2> SUFFICES ASSUME accounts = Users, NEW x \in Units, Live(x) PROVE Admins(x)' # {}
      BY <1>2 DEF UnitsKeepAdmin, Live
    <2>1. PICK v \in Users : team[x][v] = "admin"
      BY <1>4 DEF Agreement, UnitsKeepAdmin, Admins
    <2>2. CASE x # k \/ v # u
      BY <1>6, <2>1, <2>2 DEF Admins
    <2>3. CASE x = k /\ v = u
      BY <1>1, <1>6, <2>1, <2>3 DEF Admins, KeepsAdmin
    <2>4. QED
      BY <2>2, <2>3
  <1>9. HierarchyIntact'
    BY <1>2, <1>4 DEF Agreement, HierarchyIntact, Live
  <1>10. ManagersBelong'
    <2> SUFFICES ASSUME NEW x \in Units, NEW v \in Users, Member(x, v)',
                        membership'[x][v].manager # NoUser
                 PROVE  /\ membership'[x][v].manager # v
                        /\ Member(x, membership[x][v].manager)'
      BY DEF ManagersBelong
    <2> DEFINE m == membership'[x][v].manager
    <2>1. /\ Member(x, v) /\ m = membership[x][v].manager
          /\ x = k => m # u
      BY <1>5, <1>6 DEF Member
    <2>2. m # v /\ Member(x, m)
      BY <1>4, <2>1 DEF Agreement, ManagersBelong
    <2>3. m \in Users
      <3>1. membership[x][v] \in Membership
        BY <1>4, <2>1 DEF Member
      <3>2. QED
        BY <2>1, <3>1 DEF Membership
    <2>4. membership'[x][m] # NoMembership
      BY <1>5, <1>6, <2>1, <2>2, <2>3 DEF Member
    <2>5. QED
      BY <2>2, <2>4 DEF Member
  <1>11. QED
    BY <1>7, <1>8, <1>9, <1>10 DEF Agreement

LEMMA CronCommitAgrees ==
  ASSUME SafetyInv, CronCommit PROVE Agreement'
  <1> DEFINE new(x, v) == IF <<x, v>> \in cron.gone /\ Member(x, v)
                          THEN [membership[x][v] EXCEPT !.active = FALSE]
                          ELSE membership[x][v]
  <1>1. MayGo(cron.gone) /\ \A x \in Units, v \in Users : <<x, v>> \in cron.gone => Active(x, v)
    BY DEF SafetyInv, FreshCron, CronCommit
  <1>2. /\ membership' = [x \in Units |-> [v \in Users |-> new(x, v)]]
        /\ UNCHANGED <<accounts, unit>>
    BY DEF CronCommit
  <1>3. /\ accounts \subseteq Users
        /\ membership \in [Units -> [Users -> Membership \cup {NoMembership}]]
        /\ team \in [Units -> [Users -> Role]] /\ Agreement
    BY DEF SafetyInv, TypeOK
  <1>4. ASSUME NEW x \in Units, NEW v \in Users
        PROVE  /\ Member(x, v)' <=> Member(x, v)
               /\ Member(x, v) =>
                     /\ membership'[x][v].manager = membership[x][v].manager
                     /\ membership'[x][v].active
                           <=> membership[x][v].active /\ <<x, v>> \notin cron.gone
    <2> DEFINE expired == [membership[x][v] EXCEPT !.active = FALSE]
    <2>1. membership'[x][v] = IF <<x, v>> \in cron.gone /\ Member(x, v)
                              THEN expired ELSE membership[x][v]
      BY <1>2
    <2>2. Member(x, v) => /\ expired # NoMembership /\ expired.active = FALSE
                          /\ expired.manager = membership[x][v].manager
      <3>1. Member(x, v) => membership[x][v] \in Membership
        BY <1>3 DEF Member
      <3>2. Member(x, v) => expired \in Membership /\ expired.active = FALSE
                              /\ expired.manager = membership[x][v].manager
        BY <3>1, RowChanges, Zenon
      <3>3. QED
        BY <3>2, MembershipAssumption
    <2> HIDE DEF expired, new
    <2>3. QED
      BY <2>1, <2>2 DEF Member
  <1> HIDE DEF new
  <1>5. ASSUME NEW x \in Units, NEW v \in Users
        PROVE  team'[x][v] = IF <<x, v>> \in cron.gone THEN "none" ELSE team[x][v]
    BY DEF CronCommit
  <1>6. TeamMirrorsMembership'
    <2> SUFFICES ASSUME NEW x \in Units, NEW v \in accounts
                 PROVE  team'[x][v] # "none" <=> Active(x, v)'
      BY <1>2 DEF TeamMirrorsMembership
    <2>1. v \in Users /\ (team[x][v] # "none" <=> Active(x, v))
      BY <1>3 DEF Agreement, TeamMirrorsMembership
    <2>2. QED
      BY <1>4, <1>5, <2>1 DEF Active
  <1>7. UnitsKeepAdmin'
    <2> SUFFICES ASSUME accounts = Users, NEW x \in Units, Live(x) PROVE Admins(x)' # {}
      BY <1>2 DEF UnitsKeepAdmin, Live
    <2>1. Admins(x) # {}
      BY <1>3 DEF Agreement, UnitsKeepAdmin
    <2>2. PICK v \in Users : team[x][v] = "admin" /\ <<x, v>> \notin cron.gone
      BY <1>1, <2>1 DEF MayGo, Admins
    <2>3. QED
      BY <1>5, <2>2 DEF Admins
  <1>8. HierarchyIntact'
    BY <1>2, <1>3 DEF Agreement, HierarchyIntact, Live
  <1>9. ManagersBelong'
    <2> SUFFICES ASSUME NEW x \in Units, NEW v \in Users, Member(x, v)',
                        membership'[x][v].manager # NoUser
                 PROVE  /\ membership'[x][v].manager # v
                        /\ Member(x, membership[x][v].manager)'
      BY DEF ManagersBelong
    <2> DEFINE m == membership'[x][v].manager
    <2>1. Member(x, v) /\ m = membership[x][v].manager
      BY <1>4
    <2>2. m # v /\ Member(x, m)
      BY <1>3, <2>1 DEF Agreement, ManagersBelong
    <2>3. m \in Users
      <3>1. membership[x][v] \in Membership
        BY <1>3, <2>1 DEF Member
      <3>2. QED
        BY <2>1, <3>1 DEF Membership
    <2>4. membership'[x][m] # NoMembership
      BY <1>4, <2>2, <2>3 DEF Member
    <2>5. QED
      BY <2>2, <2>4 DEF Member
  <1>10. QED
    BY <1>6, <1>7, <1>8, <1>9 DEF Agreement

\* Having expired nobody the cron has changed nothing; otherwise it commits.
LEMMA CronCommitStep ==
  ASSUME Isolation = "Serializable", SafetyInv, CronCommit
  PROVE  (\A q \in Requests : FreshRequest(q))' /\ FreshCron' /\ Agreement'
  <1>1. Agreement'
    BY CronCommitAgrees
  <1>2. FreshCron'
    BY DEF CronCommit, FreshCron, Sleeping
  <1>3. CASE cron.gone = {}
    <2>1. membership' = membership /\ team' = team
      BY <1>3 DEF CronCommit, SafetyInv, TypeOK
    <2>2. UNCHANGED <<accounts, unit, tx>>
      BY <1>3 DEF CronCommit
    <2>3. QED
      BY <1>1, <1>2, <2>1, <2>2, TablesStay
  <1>4. CASE cron.gone # {}
    <2>1. tx' = [q \in Requests |-> Idle]
      BY <1>4 DEF CronCommit, Outdate
    <2>2. QED
      BY <1>1, <1>2, <2>1, IdleIsFresh
  <1>5. QED
    BY <1>3, <1>4

-----------------------------------------------------------------------------
(* Accounts and time *)

LEMMA DeleteUserStep ==
  ASSUME Isolation = "Serializable", SafetyInv, NEW u \in Leavers, DeleteUser(u)
  PROVE  (\A q \in Requests : FreshRequest(q))' /\ FreshCron' /\ Agreement'
  <1>1. /\ u \in Users /\ u \in accounts /\ accounts' = accounts \ {u}
        /\ team' = [k \in Units |-> [team[k] EXCEPT ![u] = "none"]]
        /\ tx' = [q \in Requests |-> Idle] /\ cron' = Sleeping
        /\ UNCHANGED <<unit, membership>>
    BY UsersAssumption DEF DeleteUser, Outdate, OutdateCron
  <1>2. (\A q \in Requests : FreshRequest(q))' /\ FreshCron'
    BY <1>1, IdleIsFresh DEF FreshCron, Sleeping
  <1>3. accounts \subseteq Users /\ team \in [Units -> [Users -> Role]] /\ Agreement
    BY DEF SafetyInv, TypeOK
  <1>4. TeamMirrorsMembership'
    BY <1>1, <1>3 DEF Agreement, TeamMirrorsMembership, Active, Member
  <1>5. UnitsKeepAdmin'
    BY <1>1, <1>3 DEF UnitsKeepAdmin
  <1>6. HierarchyIntact' /\ ManagersBelong'
    BY <1>1, <1>3 DEF Agreement, HierarchyIntact, ManagersBelong, Live, Member
  <1>7. QED
    BY <1>2, <1>4, <1>5, <1>6 DEF Agreement

\* Time is asked about only in the list of the expiry, and what has ended stays so.
LEMMA ElapseStep ==
  ASSUME SafetyInv, NEW k \in Units, NEW u \in Users, Elapse(k, u)
  PROVE  (\A q \in Requests : FreshRequest(q))' /\ FreshCron' /\ Agreement'
  <1> DEFINE new == [membership[k][u] EXCEPT !.ends = "past"]
  <1>1. /\ membership' = [membership EXCEPT ![k][u] = new]
        /\ Member(k, u) /\ membership[k][u].ends = "future"
        /\ UNCHANGED <<accounts, unit, team, tx, cron>>
    BY DEF Elapse
  <1>2. /\ accounts \subseteq Users
        /\ membership \in [Units -> [Users -> Membership \cup {NoMembership}]]
        /\ cron.gone \subseteq Pair /\ Agreement
    BY DEF SafetyInv, TypeOK
  <1>3. /\ new \in Membership /\ new.ends = "past"
        /\ new.active = membership[k][u].active /\ new.manager = membership[k][u].manager
    <2>1. membership[k][u] \in Membership
      BY <1>1, <1>2 DEF Member
    <2>2. QED
      BY <2>1, RowChanges, Zenon
  <1> HIDE DEF new
  <1>4. ASSUME NEW x \in Units, NEW v \in Users
        PROVE  /\ Member(x, v)' <=> Member(x, v)
               /\ Active(x, v)' <=> Active(x, v)
               /\ Ended(x, v) => Ended(x, v)'
               /\ Member(x, v) => membership'[x][v].manager = membership[x][v].manager
    <2>1. CASE x = k /\ v = u
      BY <1>1, <1>2, <1>3, <2>1, MembershipAssumption DEF Member, Active, Ended
    <2>2. CASE x # k \/ v # u
      <3>1. membership'[x][v] = membership[x][v]
        BY <1>1, <1>2, <2>2
      <3>2. QED
        BY <3>1 DEF Member, Active, Ended
    <2>3. QED
      BY <2>1, <2>2
  <1>5. ASSUME NEW q \in Requests PROVE FreshRequest(q)'
    <2>1. FreshRequest(q)
      BY DEF SafetyInv
    <2>2. tx[q].row \in Membership => tx[q].row.manager = NoUser \/ tx[q].row.manager \in Users
      BY DEF Membership
    <2>3. QED
      BY <1>1, <1>4, <2>1, <2>2 DEF FreshRequest, Live, KeepsAdmin, Admins
  <1>6. FreshCron'
    <2>1. ASSUME cron.pc = "read", NEW p \in cron.gone
          PROVE  Active(p[1], p[2])' /\ Ended(p[1], p[2])'
      <3>1. p[1] \in Units /\ p[2] \in Users
        BY <1>2 DEF Pair
      <3>2. QED
        BY <1>4, <2>1, <3>1 DEF SafetyInv, FreshCron
    <2>2. QED
      BY <1>1, <2>1 DEF SafetyInv, FreshCron, MayGo, Admins
  <1>7. TeamMirrorsMembership' /\ UnitsKeepAdmin' /\ HierarchyIntact'
    BY <1>1, <1>2, <1>4 DEF Agreement, TeamMirrorsMembership, UnitsKeepAdmin,
       HierarchyIntact, Live, Admins
  <1>8. ManagersBelong'
    <2> SUFFICES ASSUME NEW x \in Units, NEW v \in Users, Member(x, v)',
                        membership'[x][v].manager # NoUser
                 PROVE  /\ membership'[x][v].manager # v
                        /\ Member(x, membership[x][v].manager)'
      BY DEF ManagersBelong
    <2> DEFINE m == membership'[x][v].manager
    <2>1. Member(x, v) /\ m = membership[x][v].manager
      BY <1>4
    <2>2. m # v /\ Member(x, m)
      BY <1>2, <2>1 DEF Agreement, ManagersBelong
    <2>3. m \in Users
      <3>1. membership[x][v] \in Membership
        BY <1>2, <2>1 DEF Member
      <3>2. QED
        BY <2>1, <3>1 DEF Membership
    <2>4. membership'[x][m] # NoMembership
      BY <1>4, <2>2, <2>3 DEF Member
    <2>5. QED
      BY <2>2, <2>4 DEF Member
  <1>9. QED
    BY <1>5, <1>6, <1>7, <1>8 DEF Agreement

-----------------------------------------------------------------------------
(* The invariant, and what follows from it *)

LEMMA SafetyStep ==
  ASSUME Isolation = "Serializable", SafetyInv, [Next]_vars PROVE SafetyInv'
  <1>1. TypeOK'
    BY TypeStep DEF SafetyInv
  <1> DEFINE Kept == (\A q \in Requests : FreshRequest(q))' /\ FreshCron' /\ Agreement'
  <1> SUFFICES Kept
    BY <1>1 DEF SafetyInv
  <1>2. ASSUME NEW r \in Requests, RequestStep(r) PROVE Kept
    <2>1. CASE CreateUnitCommit(r)
      BY <2>1, CreateUnitCommitAgrees, CommitDooms DEF CreateUnitCommit
    <2>2. CASE DeleteUnitCommit(r)
      BY <2>2, DeleteUnitCommitAgrees, CommitDooms DEF DeleteUnitCommit
    <2>3. CASE WriteCommit(r)
      BY <2>3, WriteCommitAgrees, CommitDooms DEF WriteCommit
    <2>4. CASE DeleteCommit(r)
      BY <2>4, DeleteCommitAgrees, CommitDooms DEF DeleteCommit
    <2>5. CASE Rollback(r)
      BY <2>5, RollbackStep
    <2>6. QED
      BY <1>2, <2>1, <2>2, <2>3, <2>4, <2>5, ReadStep DEF RequestStep
  <1>3. CASE CronRead
    BY <1>3, CronReadStep
  <1>4. CASE CronCommit
    BY <1>4, CronCommitStep
  <1>5. ASSUME NEW u \in Leavers, DeleteUser(u) PROVE Kept
    BY <1>5, DeleteUserStep
  <1>6. ASSUME NEW k \in Units, NEW u \in Users, Elapse(k, u) PROVE Kept
    BY <1>6, ElapseStep
  <1>7. CASE UNCHANGED vars
    BY <1>7, TablesStay DEF vars
  <1>8. QED
    BY <1>2, <1>3, <1>4, <1>5, <1>6, <1>7 DEF Next

LEMMA SafetyInit == Init => SafetyInv
  <1> SUFFICES ASSUME Init PROVE SafetyInv
    OBVIOUS
  <1>1. (\A r \in Requests : FreshRequest(r)) /\ FreshCron
    BY DEF Init, FreshRequest, FreshCron, Idle, Sleeping
  <1>2. Agreement
    BY DEF Init, Agreement, TeamMirrorsMembership, UnitsKeepAdmin, HierarchyIntact,
           ManagersBelong, Live, Active, Member
  <1>3. QED
    BY <1>1, <1>2, TypeInit DEF SafetyInv

LEMMA SafetyInvariant == ASSUME Isolation = "Serializable" PROVE Spec => []SafetyInv
  BY SafetyInit, SafetyStep, PTL DEF Spec

\* On a serializable database the team of a unit and its active memberships never
\* drift apart, whatever is created, changed, deleted and expired at once.
THEOREM TeamNeverDrifts ==
  ASSUME Isolation = "Serializable" PROVE Spec => []TeamMirrorsMembership
  <1>1. SafetyInv => TeamMirrorsMembership
    BY DEF SafetyInv, Agreement
  <1>2. QED
    BY <1>1, SafetyInvariant, PTL

\* On a serializable database no unit loses its last administrator to competing
\* changes and expiries, as long as no account is deleted.
THEOREM AnAdminRemains ==
  ASSUME Isolation = "Serializable" PROVE Spec => []UnitsKeepAdmin
  <1>1. SafetyInv => UnitsKeepAdmin
    BY DEF SafetyInv, Agreement
  <1>2. QED
    BY <1>1, SafetyInvariant, PTL

\* On a serializable database no live unit hangs under a deleted one.
THEOREM HierarchyStaysWhole ==
  ASSUME Isolation = "Serializable" PROVE Spec => []HierarchyIntact
  <1>1. SafetyInv => HierarchyIntact
    BY DEF SafetyInv, Agreement
  <1>2. QED
    BY <1>1, SafetyInvariant, PTL

\* On a serializable database no membership names a manager who has left.
THEOREM ManagersNeverDangle ==
  ASSUME Isolation = "Serializable" PROVE Spec => []ManagersBelong
  <1>1. SafetyInv => ManagersBelong
    BY DEF SafetyInv, Agreement
  <1>2. QED
    BY <1>1, SafetyInvariant, PTL

\* On a serializable database the expiry never takes the access of somebody whose
\* membership was renewed after the cron had listed it.
THEOREM RenewalsPrevail ==
  ASSUME Isolation = "Serializable" PROVE Spec => RenewedAreSpared
  <1>1. ASSUME SafetyInv, CronCommit, NEW k \in Units, NEW u \in Users,
               Active(k, u), ~Active(k, u)'
        PROVE  Ended(k, u)
    <2>1. CASE <<k, u>> \in cron.gone
      BY <1>1, <2>1 DEF SafetyInv, FreshCron, CronCommit
    <2>2. CASE <<k, u>> \notin cron.gone
      <3>1. membership'[k][u] = membership[k][u]
        BY <1>1, <2>2 DEF CronCommit
      <3>2. QED
        BY <1>1, <3>1 DEF Active, Member
    <2>3. QED
      BY <2>1, <2>2
  <1>2. SafetyInv => [CronCommit => \A k \in Units, u \in Users :
                         Active(k, u) /\ ~Active(k, u)' => Ended(k, u)]_vars
    BY <1>1
  <1>3. QED
    BY <1>2, SafetyInvariant, PTL DEF RenewedAreSpared
=============================================================================
