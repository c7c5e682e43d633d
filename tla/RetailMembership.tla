--------------------------- MODULE RetailMembership ---------------------------
(***************************************************************************)
(* The organization hierarchy, its memberships, and the teams that carry   *)
(* the access rights: retail_org_units, retail_memberships, team_members.  *)
(* Requests are transactions, read first and committed later, as in        *)
(* RetailTaskWorkflow; the cron that expires temporary memberships is one  *)
(* more transaction, and time passes while they run.                       *)
(***************************************************************************)
EXTENDS Naturals, FiniteSets

CONSTANTS
    Users, NoUser,
    Leavers,           \* the users whose account may be deleted
    Units,             \* ids of the units that may ever be created
    NoUnit,            \* the zero id: the parent of a company
    Parent,            \* the parent each unit is created under, immutable
    NoMembership,      \* the user has no row in the unit
    EndChoices,        \* end times callers give: "never" unless temporary
    ManagerChoices,    \* managers callers give
    PrimaryChoices,    \* values callers give the primary flag
    Requests,          \* slots for requests in flight
    Isolation          \* "ReadCommitted" or "Serializable"

Membership == [active: BOOLEAN, ends: {"never", "future", "past"},
               primary: BOOLEAN, manager: Users \cup {NoUser}]
Role == {"none", "member", "admin"}

ASSUME UsersAssumption == NoUser \notin Users /\ Leavers \subseteq Users
ASSUME MembershipAssumption == NoMembership \notin Membership
ASSUME UnitsAssumption ==
    NoUnit \notin Units /\ Parent \in [Units -> Units \cup {NoUnit}]
ASSUME ChoicesAssumption ==
    /\ EndChoices \subseteq {"never", "future", "past"}
    /\ ManagerChoices \subseteq Users \cup {NoUser}
    /\ PrimaryChoices \subseteq BOOLEAN
ASSUME IsolationAssumption == Isolation \in {"ReadCommitted", "Serializable"}

VARIABLES
    accounts,     \* the users whose account exists
    unit,         \* state of each unit's row
    membership,   \* the retail_memberships row of each user in each unit
    team,         \* role of each user in the unit's team
    tx,           \* what each request in flight has read or is going to write
    cron          \* the expiry transaction: idle, or the rows it will expire

vars == <<accounts, unit, membership, team, tx, cron>>

Pair == Units \X Users

Op == {"createUnit", "deleteUnit", "create", "update", "delete"}
Tx == [op: Op \cup {"none"}, unit: Units \cup {NoUnit}, user: Users \cup {NoUser},
       row: Membership \cup {NoMembership}, admin: BOOLEAN, role: Role]
Idle == [op |-> "none", unit |-> NoUnit, user |-> NoUser,
         row |-> NoMembership, admin |-> FALSE, role |-> "none"]
Sleeping == [pc |-> "idle", gone |-> {}]

TypeOK ==
    /\ accounts \subseteq Users
    /\ unit \in [Units -> {"absent", "live", "deleted"}]
    /\ membership \in [Units -> [Users -> Membership \cup {NoMembership}]]
    /\ team \in [Units -> [Users -> Role]]
    /\ tx \in [Requests -> Tx]
    /\ cron \in [pc: {"idle", "read"}, gone: SUBSET Pair]

-----------------------------------------------------------------------------
(* Access *)

Live(k) == unit[k] = "live"
Member(k, u) == membership[k][u] # NoMembership
Active(k, u) == Member(k, u) /\ membership[k][u].active
Ended(k, u) == Member(k, u) /\ membership[k][u].ends = "past"
Admins(k) == {u \in Users : team[k][u] = "admin"}

\* A team row is passed over when its membership is inactive or has ended.
Counts(k, u) == Member(k, u) => membership[k][u].active /\ ~Ended(k, u)

\* Each unit and those above it.
Above ==
    LET Up[n \in 0..Cardinality(Units)] == [k \in Units |->
            LET below == Up[n - 1][k]
            IN  IF n = 0 THEN {k}
                ELSE below \cup ({Parent[x] : x \in below} \ {NoUnit})]
    IN  Up[Cardinality(Units)]

\* The walk upwards ends with an error where the parent's row is gone.
Lineage(k) ==
    {a \in Above[k] : \A b \in Above[k] : a \in Above[b] => Live(b)}

\* inheritedAccess: an admin of any unit on the way up is an admin here.
AdminOf(k, u) ==
    \E a \in Lineage(k) : team[a][u] = "admin" /\ Counts(a, u)

Manageable(k) == Live(k) /\ \E actor \in accounts : AdminOf(k, actor)

-----------------------------------------------------------------------------
(* Transactions *)

Outdate(t) == IF Isolation = "Serializable" THEN [q \in Requests |-> Idle] ELSE t
OutdateCron == IF Isolation = "Serializable" THEN Sleeping ELSE cron

Read(r, op, k, u, row, admin) ==
    /\ tx[r] = Idle
    /\ tx' = [tx EXCEPT ![r] =
                [op |-> op, unit |-> k, user |-> u, row |-> row, admin |-> admin,
                 role |-> IF u = NoUser THEN "none" ELSE team[k][u]]]
    /\ UNCHANGED <<accounts, unit, membership, team, cron>>

Commit(r) ==
    /\ tx' = Outdate([tx EXCEPT ![r] = Idle])
    /\ cron' = OutdateCron

\* A late guard, a database error or a conflict undoes the request.
Rollback(r) ==
    /\ tx[r] # Idle
    /\ tx' = [tx EXCEPT ![r] = Idle]
    /\ UNCHANGED <<accounts, unit, membership, team, cron>>

-----------------------------------------------------------------------------
(* RetailOrgUnit.Create and Delete; Update changes nothing kept here *)

CreateUnitRead(r, u) ==
    \E k \in Units :
        /\ unit[k] = "absent"
        /\ Parent[k] # NoUnit => Live(Parent[k]) /\ AdminOf(Parent[k], u)
        /\ Read(r, "createUnit", k, u,
                [active |-> TRUE, ends |-> "never", manager |-> NoUser,
                 primary |-> Parent[k] = NoUnit], TRUE)

\* Only the new row is written: other primary flags of the creator stay.
CreateUnitCommit(r) ==
    LET k == tx[r].unit  u == tx[r].user
    IN  /\ tx[r].op = "createUnit"
        /\ unit[k] = "absent"
        /\ unit' = [unit EXCEPT ![k] = "live"]
        /\ membership' = [membership EXCEPT ![k][u] = tx[r].row]
        /\ team' = [team EXCEPT ![k][u] = "admin"]
        /\ Commit(r)
        /\ UNCHANGED accounts

\* Mutant: units with children may be deleted.
DeleteUnitRead_WithChildren(r) ==
    \E k \in Units :
        /\ Manageable(k)
        /\ Read(r, "deleteUnit", k, NoUser, NoMembership, FALSE)

\* A unit that still has tasks or templates is refused too; the caller sees an
\* error and nothing changes.
DeleteUnitRead(r) ==
    \E k \in Units :
        /\ Manageable(k)
        /\ \A c \in Units : Parent[c] = k => ~Live(c)
        /\ Read(r, "deleteUnit", k, NoUser, NoMembership, FALSE)

DeleteUnitCommit(r) ==
    LET k == tx[r].unit
    IN  /\ tx[r].op = "deleteUnit"
        /\ unit' = [unit EXCEPT ![k] = "deleted"]
        /\ membership' = [membership EXCEPT ![k] = [u \in Users |-> NoMembership]]
        /\ team' = [team EXCEPT ![k] = [u \in Users |-> "none"]]
        /\ Commit(r)
        /\ UNCHANGED accounts

-----------------------------------------------------------------------------
(* RetailMembership.Create, Update and Delete *)

\* Mutant: the manager may be anybody else.
ValidManager_Anybody(k, u, manager) == manager # u

ValidManager(k, u, manager) ==
    manager = NoUser \/ (manager # u /\ Active(k, manager) /\ ~Ended(k, manager))

\* The manager may have left the unit, but not since the check.
MembershipInput(k, u) ==
    {m \in [active: BOOLEAN, ends: EndChoices, primary: PrimaryChoices,
            manager: ManagerChoices] : ValidManager(k, u, m.manager)}

\* Mutant: every row of the team is counted.
KeepsAdmin_AnyMember(k, u, stays) ==
    u \in Admins(k) /\ ~stays => \E v \in Users \ {u} : team[k][v] # "none"

\* ensureRetailOrgKeepsAdmin counts every admin row of the team.
KeepsAdmin(k, u, stays) ==
    u \in Admins(k) /\ ~stays => Admins(k) \ {u} # {}

\* TeamMember.Delete keeps the last row of a team.
KeepsMember(k, u, stays) ==
    team[k][u] # "none" /\ ~stays => \E v \in Users \ {u} : team[k][v] # "none"

\* Mutant: somebody who loses the membership keeps the team row.
Synced_NeverRemoved(k, u, was, active, admin) ==
    IF ~active \/ (was # "none" /\ team[k][u] = "none") THEN team[k][u]
    ELSE IF admin THEN "admin" ELSE "member"

\* syncRetailTeamMember: insert, update by id or delete, by what was read.
Synced(k, u, was, active, admin) ==
    CASE active /\ (was = "none" \/ team[k][u] # "none") ->
            IF admin THEN "admin" ELSE "member"
      [] ~active /\ was # "none" -> "none"
      [] OTHER -> team[k][u]

\* clearOtherPrimaryRetailMemberships, then the row itself.
WithPrimary(k, u, row) ==
    [x \in Units |-> [v \in Users |->
        IF x = k /\ v = u THEN row
        ELSE IF v = u /\ row.primary /\ Member(x, v)
             THEN [membership[x][v] EXCEPT !.primary = FALSE]
             ELSE membership[x][v]]]

CreateRead(r) ==
    \E k \in Units, u \in accounts, admin \in BOOLEAN :
        /\ Manageable(k)
        /\ ~Member(k, u)
        /\ \E m \in MembershipInput(k, u) :
            m.active /\ Read(r, "create", k, u, m, admin)

UpdateRead(r) ==
    \E k \in Units, u \in accounts, admin \in BOOLEAN :
        /\ Manageable(k)
        /\ Member(k, u)
        /\ \E m \in MembershipInput(k, u) :
            /\ KeepsAdmin(k, u, admin /\ m.active)
            /\ KeepsMember(k, u, m.active)
            /\ Read(r, "update", k, u, m, admin)

\* The unique index on (org unit, user) refuses a second row; the row to be
\* updated is read again afterwards and must still be there.
WriteCommit(r) ==
    LET k == tx[r].unit  u == tx[r].user  row == tx[r].row
    IN  /\ \/ tx[r].op = "create" /\ ~Member(k, u)
           \/ tx[r].op = "update" /\ Member(k, u)
        /\ membership' = WithPrimary(k, u, row)
        /\ team' = [team EXCEPT ![k][u] =
                        Synced(k, u, tx[r].role, row.active, tx[r].admin)]
        /\ Commit(r)
        /\ UNCHANGED <<accounts, unit>>

DeleteRead(r) ==
    \E k \in Units, u \in accounts :
        /\ Manageable(k)
        /\ Member(k, u)
        /\ KeepsAdmin(k, u, FALSE)
        /\ KeepsMember(k, u, FALSE)
        /\ Read(r, "delete", k, u, NoMembership, FALSE)

DeleteCommit(r) ==
    LET k == tx[r].unit  u == tx[r].user
    IN  /\ tx[r].op = "delete"
        /\ membership' = [membership EXCEPT ![k] = [v \in Users |->
                IF v = u THEN NoMembership
                ELSE IF Member(k, v) /\ membership[k][v].manager = u
                     THEN [membership[k][v] EXCEPT !.manager = NoUser]
                     ELSE membership[k][v]]]
        /\ team' = [team EXCEPT ![k][u] =
                        Synced(k, u, tx[r].role, FALSE, FALSE)]
        /\ Commit(r)
        /\ UNCHANGED <<accounts, unit>>

-----------------------------------------------------------------------------
(* expireRetailMembershipsAt, once a minute *)

\* A row whose user is gone is skipped with an error.
Due == {p \in Pair : Active(p[1], p[2]) /\ Ended(p[1], p[2]) /\ p[2] \in accounts}

\* The cron may expire all of gone, one after the other, each time leaving the
\* team an admin and a member.
MayGo(gone) ==
    \A k \in Units :
        LET left == Users \ {u \in Users : <<k, u>> \in gone}
        IN  /\ Admins(k) \subseteq left \/ Admins(k) \cap left # {}
            /\ \/ \A u \in Users \ left : team[k][u] = "none"
               \/ \E u \in left : team[k][u] # "none"

\* Mutant: the list is every temporary membership.
CronRead_AnyTemporary ==
    /\ cron = Sleeping
    /\ \E gone \in SUBSET {p \in Pair : Active(p[1], p[2])
                            /\ membership[p[1]][p[2]].ends # "never"} :
        /\ gone # {} /\ MayGo(gone)
        /\ cron' = [pc |-> "read", gone |-> gone]
    /\ UNCHANGED <<accounts, unit, membership, team, tx>>

\* Mutant: the admins are never expired.
CronRead_NoAdmins ==
    /\ cron = Sleeping
    /\ LET gone == {p \in Due : team[p[1]][p[2]] # "admin"}
       IN  gone # {} /\ cron' = [pc |-> "read", gone |-> gone]
    /\ UNCHANGED <<accounts, unit, membership, team, tx>>

\* One after the other and in any order, so that nobody is spared who could go.
CronRead ==
    /\ cron = Sleeping
    /\ Due # {}
    /\ \E gone \in SUBSET Due :
        /\ MayGo(gone)
        /\ \A p \in Due \ gone : ~MayGo(gone \cup {p})
        /\ cron' = [pc |-> "read", gone |-> gone]
    /\ UNCHANGED <<accounts, unit, membership, team, tx>>

CronCommit ==
    /\ cron.pc = "read"
    /\ membership' = [k \in Units |-> [u \in Users |->
            IF <<k, u>> \in cron.gone /\ Member(k, u)
            THEN [membership[k][u] EXCEPT !.active = FALSE]
            ELSE membership[k][u]]]
    /\ team' = [k \in Units |-> [u \in Users |->
            IF <<k, u>> \in cron.gone THEN "none" ELSE team[k][u]]]
    /\ tx' = IF cron.gone = {} THEN tx ELSE Outdate(tx)
    /\ cron' = Sleeping
    /\ UNCHANGED <<accounts, unit>>

-----------------------------------------------------------------------------

\* DeleteUser removes the rows of a fixed list of tables: team_members is one of
\* them, retail_memberships is not, and nobody asks who is left in the team.
DeleteUser(u) ==
    /\ u \in accounts
    /\ accounts' = accounts \ {u}
    /\ team' = [k \in Units |-> [team[k] EXCEPT ![u] = "none"]]
    /\ tx' = Outdate(tx) /\ cron' = OutdateCron
    /\ UNCHANGED <<unit, membership>>

\* Time passes: a temporary membership reaches its end.
Elapse(k, u) ==
    /\ Member(k, u) /\ membership[k][u].ends = "future"
    /\ membership' = [membership EXCEPT ![k][u].ends = "past"]
    /\ UNCHANGED <<accounts, unit, team, tx, cron>>

Init ==
    /\ accounts = Users
    /\ unit = [k \in Units |-> "absent"]
    /\ membership = [k \in Units |-> [u \in Users |-> NoMembership]]
    /\ team = [k \in Units |-> [u \in Users |-> "none"]]
    /\ tx = [r \in Requests |-> Idle]
    /\ cron = Sleeping

RequestStep(r) ==
    \/ \E u \in accounts : CreateUnitRead(r, u)
    \/ DeleteUnitRead(r) \/ CreateRead(r) \/ UpdateRead(r) \/ DeleteRead(r)
    \/ CreateUnitCommit(r) \/ DeleteUnitCommit(r)
    \/ WriteCommit(r) \/ DeleteCommit(r)
    \/ Rollback(r)

Next ==
    \/ \E r \in Requests : RequestStep(r)
    \/ CronRead \/ CronCommit
    \/ \E u \in Leavers : DeleteUser(u)
    \/ \E k \in Units, u \in Users : Elapse(k, u)

Spec == Init /\ [][Next]_vars

\* The cron ticks every minute.  A tick that loses to another commit is undone
\* and comes again, and no stream of requests hits every one of them.
FairSpec == Spec /\ WF_vars(CronRead) /\ SF_vars(CronCommit)
-----------------------------------------------------------------------------
(* Properties *)

\* ARCHITECTURE.md section 3: team_members carries the access rights and
\* retail_memberships only adds to them.  Somebody is in the team of a unit
\* exactly while there is an active membership (syncRetailTeamMember), as long as
\* the account exists.
TeamMirrorsMembership ==
    \A k \in Units, u \in accounts : team[k][u] # "none" <=> Active(k, u)

\* Each unit keeps an administrator, whatever is updated, deleted or expired and
\* in whatever order (ensureRetailOrgKeepsAdmin), until an account is deleted.
UnitsKeepAdmin ==
    accounts = Users => \A k \in Units : Live(k) => Admins(k) # {}

\* The parent of a unit exists as long as the unit does, so that the walk up for
\* inherited access reaches the company.
HierarchyIntact ==
    \A k \in Units : Live(k) /\ Parent[k] # NoUnit => Live(Parent[k])

\* A direct manager belongs to the same unit and is somebody else: the cleanup
\* in Delete reaches every row that names the leaver.
ManagersBelong ==
    \A k \in Units, u \in Users :
        Member(k, u) /\ membership[k][u].manager # NoUser =>
            /\ membership[k][u].manager # u
            /\ Member(k, membership[k][u].manager)

\* The expiry never takes the access of somebody whose membership was renewed
\* after the cron had listed it.
RenewedAreSpared ==
    [][ CronCommit => \A k \in Units, u \in Users :
            Active(k, u) /\ ~Active(k, u)' => Ended(k, u) ]_vars

\* Team access ends some time after the membership did, unless it is renewed or
\* its holder is the last administrator of the unit (or, where deleted accounts
\* left no administrator, the last member).
EndedAccessIsRevoked ==
    \A k \in Units, u \in Users :
        []<>(\/ ~Ended(k, u) \/ team[k][u] = "none"
             \/ ~KeepsAdmin(k, u, FALSE) \/ ~KeepsMember(k, u, FALSE))

=============================================================================
