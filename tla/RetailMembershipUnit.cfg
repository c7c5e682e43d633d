CONSTANTS
    company = company
    region = region
    store = store
    Users = {u1, u2, u3}
    NoUser = NoUser
    Leavers = {u3}
    Units = {company}
    NoUnit = NoUnit
    Parent <- MCAlone
    NoMembership = NoMembership
    EndChoices = {"never", "future"}
    ManagerChoices = {u1, NoUser}
    PrimaryChoices = {FALSE}
    Requests = {q1}
    Isolation = "Serializable"
SPECIFICATION FairSpec
INVARIANTS TeamMirrorsMembership UnitsKeepAdmin ManagersBelong
PROPERTIES RenewedAreSpared EndedAccessIsRevoked
CHECK_DEADLOCK FALSE
