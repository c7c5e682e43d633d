CONSTANTS
    company = company
    region = region
    store = store
    Users = {u1, u2}
    NoUser = NoUser
    Leavers = {}
    Units = {company, region, store}
    NoUnit = NoUnit
    Parent <- MCParent
    NoMembership = NoMembership
    EndChoices = {"never"}
    ManagerChoices = {NoUser}
    PrimaryChoices = {TRUE}
    Requests = {q1, q2}
    Isolation = "Serializable"
SPECIFICATION Spec
INVARIANTS HierarchyIntact
SYMMETRY MCSymmetry
CHECK_DEADLOCK FALSE
