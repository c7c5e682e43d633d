CONSTANTS
    worker = worker
    manager = manager
    Users = {worker, manager}
    NoUser = NoUser
    Fickle = {}
    Items = {}
    NoItem = NoItem
    Attachments = {}
    EvidencePolicies = {FALSE}
    Requests = {q1, q2}
    Isolation = "ReadCommitted"
    GenericEdits = TRUE
    MaxSubmissions = 2
    MaxHistory = 4
SPECIFICATION MCSpec
SYMMETRY MCSymmetry
INVARIANTS AuditIsComplete StatusWasOnceReached
CHECK_DEADLOCK FALSE
