CONSTANTS
    worker = worker
    manager = manager
    Users = {worker, manager}
    NoUser = NoUser
    Fickle = {}
    Items = {}
    NoItem = NoItem
    Attachments = {}
    EvidencePolicies = {FALSE}
    Requests = {q1, q2}
    Isolation = "ReadCommitted"
    GenericEdits = FALSE
    MaxSubmissions = 2
    MaxHistory = 5
SPECIFICATION MCSpec
INVARIANTS OneFinalReview
CHECK_DEADLOCK FALSE
