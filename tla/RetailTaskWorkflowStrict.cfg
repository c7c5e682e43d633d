CONSTANTS
    worker = worker
    manager = manager
    Users = {worker, manager}
    NoUser = NoUser
    Fickle = {worker}
    Items = {i1}
    NoItem = NoItem
    Attachments = {f1}
    EvidencePolicies = {TRUE}
    Requests = {q1, q2}
    Isolation = "Serializable"
    GenericEdits = TRUE
    MaxSubmissions = 2
    MaxHistory = 6
SPECIFICATION MCSpec
SYMMETRY MCSymmetry
INVARIANTS TypeOK HistoryChains OneFinalResult ReviewBalance DoneMirrorsCompletion
PROPERTIES SubmittedComplete RefinesLifecycle
CHECK_DEADLOCK FALSE
