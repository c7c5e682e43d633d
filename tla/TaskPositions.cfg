CONSTANTS
    Tasks = {1, 2, 3}
    FirstTasks = {1, 2}
    Requests = {w1, w2}
    Nobody = Nobody
    NoPosition = NoPosition
    Unwritten = Unwritten
    MinSpacing = 2
    Gap = 4
    MaxPosition = 12
    Highest = 16
    MaxRequests = 4
SPECIFICATION FairSpec
INVARIANTS SerialRequestsKeepDistinct RecalculationsNeverDeadlock
PROPERTIES DropLands RecalculationKeepsItsOrder RequestsEnd
CHECK_DEADLOCK FALSE
