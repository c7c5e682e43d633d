CONSTANTS
    Schedules = {1, 2}
    Targets = {g1}
    NoTarget = NoTarget
    Intervals = {2}
    CallerKeys = {}
    Ticks = {t1, t2}
    Requests = {q1}
    Isolation = "ReadCommitted"
    BatchLimit = 2
    ManualTimes = {}
    ScheduleEdits = FALSE
    MaxTime = 2
    MaxVersion = 1
SPECIFICATION FairSpec
INVARIANTS SchedulesAreExact
PROPERTIES DueIsDispatched
CHECK_DEADLOCK FALSE
