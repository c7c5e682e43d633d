CONSTANTS
    Schedules = {1}
    Targets = {g1}
    NoTarget = NoTarget
    Intervals = {1}
    CallerKeys = {c1}
    Ticks = {t1}
    Requests = {q1}
    Isolation = "Serializable"
    BatchLimit = 1
    ManualTimes = {1}
    ScheduleEdits = TRUE
    MaxTime = 2
    MaxVersion = 2
SPECIFICATION Spec
INVARIANTS NoOccurrenceSkipped SchedulesFollowTemplate
PROPERTIES DispatchIsCurrent
CHECK_DEADLOCK FALSE
