CONSTANTS
    Months <- MCMonths
    Intervals = {1, 2, 3, 12}
    MaxRuns = 13
SPECIFICATION Spec
INVARIANTS MonthlyRunsAsSet
CHECK_DEADLOCK FALSE
