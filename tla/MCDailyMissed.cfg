SPECIFICATION Spec
CONSTANTS
    Never = Never
    Minute = 2
    Day = 4
    Walk = 2
    Rows = {r1}
    Schedules <- LateDaily
    Cadence <- EveryMinute
    Passes = {p1}
    Horizon = 4
    MaxFaults = 1
CHECK_DEADLOCK FALSE
INVARIANTS
    DailyCatchesUp
