SPECIFICATION Spec
CONSTANTS
    Never = Never
    Minute = 2
    Day = 4
    Walk = 2
    Rows = {r1}
    Schedules <- CronDays
    Cadence <- EveryMinute
    Passes = {p1, p2}
    Horizon = 4
    MaxFaults = 2
SYMMETRY Symmetry
CHECK_DEADLOCK FALSE
INVARIANTS
    OncePerOccurrence
    OneAtATime
    CronCatchesUp
PROPERTIES
    CadenceKept
