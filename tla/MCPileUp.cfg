SPECIFICATION Spec
CONSTANTS
    Never = Never
    Minute = 2
    Day = 4
    Walk = 2
    Rows = {r1}
    Schedules <- CronDays
    Cadence <- EveryMinute
    Passes = {p1, p2}
    Horizon = 5
    MaxFaults = 2
CHECK_DEADLOCK FALSE
INVARIANTS
    OneQueuedPerSchedule
