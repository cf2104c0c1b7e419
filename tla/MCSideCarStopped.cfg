SPECIFICATION Spec
CONSTANTS
    MaxJobs = 1
    MaxWrites = 1
    None = None
    Faults = {}
CHECK_DEADLOCK FALSE
PROPERTIES
    LiveSideCarKept
