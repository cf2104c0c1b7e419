SPECIFICATION Spec
CONSTANTS
    MaxJobs = 2
    MaxWrites = 1
    None = None
    Faults = {}
CHECK_DEADLOCK FALSE
INVARIANTS
    LastWriteSeen
