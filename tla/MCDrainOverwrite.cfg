\* Shutdown while two slots of one process run the same job.
SPECIFICATION Spec
CONSTANTS
    p1 = p1
    p2 = p2
    MaxJobs = 1
    Kinds = {"response"}
    Keys = {}
    NoKey = NoKey
    Priorities = {0}
    Budgets = {2}
    Delays = {0}
    NoRetry = NoRetry
    Procs = {p1}
    SlotLane <- TwoLight
    JOB_KINDS <- RetryKinds
    Registered <- AllRegistered
    NotifyKinds = {"response"}
    MaxFaults = 1
INVARIANTS
    DrainRecordsAll
