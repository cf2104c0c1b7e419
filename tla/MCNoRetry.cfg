\* A job of a kind without retry; one crash, shutdown or failed call.
SPECIFICATION FairSpec
CONSTANTS
    p1 = p1
    p2 = p2
    MaxJobs = 1
    Kinds = {"response"}
    Keys = {}
    NoKey = NoKey
    Priorities = {0}
    Budgets = {2}
    Delays = {0}
    NoRetry = NoRetry
    Procs = {p1}
    SlotLane <- LightOnly
    JOB_KINDS <- NoRetryKinds
    Registered <- AllRegistered
    NotifyKinds = {"response"}
    MaxFaults = 1
PROPERTIES
    NoRetryRunsOnce
