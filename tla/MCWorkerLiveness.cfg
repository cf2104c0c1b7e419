\* Two processes with two light slots and a heavy one each: a job can be
\* reclaimed by a slot of the same process, under the same worker_id, or by the
\* other process, and every job ends.
SPECIFICATION FairSpec
CONSTANTS
    p1 = p1
    p2 = p2
    MaxJobs = 1
    Kinds = {"response", "refresh"}
    Keys = {}
    NoKey = NoKey
    Priorities = {0}
    Budgets = {1, 2}
    Delays = {0, 1}
    NoRetry = NoRetry
    Procs = {p1, p2}
    SlotLane <- HeavyAndTwoLight
    JOB_KINDS <- TwoKinds
    Registered <- AllRegistered
    NotifyKinds = {"response"}
    MaxFaults = 2
INVARIANTS
    NewestClaimRecorded
    DrainRecordsFinished
PROPERTIES
    EveryJobEnds
    EveryOutcomeAnnounced
