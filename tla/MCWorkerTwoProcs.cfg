\* Two processes with one light slot each, two jobs, retries, two faults.
SPECIFICATION Spec
CONSTANTS
    p1 = p1
    p2 = p2
    k1 = k1
    MaxJobs = 2
    Kinds = {"response"}
    Keys = {k1}
    NoKey = NoKey
    Priorities = {0}
    Budgets = {2}
    Delays = {0}
    NoRetry = NoRetry
    Procs = {p1, p2}
    SlotLane <- LightOnly
    JOB_KINDS <- RetryKinds
    Registered <- AllRegistered
    NotifyKinds = {"response"}
    MaxFaults = 2
SYMMETRY ProcSymmetry
INVARIANTS
    TypeOK
    AnnouncedOnce
    NewestClaimRecorded
    OneLiveJobPerKey
    AttemptsWithinBudget
PROPERTIES
    TerminalIsFinal
    LeaseProtectsHolder
    ImplementsContract
