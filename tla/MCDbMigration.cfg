SPECIFICATION FairSpec
CONSTANTS
    MaxJobs = 2
    MaxWrites = 2
    None = None
    Faults = {"up", "kill", "crash", "refused", "abort", "not_ready", "expire", "reboot", "orphan", "sample"}
CONSTRAINT Protected
CHECK_DEADLOCK FALSE
INVARIANTS
    TypeOK
    CancelHonoured
    NoLostWrite
    UrlFollowsBackend
PROPERTIES
    Settles
