SPECIFICATION Spec
CONSTANTS
    MaxObjects = 3
    MaxSpawns = 4
    RespawnLimit = 2
    Faults = {"crash", "failed", "restart"}
CONSTRAINT Protected
INVARIANTS
    TypeOK
    NoOrphan
    OneRunner
    ActiveHasHandle
CHECK_DEADLOCK FALSE
