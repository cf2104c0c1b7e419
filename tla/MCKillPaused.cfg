SPECIFICATION Spec
CONSTANTS
    MaxObjects = 2
    MaxSpawns = 2
    RespawnLimit = 2
    Faults = {}
INVARIANTS
    KillDestroysPaused
CHECK_DEADLOCK FALSE
