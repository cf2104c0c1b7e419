\* Two broadcasting tasks, one entry retained, a reconnect, and a failed call or a loss of state.
SPECIFICATION FairSpec
CONSTANTS
    Pump = pump
    Tasks = {pump, other}
    STREAM_MAXLEN = 1
    MaxFrames = 2
    MaxConnects = 2
    MaxFaults = 1
    MaxFlushes = 1
\* Callers may stop broadcasting and reconnecting (the bounds are reached).
CHECK_DEADLOCK FALSE
INVARIANTS
    TypeOK
    GapClosed
    OnlyDuplicatesDropped
PROPERTIES
    GateOpens
