\* A reconnect while the pump is broadcasting.
SPECIFICATION Spec
CONSTANTS
    Pump = pump
    Tasks = {pump}
    STREAM_MAXLEN = 2
    MaxFrames = 2
    MaxConnects = 2
    MaxFaults = 0
    MaxFlushes = 0
\* Callers may stop broadcasting and reconnecting (the bounds are reached).
CHECK_DEADLOCK FALSE
INVARIANTS
    NoSilentGap
