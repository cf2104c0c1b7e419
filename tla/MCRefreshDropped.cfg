\* A reconnect after the backend lost its state.
SPECIFICATION Spec
CONSTANTS
    Pump = pump
    Tasks = {pump}
    STREAM_MAXLEN = 2
    MaxFrames = 2
    MaxConnects = 2
    MaxFaults = 1
    MaxFlushes = 1
\* Callers may stop broadcasting and reconnecting (the bounds are reached).
CHECK_DEADLOCK FALSE
INVARIANTS
    RefreshTaken
