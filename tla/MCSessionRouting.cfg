SPECIFICATION RenewSpec
CONSTANTS
    Gateways = {g1, g2}
    Texts = {m1}
    Kills = {k1}
    None = None
    MaxSpawns = 2
    Faults = {"exit", "stop", "outage", "lost"}
INVARIANTS
    NoReplay
PROPERTIES
    NothingSkipped
    SplitBrainEnds
CHECK_DEADLOCK FALSE
