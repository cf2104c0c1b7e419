SPECIFICATION RenewSpec
CONSTANTS
    Gateways = {g1, g2}
    Texts = {}
    Kills = {}
    None = None
    MaxSpawns = 3
    Faults = {"exit", "stop", "outage", "lost"}
INVARIANTS
    TypeOK
PROPERTIES
    SplitBrainEnds
CHECK_DEADLOCK FALSE
