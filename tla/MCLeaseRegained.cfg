SPECIFICATION FairSpec
CONSTANTS
    Gateways = {g1, g2}
    Texts = {}
    Kills = {}
    None = None
    MaxSpawns = 2
    Faults = {"lost"}
PROPERTIES
    LeaseRegained
CHECK_DEADLOCK FALSE
