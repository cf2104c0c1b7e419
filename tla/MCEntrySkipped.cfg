SPECIFICATION Spec
CONSTANTS
    Gateways = {g1, g2, g3}
    Texts = {m1, m2}
    Kills = {}
    None = None
    MaxSpawns = 1
    Faults = {}
PROPERTIES
    OvertakenTaken
CHECK_DEADLOCK FALSE
