SPECIFICATION FairSpec
CONSTANTS
    r1 = r1
    r2 = r2
    r3 = r3
    b1 = b1
    b2 = b2
    Nobody = Nobody
    Requests <- MCRequests
    Bodies <- MCBodies
    Body <- MCBody
    ReservationTTL = 3
    ReplayTTL = 2
INVARIANTS
    NoDoubleRun
    ReplayMatchesBody
PROPERTIES
    ReplayStable
    NeverWedged
CHECK_DEADLOCK FALSE
