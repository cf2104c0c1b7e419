\* Three replicas; an outage and a flush, or two of either; one exit.
SPECIFICATION FairSpec
CONSTANTS
    r1 = r1
    r2 = r2
    r3 = r3
    Replicas <- Three
    Nobody = Nobody
    Ttl = 6
    Renew = 2
    Late = 1
    StartMax = 1
    StopMax = 1
    MaxFaults = 2
    MaxExits = 1
INVARIANTS
    TypeOK
    ExclusiveWithoutFaults
    StopsInTime
PROPERTIES
    SettlesOnLeader
