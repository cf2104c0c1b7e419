\* One loss of the backend's state.
SPECIFICATION Spec
CONSTANTS
    r1 = r1
    r2 = r2
    r3 = r3
    Replicas <- Two
    Nobody = Nobody
    Ttl = 3
    Renew = 1
    Late = 0
    StartMax = 0
    StopMax = 0
    MaxFaults = 1
    MaxExits = 0
INVARIANTS
    AtMostOneBelieves
