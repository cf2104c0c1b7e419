------------------------- MODULE MCIdempotencyKeys --------------------------
EXTENDS IdempotencyKeys

CONSTANTS r1, r2, r3, b1, b2

MCRequests == {r1, r2, r3}
MCBodies == {b1, b2}
MCBody == [r \in MCRequests |-> IF r = r3 THEN b2 ELSE b1]
=============================================================================
