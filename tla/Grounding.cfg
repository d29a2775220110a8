SPECIFICATION Spec
CONSTANTS
    Runs = {r1, r2, r3}
    LastFiling = 2
INVARIANT GroundingInv
CHECK_DEADLOCK FALSE
