SPECIFICATION Spec
CONSTANTS
    Rpc = {r1, r2}
    Ttl = 1
    MaxNow = 2
    MaxInc = 2
INVARIANTS
    DeathSurfaces
    OutageIsNoVerdict
CHECK_DEADLOCK FALSE
