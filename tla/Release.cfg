SPECIFICATION FairSpec
CONSTANTS
    Iter = {i1, i2}
    Worker = {w1, w2}
    MaxId = 2
    NoIter = NoIter
INVARIANTS
    OneDrain
    NoLostRelease
    BusyHasOwner
PROPERTIES
    Refinement
    ReleaseReachesServer
CHECK_DEADLOCK FALSE
