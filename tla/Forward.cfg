SPECIFICATION Spec
CONSTANTS
    Consumer = {k1, k2}
    ServerToClient = TRUE
    Bytes = 3
    Buffer = 2
    Attempts = 2
    Limit = 2
    RecvTimeout = 1
    MaxNow = 5
INVARIANTS
    NoByteLost
    GivesUpOnlyOnStall
    WedgedIsCut
PROPERTY
    CutOnlyOnSilence
CHECK_DEADLOCK FALSE
