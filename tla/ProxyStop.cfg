SPECIFICATION FairSpec
CONSTANTS
    Conn = {c1, c2}
    Stopper = {s1}
    StartFails = TRUE
    Accepting = Accepting
INVARIANTS
    StopClosesSockets
    EndedHoldsNothing
PROPERTIES
    StopEndsEverything
    StopComesBack
CHECK_DEADLOCK FALSE
