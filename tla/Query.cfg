SPECIFICATION FairSpec
CONSTANTS
    Query = {q1}
    MaxUpdates = 3
    MaxHolds = 2
    MaxClears = 2
INVARIANTS
    NoBarLeft
PROPERTIES
    QueriesEnd
    RunsOnce
CHECK_DEADLOCK FALSE
