SPECIFICATION Spec
CONSTANTS
    Thread = {t1}
    Custom = {c1}
    Generated = {g1, g2}
    MaxObj = 2
    MaxUuid = 2
    MaxPolls = 2
    StartRetries = 1
    Interrupts = TRUE
    NoId = NoId
    Gen = Gen
INVARIANTS
    OneOpenSession
    NamedOnlyOnRequest
    NoOrphan
    VerdictHonest
PROPERTIES
    CallsAdvance
CHECK_DEADLOCK FALSE
