SPECIFICATION FairSpec
CONSTANTS
    Thread = {t1, t2}
    Custom = {c1}
    Generated = {}
    MaxObj = 3
    MaxUuid = 3
    MaxPolls = 2
    StartRetries = 1
    Interrupts = FALSE
    NoId = NoId
    Gen = Gen
INVARIANTS
    DefaultOwnsId
    VerdictHonest
PROPERTIES
    NamedIsCurrent
    CallsReturn
CHECK_DEADLOCK FALSE
