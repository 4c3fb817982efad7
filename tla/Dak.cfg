SPECIFICATION Spec
CONSTANTS
    Setups <- MCSetups
    MaxParentDepth = 3
    MaxFlagDepth = 1
    MaxWrites = 1
INVARIANTS
    AnswerWasTrue
    LinkNeedsDak
