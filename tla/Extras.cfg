SPECIFICATION ExtrasSpec
INVARIANTS
    ForeignSurvives
    DisabledLeavesNothing
