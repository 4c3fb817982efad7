SPECIFICATION CellSpec
CONSTANTS
    MaxFragments = 3
    Lines <- MCLines
    Cells <- MCCells
    Views <- MCViews
INVARIANTS
    SparkRunsTheCell
    BindBeforeRun
    BlameIsRight
    VariableOnlyOnSuccess
CHECK_DEADLOCK FALSE
