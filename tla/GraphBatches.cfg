CONSTANTS
    Graphs <- MCGraphs
    MaxPlan = 2
    MaxBlocks = 10
SPECIFICATION Spec
INVARIANTS
    TypeOK
    FlowIsAsCounted
    RestoredIsStart
CHECK_DEADLOCK FALSE
