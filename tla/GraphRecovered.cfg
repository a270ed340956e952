CONSTANTS
    Graphs <- MCGraphs
    MaxPlan = 2
    MaxBlocks = 10
SPECIFICATION Spec
INVARIANT SuccessIsAsCounted
CHECK_DEADLOCK FALSE
