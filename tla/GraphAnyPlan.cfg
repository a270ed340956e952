CONSTANTS
    Graphs <- MCGraphs
    MaxPlan = 2
    MaxBlocks = 10
SPECIFICATION Spec
INVARIANT AnyPlanIsAsCounted
CHECK_DEADLOCK FALSE
