SPECIFICATION Spec
CONSTANTS
    k1 = k1  k2 = k2  k3 = k3
    v1 = v1  v2 = v2
    Keys = {k1, k2, k3}
    Values = {v1, v2}
    Weigh <- Weights
    Configurations <- SmallCaches
    MaxSeq = 4
    MaxClock = 4
    MaxHits = 0
CHECK_DEADLOCK FALSE
SYMMETRY SymmetricKeys
INVARIANTS Accounted TableMatchesLinks WeightBound IterationComplete
PROPERTIES ImplementsMap
