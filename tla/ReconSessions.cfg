SPECIFICATION Spec
CONSTANTS
  None = None
  f1 = f1
  f2 = f2
  Funcs = {f1, f2}
  NMicro = 2
  NCtree = 1
  CallsAt <- MCCallsAt
  MaxPasses = 3
  Kinds = {"blank", "flat"}
  FaultSets <- Healthy
CHECK_DEADLOCK FALSE
INVARIANTS TypeOK CleanSlate AppliedIsStored SummaryIsCurrent HintsReflectEvidence
PROPERTIES CollectOnce
SYMMETRY Symmetry
