SPECIFICATION Spec
CONSTANTS
  None = None
  f1 = f1
  f2 = f2
  Funcs = {f1, f2}
  NMicro = 2
  NCtree = 1
  CallsAt <- MCCallsAt
  MaxPasses = 2
  Kinds = {"blank", "clean", "flat"}
  FaultSets <- Healthy
CHECK_DEADLOCK FALSE
INVARIANTS EveryPassStartsClean
