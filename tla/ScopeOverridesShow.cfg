SPECIFICATION Spec
CONSTANTS
  None = None
  Unset = Unset
  f1 = f1
  f2 = f2
  folding = folding
  unflattener = unflattener
  flat = flat
  instruction = instruction
  flow = flow
  mA = mA
  mB = mB
  pA = pA
  pB = pB
  unflattening = unflattening
  Funcs = {f1, f2}
  Rules = {folding, unflattener}
  Tags = {flat}
  Pipelines = {flow}
  Maturities = {mA}
  Projects = {pA, pB}
  Registered = {unflattening}
  PipelineOf <- MCPipelineOf
  DeltasOf <- MCDeltasOf
  Activated <- MCActivated
  ConfigOf <- MCConfigOf
  DefaultSelector <- MCDefaultSelector
  OverrideChoices <- SessionOverrides
  InferenceChoices <- MCInferenceChoices
  HintChoices <- SessionHints
  MaxGeneration = 3
  MaxStarts = 2
  WriteFaults = FALSE
CHECK_DEADLOCK FALSE
INVARIANTS OverridesShow
