CONSTANTS
  NoValue = NoValue
  NoCall = NoCall
  Preorder <- FourLevels
  Positions <- MCPositions
  Opcodes <- MCOpcodes
  Commutative <- MCCommutative
  TrackerOpcodes <- MCTracked
  VarNames = {"x", "y"}
  ConstNames <- MCConstNames
  Literal <- MCLiteral
  Rules = {"BnotXor_FactorRule_1", "Bnot_FactorRule_1"}
  PatternOf <- MCPatternOf
  ReplacementOf <- MCReplacementOf
  ComputedOf <- MCComputedOf
  Accepts <- MCAccepts
  Compute <- MCCompute
  Subjects <- NestedInstructions
SPECIFICATION Spec
INVARIANT FallbackFindsAll
