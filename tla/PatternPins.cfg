CONSTANTS
  NoValue = NoValue
  NoCall = NoCall
  Preorder <- ThreeLevels
  Positions <- MCPositions
  Opcodes <- MCOpcodes
  Commutative <- MCCommutative
  TrackerOpcodes <- MCTracked
  VarNames = {"x", "y"}
  ConstNames <- MCConstNames
  Literal <- MCLiteral
  Rules = {"CstSimplificationRule10"}
  PatternOf <- MCPatternOf
  ReplacementOf <- MCReplacementOf
  ComputedOf <- MCComputedOf
  Accepts <- MCAccepts
  Compute <- MCCompute
  Subjects <- MaskInstructions
SPECIFICATION Spec
PROPERTY ConstantsMatchAny
