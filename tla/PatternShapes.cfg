CONSTANTS
  NoValue = NoValue
  NoCall = NoCall
  Preorder <- ThreeLevels
  Positions <- MCPositions
  Opcodes <- MCOpcodes
  Commutative <- MCCommutative
  TrackerOpcodes <- MCTracked
  VarNames = {"x", "y"}
  ConstNames <- MCConstNames
  Literal <- MCLiteral
  Rules = {"AndBnot_HackersDelightRule_2", "BnotXor_FactorRule_1", "Neg_HackersDelightRule_2"}
  PatternOf <- MCPatternOf
  ReplacementOf <- MCReplacementOf
  ComputedOf <- MCComputedOf
  Accepts <- MCAccepts
  Compute <- MCCompute
  Subjects <- MixedInstructions
SPECIFICATION Spec
INVARIANTS
  TypeOK
  ReplacedOnlyByItsRule
  OperandsOfThisMatch
  LeafMatchesFound
