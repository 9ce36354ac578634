\* Every source of every family from its first token to its first scan.
CONSTANTS
  IntMax = 7
  LoopLimit = 9
  MathFn <- MCMathFn
  Literal <- MCLiteral
  Tags <- MCTags
  Sources <- MCSources
SPECIFICATION Spec
INVARIANTS
  TreeIsTheGrammars
  RecoveryIsLocal
  TypesAreKept
  DivisionIdentity
  ForCounts
CHECK_DEADLOCK FALSE
