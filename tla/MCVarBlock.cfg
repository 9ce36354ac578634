\* A VAR block that is not closed before the first statement.
CONSTANTS
  IntMax = 7
  LoopLimit = 9
  MathFn <- MCMathFn
  Literal <- MCLiteral
  Tags <- MCTags
  Sources <- OpenSources
SPECIFICATION Spec
PROPERTIES
  EveryTurnReads
CHECK_DEADLOCK FALSE
