\* Ladder and structured text on the runtime, scan by scan.
CONSTANTS
  IntMax = 15
  LoopLimit = 9
  MathFn <- MCMathFn
  Literal <- MCLiteral
  Tags <- MCTags
  Plans <- MCPlans
  Compiled <- CompileProgram
  RunBody <- ExecuteProgram
SPECIFICATION HSpec
INVARIANTS
  TimersKeepTime
  EdgesCountOnce
  ForcesHold
  ImageIsTyped
PROPERTIES
  FaultsLeaveNoTrace
CHECK_DEADLOCK FALSE
