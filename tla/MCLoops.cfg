\* A bang-bang loop, the abort monitor and an unconditional writer; no charts.
SPECIFICATION HistSpec
CONSTANTS
  Charts <- MCCharts
  Steps <- MCSteps
  NoStep = "none"
  Trans <- MCTrans
  StepsOf <- MCStepsOf
  ChartOf <- MCChartOf
  From <- MCFrom
  To <- MCTo
  Initial <- MCInitial
  AbortStep <- MCAbortStep
  Progs <- MCProgs
  Outputs = {"sol", "main"}
  NormallyOpen = {}
  StepWrites <- MCStepWrites
  CodeWrites <- MCCodeWrites
  Regulation = {}
  Requesters = {"monitor"}
  Faulty = {"bangbang"}
  Autostart = {}
  LoadRank <- MCLoadRank
  Loops = {"lox"}
  Solenoid <- MCSolenoid
  Gate <- MCGate
  NoGate = "none"
  Request = "auto_abort_request"
  Rows = {"PT0"}
  LoadChoices <- Regulators
  ManualTags = {"sol"}
  ForceTags = {"sol"}
  GlobalWrites = {"auto_abort_request", "lox"}
  GlobalForces = {"auto_abort_request"}
INVARIANTS SwitchedOffStaysOff LoopOwnsSolenoid
PROPERTIES ReArmedOnlyByReset AbortRequestServed NothingMovesByItself
