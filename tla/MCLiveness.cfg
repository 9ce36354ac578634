\* An abort chain under fair scanning.
SPECIFICATION FairSpec
CONSTANTS
  Charts <- MCCharts
  Steps <- MCSteps
  NoStep = "none"
  Trans <- MCTrans
  StepsOf <- MCStepsOf
  ChartOf <- MCChartOf
  From <- MCFrom
  To <- MCTo
  Initial <- MCInitial
  AbortStep <- MCAbortStep
  Progs <- MCProgs
  Outputs = {"vent", "main"}
  NormallyOpen = {"vent"}
  StepWrites <- MCStepWrites
  CodeWrites <- MCCodeWrites
  Regulation = {}
  Requesters = {"monitor"}
  Faulty = {"hotfire"}
  Autostart = {}
  LoadRank <- MCLoadRank
  Loops = {}
  Solenoid <- MCSolenoid
  Gate <- MCGate
  NoGate = "none"
  Request = "auto_abort_request"
  Rows = {"PT0"}
  LoadChoices <- OneSequence
  ManualTags = {"main"}
  ForceTags = {}
  GlobalWrites = {}
  GlobalForces = {}
  Timed = {"safe"}
PROPERTIES AbortEnds
