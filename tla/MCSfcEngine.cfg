\* Two small charts, timers up to 4 scans.
SPECIFICATION Spec
CONSTANTS
  Charts <- MCCharts
  Steps <- MCSteps
  NoStep = "none"
  Trans <- MCTrans
  StepsOf <- MCStepsOf
  ChartOf <- MCChartOf
  From <- MCFrom
  To <- MCTo
  Initial <- MCInitial
  AbortStep <- MCAbortStep
  Order <- MCOrder
  Timed <- MCTimed
  Delay <- MCDelay
  MaxTime = 4
INVARIANTS NeverOverdue
PROPERTIES LeftOnTime ChartStep
