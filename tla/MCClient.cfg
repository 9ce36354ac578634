\* Dev and production clients under the browser's fairness.
SPECIFICATION FairSpec
CONSTANTS
  DevModes = {TRUE, FALSE}
  ForcedMocks = {TRUE, FALSE}
  MaxSockets = 3
  MaxMocks = 2
  MaxRequests = 2
INVARIANTS OneChain StatusIsHonest NoOrphanRequest
PROPERTIES ProbingGoesOn ConnectingEnds
CHECK_DEADLOCK FALSE
