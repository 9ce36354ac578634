\* A production client.
SPECIFICATION Spec
CONSTANTS
  DevModes = {FALSE}
  ForcedMocks = {FALSE}
  MaxSockets = 3
  MaxMocks = 2
  MaxRequests = 2
INVARIANTS KeepsRetrying
CHECK_DEADLOCK FALSE
