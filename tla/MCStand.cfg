\* The clock, the cards and the valves around the PLC.
CONSTANTS
  MaxBatch = 2
  Batch = 1
  Signals = {"fast", "slow"}
  Period <- MCPeriod
  Lowest = 0
  Highest = 4
  Quantum = 2
  Coils = {"PB1", "PB2", "S1"}
  NormallyOpen = {"PB1"}
  PlantOpen = {"PB1"}
  Pneumatic = {"PB1", "PB2"}
  Latency = 1
  DeadTime = 5
  Plans <- MCPlans
  MaxDt = 3
  Long = 7
SPECIFICATION HSpec
INVARIANTS
  SimulatedTimeIsPaced
  ClocksAgree
  ReadingsAreRecent
  ValvesFollow
CHECK_DEADLOCK FALSE
