SPECIFICATION DecisionsSpec
CONSTANTS
  Jobs = {j1, j2, j3}
  Window = 2
  Priorities <- LowHigh
  Horizon = 1
  MaxLate = 0
  MaxEvents = 1
  Batches <- FourJobs
  ActionSize = 2
INVARIANTS
  RewardCountsMisses
  OvertakesFew
  StrategiesAreOptimal
PROPERTIES
  DeadlineIsServed
  WindowReached
CHECK_DEADLOCK FALSE
