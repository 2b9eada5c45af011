SPECIFICATION Spec
CONSTANTS
  j1 = j1
  j2 = j2
  j3 = j3
  w1 = w1
  w2 = w2
  c1 = c1
  none = none
  Jobs = {j1}
  Parents <- NoParents
  CreatedAt <- Ranks
  ListLimit = 10
  StreamMaxLen = 10
  MaxMsgs = 3
  HolderIds = {w1, w2}
  NoHolder = none
  Workers = {w1, w2}
  WorkerId <- OwnIds
  MaxRetries = 1
  ClaimBatch = 1
  ClaimBusy = FALSE
  Clients = {c1}
  MaxFaults = 1
  MaxStalls = 0
  MaxCommands = 1
  WorkerFaults <- SafeWorkerPoints
  SchedFaults <- SafeSchedPoints
SYMMETRY TwinWorkers
INVARIANTS
  RetryBudget
  NoJobLost
  DeadLettersMatch
CHECK_DEADLOCK FALSE
