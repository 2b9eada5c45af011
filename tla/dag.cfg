SPECIFICATION LoopsRun
CONSTANTS
  j1 = j1
  j2 = j2
  j3 = j3
  w1 = w1
  w2 = w2
  c1 = c1
  none = none
  Jobs = {j1, j2, j3}
  Parents <- ChainAndLoop
  CreatedAt <- Ranks
  ListLimit = 2
  StreamMaxLen = 10
  MaxMsgs = 5
  HolderIds = {w1, w2}
  NoHolder = none
  Workers = {w1}
  WorkerId <- OwnIds
  MaxRetries = 0
  ClaimBatch = 1
  ClaimBusy = FALSE
  Clients = {c1}
  MaxFaults = 0
  MaxStalls = 0
  MaxCommands = 1
  WorkerFaults <- NoPoint
  SchedFaults <- NoPoint
INVARIANTS
  DependencyGate
PROPERTIES
  ImplementsDag
  PendingIsScheduled
CHECK_DEADLOCK FALSE
