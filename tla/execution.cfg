SPECIFICATION FairExecSpec
CONSTANTS
  MaxAttempts = 3
  MaxFaults = 2
INVARIANTS
  SuccessIsReal
  FailureHasCause
  TimeoutIsHard
  NoFileLeft
  LogsResolve
PROPERTIES
  RunReturns
CHECK_DEADLOCK FALSE
