SPECIFICATION FairScalerSpec
CONSTANTS
  MinWorkers = 1
  MaxWorkers = 4
  BacklogPerWorker = 1
  Cooldown = 3
  MaxBacklog = 5
  MaxFaults = 3
  MaxOutages = 1
  FaultPoints <- SafeCalls
INVARIANTS
  FleetBounded
PROPERTIES
  DownIsSlow
  SettlesAtDesired
