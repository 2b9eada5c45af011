SPECIFICATION FairClockSpec
CONSTANTS
  Workers = {w1, w2}
  NoHolder = NoHolder
  Threads = {t1, t2}
  NoThread = NoThread
  TTL = 6
  Heartbeat = 2
  Delay = 1
  MaxFaults = 1
  MaxCrashes = 1
INVARIANTS
  OneHolder
PROPERTIES
  KeptLeasesStay
  LostIsLost
  OrphanedLeaseEnds
