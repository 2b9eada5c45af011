SPECIFICATION AdmissionSpec
CONSTANTS
  Clients = {c1, c2}
  Keys = {k1}
  NoKey = NoKey
  MaxJobs = 5
  Sizes <- OneOrTwo
  Tenants <- TwoTenants
  Window = 2
  MaxTime = 3
  MaxFaults = 1
SYMMETRY TwinClients
INVARIANTS
  RateKept
  OneJobPerKey
  QuotaOvershoot
CHECK_DEADLOCK FALSE
