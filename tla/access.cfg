SPECIFICATION FairAccessSpec
CONSTANTS
  Clients = {c1, c2}
  Tenants = {1, 2}
  DefaultTenant = 1
  Hashes = {0, 1}
  BootHash = 0
  Accounts = {3}
  NoCred = NoCred
  Grants = {"operator"}
  Lifetime = 1
  Replicas = {r1, r2}
  Deployments <- AnyDeployment
  MaxCrashes = 1
INVARIANTS
  SafeInProduction
  AuditMatches
PROPERTIES
  TenantsApart
  RevokedForGood
  RevokedTokensDie
  ReplicasServe
CHECK_DEADLOCK FALSE
