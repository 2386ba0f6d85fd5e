SPECIFICATION Spec
CONSTANTS
  Runs = {r1, r2}
  Nodes = {n1}
  Calls = {c1, c2}
  Results = {res1}
  Causes = {err1}
  LeaseExpired = lease_expired
  NoValue = NoValue
  Compatible <- AllCompatible
  Capacities = {1}
  MaxAttempts = 1
  LeaseTTL = 1
  ReconcileLimit = 1
  MaxGrants = 1
INVARIANT CapacityRespected
