SPECIFICATION FairSpec
CONSTANTS
  Runs = {r1, r2}
  Nodes = {n1}
  Results = {res1, res2}
  Causes = {err1}
  LeaseExpired = lease_expired
  NoValue = NoValue
  Compatible <- AllCompatible
  Capacities = {2}
  MaxAttempts = 2
  LeaseTTL = 1
  ReconcileLimit = 1
  MaxGrants = 2
INVARIANTS RecordsSound ActiveIsExact
PROPERTIES RefinesLifecycle ExpiredAttemptRecovered
