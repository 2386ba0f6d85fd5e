SPECIFICATION FairNodeSpec
CONSTANTS
  Runs = {r1}
  Nodes = {n1}
  Calls = {n1}
  Results = {res1}
  Causes = {err1, interrupted}
  LeaseExpired = lease_expired
  NoValue = NoValue
  Compatible <- AllCompatible
  Capacities = {1}
  MaxAttempts = 2
  LeaseTTL = 2
  ReconcileLimit = 1
  MaxGrants = 4
  Interrupted = interrupted
  MaxEvents = 2
  MaxFiles = 1
  MaxFaults = 2
  ForeignStatuses = {200, 502}
PROPERTIES LostLeaseStops RecoveryEnds CancellationCompletes
