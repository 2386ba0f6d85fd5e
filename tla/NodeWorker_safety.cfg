SPECIFICATION NodeSpec
CONSTANTS
  Runs = {r1}
  Nodes = {n1, n2}
  Calls = {n1, n2}
  Results = {res1}
  Causes = {err1, interrupted}
  LeaseExpired = lease_expired
  NoValue = NoValue
  Compatible <- AllCompatible
  Capacities = {1}
  MaxAttempts = 2
  LeaseTTL = 1
  ReconcileLimit = 1
  MaxGrants = 3
  Interrupted = interrupted
  MaxEvents = 2
  MaxFiles = 1
  MaxFaults = 2
  ForeignStatuses = {401, 403, 404, 409, 410, 502}
INVARIANTS DeliverySound ReturnIsTrue
PROPERTY PendingRetained
