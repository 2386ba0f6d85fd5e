SPECIFICATION FairSpec
CONSTANTS
  Executions = {"e1", "e2"}
  Calls = {"c1", "c2"}
  AppServers = {"e2"}
  Spawners = {"e1"}
  MaxExecutions = 1
  Workspace = "temp"
INVARIANTS CallsSound SuccessIsEarned
PROPERTIES CancelledReturns CallServed
CHECK_DEADLOCK FALSE
