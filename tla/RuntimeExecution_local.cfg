SPECIFICATION Spec
CONSTANTS
  Executions = {"e1", "e2"}
  Calls = {"c1"}
  AppServers = {"e2"}
  Spawners = {}
  MaxExecutions = 2
  Workspace = "local"
INVARIANT MailboxIsPrivate
CHECK_DEADLOCK FALSE
