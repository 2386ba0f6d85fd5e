SPECIFICATION FairSpec
CONSTANTS
  Runs = {r1}
  Nodes = {n1, n2}
  Calls = {c1, c2}
  Results = {res1, res2}
  Causes = {err1, err2}
  LeaseExpired = lease_expired
  NoValue = NoValue
  Compatible <- AllCompatible
  Capacities = {1}
  MaxAttempts = 2
  LeaseTTL = 2
  ReconcileLimit = 1
  MaxGrants = 3
INVARIANTS TypeOK RunsCoherent LeasesFenced LogIsFaithful RepeatedReportAccepted
PROPERTIES LeaseNotStolen TerminalIsFinal RefinesLifecycle
PROPERTIES CancellationCompletes DeadlineEnforced ExpiredAttemptRecovered UnstartedLeaseReclaimed
