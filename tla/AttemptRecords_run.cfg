SPECIFICATION FairSpec
CONSTANTS
  Writers = {"broker", "upload", "report", "reconciler", "h1", "h2"}
  Hosts = {"h1", "h2"}
  Interactions = {"i1"}
  Artifacts = {"a1", "a2"}
  MaxFaults = 2
CHECK_DEADLOCK FALSE
INVARIANTS ArtifactsSound OneAnswer
PROPERTIES AnswerArrives ReportRecorded
