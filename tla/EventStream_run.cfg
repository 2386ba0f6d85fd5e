SPECIFICATION FairStreamSpec
CONSTANTS
  Writers = {w1, w2}
  Interactions = {i1}
  Reported = {"create", "resolve", "record", "fail"}
  MaxEvents = 4
  MaxBreaks = 2
CHECK_DEADLOCK FALSE
INVARIANTS StreamSound HandledIsPrefix
PROPERTIES WatchReturns
