SPECIFICATION FairSpec
CONSTANTS
  Keys = {k1}
  Callers = {g1, g2}
  Targets = {t1, t2}
  Inputs = {i1, i2}
  MaxAttempts = 2
  Store = "postgres"
CHECK_DEADLOCK FALSE
INVARIANTS SideEffectOnce ReplayFitsRequest
PROPERTY EveryCallReturns
