SPECIFICATION Spec
CONSTANTS
  Keys = {k1}
  Callers = {g1, g2}
  Targets = {t1}
  Inputs = {i1, i2}
  MaxAttempts = 1
  Store = "postgres"
CHECK_DEADLOCK FALSE
INVARIANT DifferentRequestRefused
