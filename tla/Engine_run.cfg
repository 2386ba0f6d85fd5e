SPECIFICATION Spec
CONSTANTS
  Callers = {"a", "b", "c"}
  Keys = {"k1", "k2"}
  Threads = {"t1", "t2"}
  MaxEmits = 2
INVARIANTS EngineSound
PROPERTY TerminalOrInProgress
CHECK_DEADLOCK FALSE
