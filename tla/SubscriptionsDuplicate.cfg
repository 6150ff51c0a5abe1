SPECIFICATION Spec
CONSTANTS
  Signal = {s1}
  Client = {c1}
  Thread = {t1, t2}
  None = None
  Pipelined = TRUE
  Faults = {}
CHECK_DEADLOCK FALSE
INVARIANT NoDuplicateObserver
