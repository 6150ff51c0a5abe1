SPECIFICATION FairSpec
CONSTANTS
  Signal = {s1}
  Client = {c1, c2}
  Thread = {t1, t2}
  None = None
  Pipelined = FALSE
  Faults = {}
CHECK_DEADLOCK FALSE
PROPERTY UpdatesDelivered
