SPECIFICATION FairSpec
CONSTANTS
  r1 = r1
  r2 = r2
  a = a
  b = b
  c = c
  v = v
  k = k
  Signal = {r1, r2, a, b, c, v}
  Client = {k}
  Thread = {t1, t2}
  None = None
  Depends <- MCDepends
  Observes <- MCObserves
  Watches <- MCWatches
  Filtering = {b, v}
  Clear <- MCClear
  Rank <- MCRank
  Root <- MCRoot
  MaxSets <- MCMaxSets
INVARIANTS TypeOK LocksClimb Told UpToDate Inv
PROPERTIES PushesInOrder Completes
CHECK_DEADLOCK FALSE
