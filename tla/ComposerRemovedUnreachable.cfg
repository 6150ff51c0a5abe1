SPECIFICATION Spec
CONSTANTS
  self = self
  can = can
  gps = gps
  selfApi = selfApi
  canApi = canApi
  gpsApi = gpsApi
  Uid = {can}
  SelfUid = self
  SelfApi = selfApi
  ApiOf <- MCApiOf
  WithInit = {can}
  Subscribing = {can}
  Id = {1, 2, 3}
  Definition <- Acyclic
  MaxSources = 3
  MaxSignals = 4
  MaxRequests = 2
CHECK_DEADLOCK FALSE
INVARIANT RemovedUnreachable
