SPECIFICATION FairSpec
CONSTANTS
  Nano = 3
  IntMax = 7
  U64 = 64
  Time <- MCTime
  Number <- MCNumber
  Text = text
  Null = null
  DblMax = 1000
  Retention <- MCRetention
  Frequency <- MCFrequency
  Unit <- MCUnit
  Metadata <- MCMetadata
  Error = error
  Absent = absent
  Seconds <- MCSeconds
  text = text
  null = null
  error = error
  absent = absent
  meta = meta
CHECK_DEADLOCK FALSE
INVARIANTS
  TypeOK
  LastHistorized
  Inv
  AnswersAgree
PROPERTIES
  RetentionKept
  HistoryBounded
  PurgeTerminates
