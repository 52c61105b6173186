SPECIFICATION FairSpec
CONSTANTS
  s1 = s1
  s2 = s2
  Streams <- MCStreams
  MaxRevision = 3
  ReadyBuffer = 3
  HistoryCap = 1
  Buffer = 1
ACTION_CONSTRAINT S2AsksForNothing
INVARIANTS
  TypeOK
  NoGap
  OwedIsOnItsWay
PROPERTY EventsReachStreams
CHECK_DEADLOCK FALSE
