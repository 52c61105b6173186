SPECIFICATION ViewSpec
CONSTANTS
  Dimensions = 2
  Extends <- MCExtends
  DefaultWeight = 100
  MaxPort = 1
  Inputs <- MCInputs
  Requests <- MCRequests
  Remotes <- MCRemotes
  TTL = 1
  MaxTime = 3
INVARIANTS
  QueryAnswersRequest
  WatchFollowsQuery
  EitherFormReaches
  ScrapedIsQueried
CHECK_DEADLOCK FALSE
