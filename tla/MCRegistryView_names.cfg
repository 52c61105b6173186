SPECIFICATION ViewSpec
CONSTANTS
  Dimensions = 2
  Extends <- MCExtends
  DefaultWeight = 100
  MaxPort = 1
  Inputs <- MCInputs
  Requests <- MCRepeated
  Remotes <- MCRemotes
  TTL = 1
  MaxTime = 3
INVARIANT EveryNameIsAnswered
CHECK_DEADLOCK FALSE
