SPECIFICATION Spec
CONSTANTS
  Nodes = {n1, n2}
  Handlers = {h1}
  MaxKey = 2
  Data = {"d"}
  TTLs = {0}
  DefaultTTL = 1
  Limit = 1
  MaxTime = 3
  MaxTail = 2
  MaxCalls = 3
  MaxChanges = 1
  MaxFailures = 1
INVARIANTS
  PassSkipsNothing
PROPERTIES
  RemovalIsJustified
  ExpiredIsRemoved
CHECK_DEADLOCK FALSE
