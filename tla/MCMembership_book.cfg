SPECIFICATION Spec
CONSTANTS
  Ids = {1, 2}
  a = a
  b = b
  Addrs = {a, b}
  NoAddr = NoAddr
  Config <- MCConfig
  Requested = {b, NoAddr}
  MaxLog = 2
  MaxRequests = 1
  MaxGaps = 2
  MaxEnds = 1
INVARIANTS
  ClientMatchesBook
  BookFollowsLog
CHECK_DEADLOCK FALSE
