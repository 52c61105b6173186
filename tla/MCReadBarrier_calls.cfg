SPECIFICATION FairSpec
CONSTANTS
  r1 = r1
  r2 = r2
  r3 = r3
  c1 = c1
  c2 = c2
  NoReader = NoReader
  Readers <- MCThree
  Contexts <- MCTwoContexts
  CtxOf <- MCMixedCtx
  MaxCommit = 2
  MaxDrops = 1
INVARIANTS
  WaitersAreLive
  ReadsAreFresh
  IndexIsAnswered
PROPERTY
  CallsReturn
CHECK_DEADLOCK FALSE
