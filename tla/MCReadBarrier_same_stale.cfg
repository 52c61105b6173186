SPECIFICATION Spec
CONSTANTS
  r1 = r1
  r2 = r2
  r3 = r3
  c1 = c1
  c2 = c2
  NoReader = NoReader
  Readers <- MCPair
  Contexts <- MCOneContext
  CtxOf <- MCSameCtx
  MaxCommit = 3
  MaxDrops = 0
INVARIANTS
  AnsweredReadsAreFresh
CHECK_DEADLOCK FALSE
