SPECIFICATION Spec
CONSTANTS
  Nodes = {n1, n2}
  MaxKey = 2
  History = 1
  MaxRev = 2
  MaxTail = 2
  MaxChanges = 1
  MaxFailures = 1
  MaxRestarts = 1
INVARIANT TypeOK
PROPERTIES
  CheckpointIsCovered
  ReplicaConverges
CONSTRAINT NotAstray
CHECK_DEADLOCK FALSE
