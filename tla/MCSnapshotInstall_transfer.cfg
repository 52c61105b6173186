SPECIFICATION Spec
CONSTANTS
  Streams = {s1, s2}
  Peers = {p1, p2}
  Loop = loop
  Chunks = 2
  MaxIndex = 4
  SnapshotEntries = 2
  Keep = 1
  KeepSnapshots = 1
  MaxOpens = 2
  MaxCrashes = 1
SYMMETRY PeerSymmetry
INVARIANTS
  OneSenderPerSnapshot
  LatestIsWhole
  RecoveryHasNoHole
PROPERTIES
  NewestOnlyAdvances
CHECK_DEADLOCK FALSE
