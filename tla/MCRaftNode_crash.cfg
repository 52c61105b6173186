SPECIFICATION Spec
CONSTANTS
  k1 = k1
  k2 = k2
  Keys <- MCKeys
  Commands <- MCCommands
  MaxIndex = 4
  SnapshotEntries = 2
  CompactRetain = 1
  KeepSnapshots = 1
  DefaultKeep = 2
  MaxCrashes = 1
  MaxTornCrashes = 0
  MaxWalFaults = 0
  MaxSnapFaults = 0
INVARIANTS
  AppliedIsDurable
  CaughtUpIsExact
  StatusIsHonest
  CompactionReclaims
  RestartNeverPanics
PROPERTY
  RecoverableSpec
SYMMETRY MCSymmetry
CHECK_DEADLOCK FALSE
