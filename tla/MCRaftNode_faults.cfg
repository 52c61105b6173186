SPECIFICATION FairSpec
CONSTANTS
  k1 = k1
  k2 = k2
  Keys <- MCKeys
  Commands <- MCFewCommands
  MaxIndex = 3
  SnapshotEntries = 1
  CompactRetain = 0
  KeepSnapshots = 1
  DefaultKeep = 2
  MaxCrashes = 1
  MaxTornCrashes = 1
  MaxWalFaults = 1
  MaxSnapFaults = 1
INVARIANTS
  RecoveryHasNoHole
  SnapshotsReflectTheirIndex
  CompactedIsServed
PROPERTY CommittedIsApplied
CHECK_DEADLOCK FALSE
