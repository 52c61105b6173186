SPECIFICATION Spec
CONSTANTS
  MaxIndex = 5
  MaxTerm = 3
  MaxBatch = 2
  SegmentRecords = 2
  MaxCrashes = 2
  MaxHalf = 1
  MaxFaults = 1
INVARIANTS
  TypeOK
  AckedSurvive
  LoadIsContiguous
  StateCoversEntries
  SegmentsMatchFiles
  MirrorsMemoryWAL
CHECK_DEADLOCK FALSE
