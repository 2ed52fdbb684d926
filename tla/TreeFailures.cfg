CONSTANTS
  MaxValue = 3
  MaxBatch = 2
  Values <- MCValues
  Batches <- MCBatches
  CountWord = 4
  Missing = Missing
SPECIFICATION Spec
INVARIANTS
  TypeOK
  IndexedList
  OneLowLeaf
  LevelZeroPaired
  MerkleConsistent
  OperandsPresent
  ProofsComplete
  SnapshotRoundTrip
  RacedExportIsWhole
  CutFileRefused
PROPERTIES
  ImplementsList
