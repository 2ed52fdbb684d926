CONSTANTS
  MaxValue = 4
  MaxBatch = 1
  Values <- MCValues
  Batches <- MCBatches
  CountWord = 4
  Missing = Missing
SPECIFICATION FairSpec
INVARIANTS
  MerkleConsistent
  ProofsComplete
  ProofsSound
  WireKeepsProofs
  LostFieldsProveNothing
PROPERTIES
  WriterReturns
