CONSTANTS
  MaxSerial = 4
  MaxLength = 4
  Values <- MCValues
  Batches <- MCBatches
  CRLs <- MCCRLs
  NilSerial = NilSerial
SPECIFICATION BuildSpec
CHECK_DEADLOCK FALSE
INVARIANTS
  BuildSucceeds
  RootOfTheSet
