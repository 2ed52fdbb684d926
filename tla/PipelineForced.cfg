CONSTANTS
  g2 = g2
  g3 = g3
  Runs = {r1}
  IssuerSeq <- MCTwoIssuers
  Relayer = Relayer
  Absent = Absent
  Corrupt = Corrupt
  NoNumber = NoNumber
  MayOmit = FALSE
  WriteFaults = FALSE
  MaxVersions = 2
  MaxFaults = 2
SPECIFICATION Forced
INVARIANTS
  OnChainWasCommitted
  ReleaseWasCommitted
PROPERTIES
  NewestRootOnChain
