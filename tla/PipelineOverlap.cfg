CONSTANTS
  g2 = g2
  g3 = g3
  Runs = {r1, r2}
  IssuerSeq <- MCOneIssuer
  Relayer = Relayer
  Absent = Absent
  Corrupt = Corrupt
  NoNumber = NoNumber
  MayOmit = TRUE
  WriteFaults = TRUE
  MaxVersions = 2
  MaxFaults = 2
SPECIFICATION Spec
INVARIANTS
  TypeOK
  OnChainWasCommitted
PROPERTIES
  OnChainOnlyNewer
