CONSTANTS
  g2 = g2
  g3 = g3
  Runs = {r1}
  IssuerSeq <- MCOneIssuer
  Relayer = Relayer
  Absent = Absent
  Corrupt = Corrupt
  NoNumber = NoNumber
  MayOmit = FALSE
  WriteFaults = FALSE
  MaxVersions = 2
  MaxFaults = 1
SPECIFICATION Scheduled
PROPERTIES
  NewestRootOnChain
