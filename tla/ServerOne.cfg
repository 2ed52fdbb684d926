CONSTANTS
  g2 = g2
  g3 = g3
  NoNumber = NoNumber
  Absent = Absent
  Partial = Partial
  FlushFaults = TRUE
  PowerFaults = TRUE
  IssuerSeq <- MCOneIssuer
  Numbers <- MCNumbers
  Word = 3
  MaxVersions = 2
  MaxStops = 2
SPECIFICATION FairSpec
INVARIANTS
  TypeOK
  PairsFromOneCRL
PROPERTIES
  NeverReplacedByOlder
  
  ServesNewest
