CONSTANTS
  g2 = g2
  g3 = g3
  NoNumber = NoNumber
  Absent = Absent
  Partial = Partial
  FlushFaults = FALSE
  PowerFaults = FALSE
  IssuerSeq <- MCTwoIssuers
  Numbers <- MCUnnumbered
  Word = 4
  MaxVersions = 1
  MaxStops = 0
  Clients = {c1}
  NoneRevoked <- MCNoneRevoked
  Serials = {"malformed", "zero", "negative", "positive"}
SPECIFICATION ServiceSpec
INVARIANTS
  ServiceTypeOK
  PairsFromOneCRL
  StatusOneMoment
