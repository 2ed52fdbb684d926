CONSTANTS
  g2 = g2
  g3 = g3
  NoNumber = NoNumber
  Absent = Absent
  Partial = Partial
  FlushFaults = FALSE
  PowerFaults = FALSE
  IssuerSeq <- MCOneIssuer
  Numbers <- MCNumberedTwo
  Word = 4
  MaxVersions = 2
  MaxStops = 1
  Clients = {c1}
  NoneRevoked = {}
  Serials = {"positive"}
SPECIFICATION FairService
INVARIANTS
  ReadsNeverGoBack
PROPERTIES
  AcceptedIsAnswered
  EveryRequestEnds
  StopsAfterSignal
