SPECIFICATION SystemSpec
CONSTANTS
  p1 = p1
  p2 = p2
  t1 = t1
  t2 = t2
  n1 = n1
  n2 = n2
  None = None
  Payloads = {p1}
  Terminals = {t1}
  Names = {n1}
  NameOf <- OneDevice
  EarlyPeers = FALSE
  MaxPings = 0
  MaxAnnounce = 1
  MaxRecords = 2
  MaxRefresh = 2
  MaxWrites = 4
INVARIANTS
  SystemTypeOK
  DiesOnlyAfterLoss
  ObjectIsOnItsWay
PROPERTIES
  KeepsThePromiseToTheUser
  Spec
CHECK_DEADLOCK FALSE
