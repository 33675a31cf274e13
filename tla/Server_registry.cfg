SPECIFICATION Spec
CONSTANTS
  p1 = p1
  p2 = p2
  t1 = t1
  t2 = t2
  n1 = n1
  n2 = n2
  None = None
  Payloads = {p1, p2}
  Terminals = {t1}
  Names = {n1}
  NameOf <- Reconnect
  EarlyPeers = TRUE
  MaxPings = 0
  MaxAnnounce = 1
  MaxRecords = 2
  MaxRefresh = 1
  MaxWrites = 2
INVARIANTS
  TypeOK
  RegistryConsistent
  NoNullRegistry
  MarkersMatchObjects
  AnswersAreFresh
PROPERTIES
  KeepsThePromise
CHECK_DEADLOCK FALSE
