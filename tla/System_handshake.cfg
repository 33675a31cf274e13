SPECIFICATION FairSystemSpec
CONSTANTS
  p1 = p1
  p2 = p2
  t1 = t1
  t2 = t2
  n1 = n1
  n2 = n2
  None = None
  Payloads = {p1}
  Terminals = {t1}
  Names = {n1}
  NameOf <- OneDevice
  EarlyPeers = FALSE
  MaxPings = 0
  MaxAnnounce = 1
  MaxRecords = 1
  MaxRefresh = 1
  MaxWrites = 1
PROPERTIES
  HandshakeCompletes
CHECK_DEADLOCK FALSE
