SPECIFICATION FairSpec
CONSTANTS
  MaxRecords = 4
  MaxAnnounce = 2
  MaxOpens = 2
  MaxPings = 3
INVARIANTS
  TypeOK
  PositionsWhole
PROPERTIES
  KeepsALog
  StreamsOnceNamed
CHECK_DEADLOCK FALSE
