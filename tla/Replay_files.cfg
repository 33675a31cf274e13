SPECIFICATION Spec
CONSTANTS
  Rows <- MCRows
  Header <- MCHeader
  OneSecond = 2
  MaxRows = 5
INVARIANTS
  TypeOK
  KeptMoreThanASecondApart
  PositionWithPriorReading
PROPERTIES
  EveryPositionSent
CHECK_DEADLOCK FALSE
