SPECIFICATION FairSpec
CONSTANTS
  TxSize = 3
  Bytes <- MCBytes
  NoByte = "none"
  TWI_BUFFER_LENGTH = 3
  CTRL = 5
  OUT = 6
  Registers = 9
  MaxFailures = 1
  FIRST = 1
  Words = 2
  Greeting <- MCGreeting
  Record <- MCRecord
  SoftBytes = 1
  RxSize = 2
  BUFFSIZE = 3
  Sentence <- MCSentence
INVARIANTS
  FirmwareTypeOK
  CleanReadingsAreRight
  WaitingBytesAreServed
PROPERTIES
  KeepsAQueue
  ComesBack
