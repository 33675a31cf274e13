SPECIFICATION Spec
CONSTANTS
  BUFFSIZE = 8
  Chars <- MCChars
  MaxLine = 7
INVARIANTS
  TypeOK
  OnlySentencesSent
  SentencesThatFitAreSent
