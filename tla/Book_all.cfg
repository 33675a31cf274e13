SPECIFICATION Spec
CONSTANTS
  Pieces <- MCPieces
  Entries <- MCEntries
  Numbers = {"80", "8", "99999"}
  Cut <- MCCut
  BadPorts = {"99999"}
  MaxEntries = 2
INVARIANTS
  TypeOK
  ComboShowsTheList
  FileIsTheSavedList
  BlankIsExplained
PROPERTIES
  DialsTheChosenRow
  DeletesTheTickedRows
