CONSTANTS
  AddrSize = 32
  PageSize = 16
  StartPc = 15
  Byte <- MCByte
  Images <- MCImages
  Words <- MCWords
  Places <- MCPlaces
  Values <- MCValues
  Cells <- MCCells
  DataFields <- MCDataFields
  MaxCommands = 4
  ShortSession = 3
  MaxStored = 1
  MaxInstructions = 5
SPECIFICATION ConsoleSpec
INVARIANTS
  ConsoleTypeOK
  SurvivesOperator
PROPERTIES
  ShownHappens
  ExamineSpares
  RestoredWhole
CHECK_DEADLOCK FALSE
