CONSTANTS
  Machines <- MCMachines
  Blank = "blank"
  Garbage = "garbage"
  Pieces = 3
  MaxStreams = 2
  Files <- MCFiles
SPECIFICATION CoreSpec
INVARIANTS
  CoreTypeOK
  SavedIsComplete
PROPERTIES
  RestoreBringsBack
  
