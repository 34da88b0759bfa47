CONSTANTS
  AddrSize = 64
  PageSize = 32
  StartPc = 40
  Byte <- MCByte
  Images <- MCImages
  MaxTyped = 2
  MaxBreaks = 1
  Idle = 23
  Source = 32
  Target = 40
  Count = 2
  TrapCounter = 4
  Traps = 2
SPECIFICATION EchoSpec
INVARIANTS
  EchoInOrder
  CopyCorrect
PROPERTIES
  InterruptTransparent
  EveryKeyEchoed
  UserFinishes
