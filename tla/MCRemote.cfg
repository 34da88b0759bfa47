CONSTANTS
  Commands <- MCCommands
  Stops <- MCStops
  Keys <- MCKeys
  Regs <- TwoRegs
  MaxCommands = 2
  MaxKeys = 2
  MaxBreaks = 1
  PtyFrames = 2
SPECIFICATION RemoteSpec
CHECK_DEADLOCK FALSE
INVARIANTS
  RemoteTypeOK
  AnswersMatch
  ModesAgree
  NoStaleDispatch
  KeysInOrder
  NeverBothWait
PROPERTIES
  Promptly
  BreakHonoured
  QuitArrives
