CONSTANTS
  Commands <- Interruptible
  Stops <- MCStops
  Keys <- OneKey
  Regs <- OneReg
  MaxCommands = 1
  MaxKeys = 1
  MaxBreaks = 1
  PtyFrames = 1
SPECIFICATION RemoteSpec
CHECK_DEADLOCK FALSE
PROPERTIES
  AckArrives
