CONSTANTS
  MemSize = 4
  TtySkip = 2
  exit_on_HLT = FALSE
SPECIFICATION MachineSpec
INVARIANTS
  InterruptedForCause
CHECK_DEADLOCK FALSE
