CONSTANTS
  MemSize = 4
  TtySkip = 2
  exit_on_HLT = FALSE
SPECIFICATION MachineSpec
PROPERTIES
  ClearsAll
CHECK_DEADLOCK FALSE
