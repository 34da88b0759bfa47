CONSTANTS
  MemSize = 4
  TtySkip = 2
  exit_on_HLT = FALSE
SPECIFICATION MachineSpec
INVARIANTS
  MachineTypeOK
  NoOverrun
  TerminalServed
  StopsSoon
PROPERTIES
  SigintEndsRun
  KeepsPromise
CHECK_DEADLOCK FALSE
