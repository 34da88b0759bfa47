CONSTANTS
  AddrSize = 1
  PageSize = 1
  StartPc = 0
  Byte <- MCByte
  Images <- MCImages
  Program <- MCProgram
SPECIFICATION AnySpec
INVARIANTS
  TypeOK
  BufferedRegistersAgree
  UserModeSealed
  RequestImpliesFlag
PROPERTIES
  UserModeConfined
  ReturnWindow
