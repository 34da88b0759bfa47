CONSTANTS
  Contents <- MCContents
  MaxFrames = 3
  MaxDamage = 2
  LineBytes = 1
SPECIFICATION LineSpec
CHECK_DEADLOCK FALSE
INVARIANTS
  BreaksReported
  BufferBounded
PROPERTIES
  IsChannel
  Resynchronises
