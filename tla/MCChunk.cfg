\* Buffers that begin at 5 instead of 8, indices of 10 values instead of 65536, of which two fit in a byte.
CONSTANTS
  FirstCap = 5
  ByteConsts = 2
  Indices = 10
  Registers = {4, 28}
  MaxOps <- OpsByLines
  MaxCaptured = 1
  MaxOpen = 2
SPECIFICATION Spec
CHECK_DEADLOCK FALSE
INVARIANTS
  TypeOK
  ReadAsEmitted
  JumpsLand
  LinesKept
