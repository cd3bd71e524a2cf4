\* Locals in functions only; a captured variable is of the function just outside.
CONSTANTS
  Names = {x, y, thisOne}
  ThisNames = {thisOne}
  NONE = NONE
  Width = 24
  Lines = {40}
  Garbage = {0}
  MaxLocals = 3
  MaxRegs = 3
  MaxOpen = 4
  MaxFuns = 2
  TopBlocks = FALSE
SPECIFICATION Spec
CHECK_DEADLOCK FALSE
INVARIANT TypeOK RegistersApart LoadsWhatWasStored SlotOfOwnList CapturesItsRegister
PROPERTY ImplementsLexicalScope
