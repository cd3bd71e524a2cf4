\* Blocks end too. Offsets scaled from 256 to 12: up to three activations, of up to two locals.
CONSTANTS
  f = f
  g = g
  Width = 12
  NumRegs = 28
  Funs = {f, g}
  Vals = {a}
  Insts = {o}
  Sites = {s}
  Arity <- MCArity
  Outer <- MCOuter
  Methods = {g}
  NOTHING = NOTHING
  ZERO = ZERO
  MaxArgs = 1
  MaxLocals = 2
  MaxFrame = 11
  Blocks = TRUE
SPECIFICATION Spec
CHECK_DEADLOCK FALSE
INVARIANTS
  TypeOK
  ReturnsToCaller
