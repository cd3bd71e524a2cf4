\* Two instances, three activations: a.get(b) whose body calls b.get.
CONSTANTS
  c1 = c1
  c2 = c2
  Classes = {c1, c2}
  Insts = {1, 2}
  Names = {"get"}
  Methods <- MCMethodsOf
  Arity <- MCArity
  Overlaps = FALSE
  MaxStack = 2
  MaxDepth = 3
SPECIFICATION Spec
CHECK_DEADLOCK FALSE
INVARIANT TypeOK
PROPERTY ReceiverKept
