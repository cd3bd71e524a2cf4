\* Called outside of functions only: two variables, a branch or a loop, two functions.
CONSTANTS
  Offsets = {4}
  MaxLocals = 2
  MaxCode = 6
  MaxNest = 2
  MaxStores = 4
  MaxFuns = 3
SPECIFICATION Spec
CHECK_DEADLOCK FALSE
INVARIANTS LinkMeetsLink Shared
