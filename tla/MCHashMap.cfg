\* As the interpreter uses it, below the load at which the map grows.
CONSTANTS
  k1 = k1
  k2 = k2
  k3 = k3
  v1 = v1
  v2 = v2
  Keys = {k1, k2, k3}
  Vals = {v1, v2}
  Hash <- MCHash
  Extends = {}
  UnsetKeys = {}
  InitialCap = 8
  MaxCap = 8
  FREE = FREE
  TOMB = TOMB
  NONE = NONE
SPECIFICATION Spec
INVARIANT Findable
PROPERTY ImplementsKeyMap
