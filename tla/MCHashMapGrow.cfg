\* Growing through two rehashes, one inside the other; one key begins another.
CONSTANTS
  k1 = k1
  k2 = k2
  k3 = k3
  v1 = v1
  v2 = v2
  Keys = {k1, k2, k3}
  Vals = {v1}
  Hash <- MCHash
  Extends <- MCExtends
  UnsetKeys = {k1, k2, k3}
  InitialCap = 4
  MaxCap = 16
  FREE = FREE
  TOMB = TOMB
  NONE = NONE
SPECIFICATION Spec
INVARIANTS
  TypeOK
  LenCoversUsed
PROPERTY Returns
