\* Five headers fit: leading and inner free runs, a tight tail, exits.
CONSTANTS
  Cap = 14
  Hdr = 2
  Sizes <- MCSizes
  MaxRc = 2
  Word = 65536
SPECIFICATION Spec
CHECK_DEADLOCK FALSE
INVARIANTS
  TypeOK
  Tiled
  SearchCoversFree
  FullyMerged
  OverrunOnlyPastTightTail
  GiveUpJustified
PROPERTIES
  AllocReturns
  ImplementsBlobSpace
