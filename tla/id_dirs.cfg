CONSTANTS
  Proc = {p1, p2}
  Retained = 1
  MaxTick = 2
  MaxSeq = 1
  MaxBoots = 1
  Faults <- AllFaults
  None = None
SPECIFICATION Spec
SYMMETRY Symmetry
CHECK_DEADLOCK FALSE
INVARIANTS
  NothingIsShared
  RetentionIsBounded
PROPERTIES
  NewestAreKept
