CONSTANTS
  Proc = {p1, p2, p3}
  Package = {k1}
  MaxFetches = 3
  Faults <- AllFaults
  None = None
SPECIFICATION Spec
SYMMETRY Symmetry
CHECK_DEADLOCK FALSE
INVARIANTS
  SingleFetch
  UsedStaysWhole
PROPERTIES
  VerifiedStays
  HandedIsWhole
