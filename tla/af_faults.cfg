CONSTANTS
  Writer = {w1, w2}
  Content = {c1, c2}
  Name = {n1, n2, n3}
  Faults <- AllFaults
  NoContent = NoContent
  NoName = NoName
SPECIFICATION Spec
SYMMETRY Symmetry
INVARIANTS TargetIsWhole
PROPERTIES NoLitter 
