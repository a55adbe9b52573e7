CONSTANTS
  Proc = {p1, p2}
  Registry = {r1}
  Anchor = {a1, a2}
  MaxVersion = 2
  Served <- ShortHistory
  Commands <- AllCommands
  Faults <- AllFaults
  NoOne = NoOne
  Absent = Absent
SPECIFICATION Spec
SYMMETRY Symmetry
INVARIANTS
  NoRollback
PROPERTIES
  FloorsNeverFall
  ImportsAreNotLost
