CONSTANTS
  Proc = {p1, p2}
  Dep = {d1, d2}
  Targets = {t1}
  Member = {m1}
  Commands <- AddOnly
  Edits <- NoEdits
  Faults <- NoFaults
  NoOne = NoOne
  Absent = Absent
SPECIFICATION Race
PROPERTIES AddsAreNotLost
