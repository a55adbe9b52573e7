CONSTANTS
  Proc = {p1, p2}
  Dep = {d1, d2}
  Targets = {t1}
  Member = {m1, m2}
  Commands <- AllCommands
  Edits <- AllEdits
  Faults <- AllFaults
  NoOne = NoOne
  Absent = Absent
SPECIFICATION Scenario
SYMMETRY Symmetry
INVARIANTS
  PairWholeAtRest
PROPERTIES
  ResolutionFollowsLock
  SyncSuccessPublishes
  RollbackRestores
  EditPublishesItsLock
