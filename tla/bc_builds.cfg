CONSTANTS
  p1 = p1
  p2 = p2
  x = x
  y = y
  plain = plain
  other = other
  c1 = c1
  c2 = c2
  None = None
  Absent = Absent
  Proc <- Procs
  Package <- Packages
  Name <- Names
  Config <- Configs
  Content <- Contents
  Compiler <- Compilers
  Options <- AllOptions
  Scenarios <- AllScenarios
SPECIFICATION Spec
SYMMETRY Symmetry
CHECK_DEADLOCK FALSE
INVARIANTS
  OrderIsTopological
  KeyIdentifiesInputs
  SuccessIsWhole
PROPERTIES
  EntryIsDetermined
