CONSTANTS
  Proc = {p1, p2}
  Manifest = Manifest
  Source = Source
  Marker = Marker
  Vendors = 1
  Mishaps <- AllFaults
  None = None
SPECIFICATION SnapshotSpec
SYMMETRY Symmetry
CHECK_DEADLOCK FALSE
INVARIANTS
  SnapshotIsWhole

  
