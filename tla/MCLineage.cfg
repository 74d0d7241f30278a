SPECIFICATION Spec
CONSTANTS
  Keys = {1, 2, 3}
  None = None
  NoSeq = NoSeq
  Procs = {p1, p2}
  Payloads = {"x", "y"}
  Disks <- ThreeDisks
  MaxPersists = 4
  MaxFaults = 1
SYMMETRY Symmetry
INVARIANTS IndexIsBacked SurfacesAgree BreaksOnlyBySpoiling
CHECK_DEADLOCK FALSE
