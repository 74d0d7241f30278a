SPECIFICATION Spec
CONSTANTS
  Priorities = {p1}
  Window = 1
  Consecutive = 1
  MaxDelta = 5
  Ttl = 1
  Users = {u1, u2}
  NoUser = none
  Original <- Shipped
  Coverages <- Measured
  Edits <- ByHand
  MaxGates = 1
  MaxDecisions = 2
  MaxClock = 2
  MaxMishaps = 1
INVARIANTS Restorable LedgerIsHonest
PROPERTY SlugsStick
SYMMETRY UserSymmetry
CHECK_DEADLOCK FALSE
