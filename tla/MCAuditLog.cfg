SPECIFICATION Spec
CONSTANTS
  Logs = {l1, l2, l3}
  Events = {e1, e2}
  Faults = {"stop", "cut"}
  MaxFaults = 3
  MaxWrites = 5
  Cut = Cut
  None = None
SYMMETRY Symmetry
INVARIANTS TypeOK OnlyTailIsTorn AckedVerify
PROPERTY IsALedger
