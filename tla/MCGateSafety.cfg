SPECIFICATION Spec
CONSTANTS
  g1 = g1  cA = cA  cB = cB  k1 = k1  sec = sec
  Procs = {p1, p2}
  Gates = {g1}
  Commits = {cA, cB}
  Collectors = {k1}
  Categories = {sec}
  CategoryOf <- OneCategory
  Statuses = {"ok"}
  Dirs = {d1, d2}
  Requests <- TwoCommits
  Faults <- AllFaults
  MaxFaults = 2
  None = None
  NoRecord = NoRecord
  Gone = Gone
SYMMETRY Symmetry
INVARIANTS
  TypeOK InFlightIntact FreshRootMatchesVerdict RecoveryIsLoud
PROPERTY VerdictKeepsEvidence
