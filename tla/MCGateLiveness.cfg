SPECIFICATION FairSpec
CONSTANTS
  g1 = g1  cA = cA  cB = cB  k1 = k1  sec = sec
  Procs = {p1, p2}
  Gates = {g1}
  Commits = {cA, cB}
  Collectors = {k1}
  Categories = {sec}
  CategoryOf <- OneCategory
  Statuses = {"ok", "error"}
  Dirs = {d1, d2}
  Requests <- OneCommit
  Faults = {"crash", "rmtree", "raise"}
  MaxFaults = 1
  None = None
  NoRecord = NoRecord
  Gone = Gone
INVARIANTS LiveMarkerIsInFlight FailClosedSinks
PROPERTY CallsEnd
