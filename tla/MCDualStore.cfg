SPECIFICATION Spec
CONSTANTS
  s1 = s1  s2 = s2  s3 = s3
  None = None
  Procs = {p1, p2}
  Stories = {s1, s2, s3}
  Writes <- SomeWrites
  Edits = {"done", "wip"}
  ReadSpellings = {"id"}
  WriteSpellings = {"full"}
  InitialSprint <- Rows
  InitialPhases <- Entries
  MaxAttempts = 2
  MaxTime = 1
  MaxFaults = 1
SYMMETRY Symmetry
INVARIANTS TypeOK WritesStick AnswersAreReal
CHECK_DEADLOCK FALSE
