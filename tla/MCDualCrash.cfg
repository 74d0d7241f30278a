SPECIFICATION Spec
CONSTANTS
  s1 = s1  s2 = s2  s3 = s3
  None = None
  Procs = {p1, p2}
  Stories = {s1, s2}
  Writes <- DoneWrites
  Edits = {}
  ReadSpellings = {"id"}
  WriteSpellings = {"id"}
  InitialSprint <- Rows
  InitialPhases <- Entries
  MaxAttempts = 3
  MaxTime = 2
  MaxFaults = 1
PROPERTY CrashKeepsPhase
CHECK_DEADLOCK FALSE
