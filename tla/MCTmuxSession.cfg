SPECIFICATION SessionFairSpec
CONSTANTS
  Monitor = mon
  Watchers = {beat}
  SpawnModes <- AllModes
  ExitCodes <- AllCodes
  EarlyPolls = FALSE
  Faults <- AllFaults
  MaxFaults = 1
  MaxPolls = 1
INVARIANTS ResultIsReal DeadBeforeReported
PROPERTIES EndIsRecorded MonitorAnswers
CHECK_DEADLOCK FALSE
