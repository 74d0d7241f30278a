SPECIFICATION FairSpec
CONSTANTS
  Collectors = {k1, k2, k3}
  MaxWorkers = 2
  Cpus = 4
  RamSlots = 3
  Faults <- AllFaults
  MaxFaults = 2
  MaxInterrupts = 1
  None = None
INVARIANTS TypeOK NothingLeftBehind
PROPERTIES KeepsPromise CallEnds
CHECK_DEADLOCK FALSE
