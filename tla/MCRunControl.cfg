SPECIFICATION FairSpec
CONSTANTS
  Runs = {r1, r2}
  NoRun = none
  Window = 2
  Provider = "codex"
  Remaining = {r1}
  Overlap = FALSE
  LateMonitors = FALSE
  Timely = TRUE
  Stamps <- Parsable
  MaxEdits = 1
INVARIANTS OneDriver NoEarlyStop PinnedPolicy
PROPERTY Released
CHECK_DEADLOCK FALSE
