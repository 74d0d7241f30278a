SPECIFICATION Spec
CONSTANTS
  None = None
  NoValue = NoValue
  Missing = Missing
  ReqIds = {"REQ-1", "REQ-2"}
  WindowSeconds <- OneDay
  StoryRange <- TwoStories
  MaxAttempts = 2
  Plateau = 2
  MaxAuto = 2
  MaxCycles = 2
  Ceiling <- OneRecorded
  Contracts <- BothContracts
  GateFiles <- PassedGate
  Words = {"review"}
  ListSizes = {1}
  MaxEdits = 1
  MaxCrashes = 1
INVARIANTS TypeOK CompletedIsCommitted
PROPERTIES CommitsAreReviewed StoriesSettle
