SPECIFICATION FairSpec
CONSTANTS
  Batches <- SerialBatches
  Sizes = {2, 3, 4}
  RowLimit = 4
  MaxContext = 8
  PageBytes = 3
  PageLimit = 2
  MaxMessages = 3
  MaxCancels = 1
  MaxResumes = 1
  MaxTurns = 1
INVARIANTS
  CallsAnswered
  OneAtATime
  HeldOnce
  NothingHidden
PROPERTIES
  RunsStop
CHECK_DEADLOCK FALSE
