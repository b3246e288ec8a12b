SPECIFICATION FairSpec
CONSTANTS
  Batches <- LaneBatches
  MaxContext = 9
  MaxMessages = 3
  MaxCancels = 1
  MaxResumes = 1
  MaxTurns = 2
INVARIANTS
  TranscriptCoherent
  CallsInOrder
  ResultsAreTrue
PROPERTIES
  TurnsEnd
CHECK_DEADLOCK FALSE
