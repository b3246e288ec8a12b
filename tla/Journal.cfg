SPECIFICATION JournalFairSpec
CONSTANTS
  RequestIds = {r1}
  Hashes = {h1, bad}
  Unsupported = {bad}
  Native = {h1}
  TaskResults = {"ok"}
  OutcomeBytes <- MCBytes
  MaxResult = 2
  MaxRows = 2
  MaxActive = 1
  MaxOutboxBytes = 3
  MaxGenerations = 2
  MaxInFlight = 1
  MaxFaults = 1
INVARIANTS
  OneExecution
PROPERTIES
  EventuallyDelivered
CHECK_DEADLOCK FALSE
