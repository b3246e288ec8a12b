SPECIFICATION Spec
CONSTANTS
  TheRequest = q1
  Calls = {c1, c2}
  Requests = {q1}
  RequestOf <- MCRequestOf
  Generations = {"g1"}
  MaxSubmissions = 2
  MaxDeliveries = 1
  MaxBuffered = 2
  MaxVersions = 2
  MaxEpochs = 2
  MaxFrames = 2
  MaxFaults = 1
INVARIANTS
  AnswersHold
  BooksInStep
PROPERTIES
  RevocationWins
SYMMETRY AnyCall
CHECK_DEADLOCK FALSE
