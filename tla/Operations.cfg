SPECIFICATION OperationsSpec
CONSTANTS
  Kinds = {"bash", "read", "edit", "write"}
  NativeCodes = {"not_found", "io"}
  MaxAttempts = 2
  MaxDeliveries = 2
  MaxGenerations = 2
  MaxFaults = 2
  Clients = {"c1"}
  Capacity = 3
  TailCapacity = 2
  ChunkSize = 3
  MaxOutput = 4
  Lengths = {0, 1, 3, 4, 5}
  MaxFile = 5
  MaxLines = 3
  MaxBytes = 4
  Limits = {0, 1, 2, 4}
  None = None
  Thrown = Thrown
INVARIANTS
  ToldTheTruth
  RejectionsAreSafe
  AdmittedWhereBound
  LlmOutcomesHold
  ObservationsAreHonest
  ViewsAreHonest
PROPERTIES
  OperationsSettle
CHECK_DEADLOCK FALSE
