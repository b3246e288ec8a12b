SPECIFICATION DaemonSpec
CONSTANTS
  Ids = {"r1", "r2", "r3"}
  Inputs = {"x", "y"}
  Sizes = {1, 3, 5}
  Reserve = 4
  ErrorSize = 1
  TombstoneSize = 2
  MaxRequests = 2
  MaxPending = 2
  MaxBytes = 8
  RequestIds = {"k1"}
  Hashes = {"h1", "bad"}
  Unsupported = {"bad"}
  Native = {"h1"}
  TaskResults = {"big"}
  OutcomeBytes <- BigFills
  MaxResult = 2
  MaxRows = 2
  MaxActive = 1
  MaxOutboxBytes = 3
  MaxGenerations = 2
  MaxInFlight = 2
  MaxFaults = 1
  InputIds = {"a", "b", "c", "d"}
  Data = {0, 1, 2}
  SizeOf <- SizeItself
  Terminal = FALSE
  QueueBytes = 2
  MaxReceipts = 3
  MaxInterrupts = 2
INVARIANTS
  EffectsHonest
  AccountsBalance
  SettledAtShutdown
  KeptWithinBudget
  InputIsFaithful
PROPERTIES
  ReplayIsStable
CHECK_DEADLOCK FALSE
