SPECIFICATION Spec
CONSTANTS
  Kinds = {"bash"}
  NativeCodes = {"io"}
  MaxAttempts = 2
  MaxDeliveries = 1
  MaxGenerations = 1
  MaxFaults = 2
  None = None
  Thrown = Thrown
INVARIANTS
  RejectedWasNeverAccepted
CHECK_DEADLOCK FALSE
