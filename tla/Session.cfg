SPECIFICATION PartsSpec
CONSTANTS
  Clients = {"c1", "c2"}
  Contents = {"valid", "other", "invalid", "unsupported"}
  MaxInputs = 1
  MaxTransitions = 2
  MaxFaults = 2
  None = None
INVARIANTS
  CreationsAgree
  DisplayIsCurrent
PROPERTIES
  EventuallySettles
  CreationsSettle
CHECK_DEADLOCK FALSE
