SPECIFICATION Spec
CONSTANTS
  Ids = {"a"}
  Args = {"plain"}
  Timed <- MCTimed
  MaxActive = 1
  MaxRetained = 1
  MaxExecutions = 1
  MaxFaults = 0
INVARIANTS
  RetainedTerminationHolds
CHECK_DEADLOCK FALSE
