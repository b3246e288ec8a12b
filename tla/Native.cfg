SPECIFICATION Spec
CONSTANTS
  Ids = {"a"}
  Args = {"timed"}
  Timed <- MCTimed
  MaxActive = 1
  MaxRetained = 2
  MaxExecutions = 2
  MaxFaults = 1
INVARIANTS
  WorkIsOwned
  StopsAreTold
  FinishedIsClean
CHECK_DEADLOCK FALSE
