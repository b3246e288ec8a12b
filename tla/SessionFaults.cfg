SPECIFICATION Spec
CONSTANTS
  InputIds = {i1}
  Bodies = {"good", "invalid"}
  InvalidBodies = {"invalid"}
  Keys = {"a", "b"}
  JobIds = {j1}
  Outcomes = {"ok"}
  Plan <- MCPlan
  MaxHandlerFailures = 2
  MaxSteps = 2
  SubmissionConcurrency = 2
  MaxFaults = 2
INVARIANTS
  TypeOK
  InOrderExactlyOnce
  WorkAccounted
  Protected
PROPERTIES
  BlockedUntilResumed
  RefinesSessionLog
