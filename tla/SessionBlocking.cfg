SPECIFICATION UnresumedSpec
CONSTANTS
  InputIds = {i1}
  Bodies = {"good"}
  InvalidBodies = {}
  Keys = {"a", "b"}
  JobIds = {j1}
  Outcomes = {"ok"}
  Plan <- MCChain
  MaxHandlerFailures = 2
  MaxSteps = 1
  SubmissionConcurrency = 2
  MaxFaults = 2
INVARIANTS
  BlocksOnHandlerFailures
