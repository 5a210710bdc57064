SPECIFICATION Spec
CONSTANTS
  Workflow <- MCWaitTask
  Controls = {"skip", "end", "run"}
  GateClosed = FALSE
  StopsItself = TRUE
  Overruns = FALSE
  MaxAsks = 2
  MaxFaults = 1
  MaxExits = 1
CONSTRAINT OneTrouble
CHECK_DEADLOCK FALSE
INVARIANTS StepsInOrder StopsAreHeeded
