SPECIFICATION MCSpec
CONSTANTS
  Workflow <- MCSendWait
  Controls = {"pause", "resume"}
  GateClosed = FALSE
  StopsItself = FALSE
  Overruns = FALSE
  MaxAsks = 1
  MaxFaults = 1
  MaxExits = 1
  Clients = {a, b}
  Limit = 2
  SweepLimit = 1
  MaxEvents = 1
  MaxChanges = 2
  MaxTroubles = 1
  MaxHands = 1
CONSTRAINT SmallWorkflow
CHECK_DEADLOCK FALSE
INVARIANTS EntryIsOrderly
PROPERTIES DueIsRun TickCatchesUp
