SPECIFICATION MCSpec
CONSTANTS
  Pipes = {1, 2, 3}
  Stages = {1, 2, 3, 4, 5, 6, 7, 8, 9, 10}
  Files = {1}
  Home <- MCHome
  Needs <- MCNeeds
  StartPipes <- MCPipes
  StartStages <- MCStages
  StartFiles <- MCFiles
  Admins = {w1, w2}
  Workers = {w1, w2}
  MaxSteps = 3
  Appts = {m1}
  Hosts = {h1, h2}
  Events = {e1, e2}
  MaxTime = 2
  PushAttempts = 2
  MaxFails = 3
  MaxExits = 1
  None = None
SYMMETRY MCSymmetry
CONSTRAINT Judged
CHECK_DEADLOCK FALSE
INVARIANTS TypesOK PipelinesHold 
PROPERTIES FileMovesOn
