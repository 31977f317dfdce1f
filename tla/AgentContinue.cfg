SPECIFICATION Spec
CONSTANTS
  a1 = a1
  a2 = a2
  c1 = c1
  c2 = c2
  Agents <- OneAgent
  Callers <- TwoCallers
  Isolated <- OneAgent
  MaxLaunches = 3
  MaxLive = 2
  MaxConcurrency = 1
SYMMETRY CallerSymmetry
CHECK_DEADLOCK FALSE
INVARIANTS
  OwnedByOneRun
  FinishedIsSettled
  ReportedStateIsFinal
PROPERTIES
  FinishedStays
  StopReachesTask
