SPECIFICATION FairStayingSpec
CONSTANTS
  a1 = a1
  a2 = a2
  c1 = c1
  c2 = c2
  Agents <- TwoAgents
  Callers <- OneCaller
  Isolated = {}
  MaxLaunches = 2
  MaxLive = 2
  MaxConcurrency = 1
CHECK_DEADLOCK FALSE
INVARIANTS
  RegistrySound
PROPERTIES
  EveryTaskEnds
  WaitersReturn
