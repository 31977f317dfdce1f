SPECIFICATION FairSpec
CONSTANTS
  file = file
  none = none
  NoKey = none
  MaxCalls = 3
  MaxBatch = 3
  MaxUsers = 2
  MaxLines = 3
  MaxCompactions = 1
  MaxCrashes = 1
  Key <- ThreeCalls
  Hashed = FALSE
CHECK_DEADLOCK FALSE
INVARIANTS
  RequestsSound
  CallsAnsweredOnce
  EffectsAreKnown
  ReplayLosesNothing
  PathOrder
PROPERTIES
  CancelEnds
