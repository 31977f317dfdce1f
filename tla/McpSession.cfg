SPECIFICATION FairSessionSpec
CONSTANTS
  c1 = c1
  c2 = c2
  Requests = {c1, c2}
  MaxLosses = 2
CHECK_DEADLOCK FALSE
INVARIANTS
  SessionsSound
PROPERTIES
  RequestsKeepPromise
