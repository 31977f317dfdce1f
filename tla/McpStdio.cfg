SPECIFICATION ReadingSpec
CONSTANTS
  c1 = c1
  c2 = c2
  Calls = {c1, c2}
  Room = 1
  OutRoom = 1
CHECK_DEADLOCK FALSE
INVARIANTS
  WireSound
PROPERTIES
  NothingRunsForNobody
  CallsKeepPromise
