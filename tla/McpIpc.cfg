SPECIFICATION FairSpec
CONSTANTS
  a1 = a1
  c1 = c1
  c2 = c2
  Agents = {a1}
  MaxRuns = 2
  Calls = {c1, c2}
  Owner <- Owners
  Granted = {c1, c2}
  MaxInFlight = 1
CHECK_DEADLOCK FALSE
INVARIANTS
  GrantsSound
PROPERTIES
  NothingRunsForTheDead
  ChannelKeepsPromise
