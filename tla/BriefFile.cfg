SPECIFICATION FairSpec
CONSTANTS
  MaxMessages <- MCMessages
  MaxRuns = 3
  SelfChecks = 1
CHECK_DEADLOCK FALSE
INVARIANTS
  RunsTold
  AmendmentsStay
  NoneMissed
  ReportsKept
PROPERTIES
  AmendmentHeard
