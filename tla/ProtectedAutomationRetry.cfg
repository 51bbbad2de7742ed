SPECIFICATION Spec
CONSTANTS
  MaxRuns = 2
  History = 3
  MaxRev = 2
  MaxCrashes = 1
  MaxPurges = 0
PROPERTIES
  SealedStateRetried
CHECK_DEADLOCK FALSE
