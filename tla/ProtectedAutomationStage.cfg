SPECIFICATION Spec
CONSTANTS
  MaxRuns = 2
  History = 3
  MaxRev = 2
  MaxCrashes = 0
  MaxPurges = 1
INVARIANTS
  RunningStageKept
CHECK_DEADLOCK FALSE
