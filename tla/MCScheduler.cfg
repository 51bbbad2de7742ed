\* At its bounds the idle scheduler has nothing left to do.
CHECK_DEADLOCK FALSE
SPECIFICATION FairSpec
CONSTANTS
  j1 = j1
  Jobs = {j1}
  Crons <- OneCron
  Budget = 1
  MaxTimerDelay = 1
  EarlyFire = 1
  MaxTerminalRuns = 1
  MaxRuns = 2
  MaxTime = 4
  MaxRestarts = 1
  MaxEdits = 2
INVARIANTS
  JobArmed
  ReleaseProven
  OccurrenceOnce
PROPERTIES
  ImplementsHistory
  RunSettles
