SPECIFICATION Spec
CONSTANTS
  j1 = j1
  Jobs = {j1}
  Crons <- TwoCrons
  Budget = 1
  MaxTimerDelay = 1
  EarlyFire = 1
  MaxTerminalRuns = 2
  MaxRuns = 2
  MaxTime = 3
  MaxRestarts = 1
  MaxEdits = 1
INVARIANTS
  ExecutorsExclusive
