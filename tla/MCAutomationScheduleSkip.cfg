SPECIFICATION Spec
CONSTANTS
  Schedules <- MCSchedules
  KeyOf <- MCKeyOf
  MaxTime = 5
  MaxDelay = 2
  MaxRev = 4
  MaxJumps = 0
  MaxRestarts = 1
PROPERTY OnTimeClaimed
CHECK_DEADLOCK FALSE
