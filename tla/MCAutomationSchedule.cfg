\* After the last instant nothing is left to do.
CHECK_DEADLOCK FALSE
SPECIFICATION FairSpec
CONSTANTS
  Schedules <- MCSchedules
  KeyOf <- MCKeyOf
  MaxTime = 5
  MaxDelay = 2
  MaxRev = 4
  MaxJumps = 1
  MaxRestarts = 1
INVARIANTS
  MinuteOnce
  NextRunArmed
PROPERTIES
  OccurrencesConsidered
