\* At its bounds the idle automation has nothing left to do.
CHECK_DEADLOCK FALSE
SPECIFICATION FairSpec
CONSTANTS
  MaxRuns = 3
  History = 2
  MaxRev = 2
  MaxCrashes = 1
  MaxPurges = 1
INVARIANTS
  OnlyCommittedPublished
  CurrentExists
PROPERTIES
  PublicationAuthorized
  ImplementsState
  RunsSettle
