\* Once every row has ended, nothing is left to do.
CHECK_DEADLOCK FALSE
SPECIFICATION FairSpec
CONSTANTS
  MaxEvents = 2
  MaxChunks = 2
  Parts = 2
  MaxAttempts = 2
  MaxCrashes = 1
  MaxFaults = 1
INVARIANTS
  DeliveredIsVisible
  AnswersInOrder
PROPERTIES
  ImplementsRoom
  DeliveriesEnd
