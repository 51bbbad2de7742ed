\* Once every answer is delivered nothing need happen.
CHECK_DEADLOCK FALSE
SPECIFICATION FairSpec
CONSTANTS
  MaxRequests = 1
  MaxTasks = 2
  Attempts = 2
  MaxStops = 2
  MaxCrashes = 2
  MaxFaults = 1
INVARIANTS
  DeliveredIsVerified
  HandoffHeld
PROPERTIES
  SentUnanswered
  ImplementsAnswers
  QueueDrains
