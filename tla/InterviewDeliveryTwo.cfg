\* Two requests that share the chain of their session, safety only.
CHECK_DEADLOCK FALSE
SPECIFICATION Spec
CONSTANTS
  MaxRequests = 2
  MaxTasks = 2
  Attempts = 2
  MaxStops = 1
  MaxCrashes = 1
  MaxFaults = 1
INVARIANTS
  DeliveredIsVerified
  CustomOnce
  HandoffHeld
PROPERTIES
  SentUnanswered
