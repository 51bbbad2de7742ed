\* At its bounds the gateway has nothing left to do.
CHECK_DEADLOCK FALSE
SPECIFICATION FairSpec
CONSTANTS
  MaxEvents = 2
  MaxCrashes = 2
  MaxFaults = 1
  MaxScope = 1
INVARIANTS
  PromptWhereBound
PROPERTIES
  ImplementsInbox
  AnsweredByActive
  EventsSettle
