\* NotSpinning does not hold: TLC shows the endless redrain of a closed scope.
CHECK_DEADLOCK FALSE
SPECIFICATION Spec
CONSTANTS
  MaxEvents = 1
  MaxCrashes = 0
  MaxFaults = 0
  MaxScope = 1
INVARIANTS
  NotSpinning
