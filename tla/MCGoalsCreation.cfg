CONSTANTS
  MaxGoal = 1
  MaxVersion = 1
  MaxRequests = 4
  MaxWire = 1
SPECIFICATION Spec
INVARIANTS
  CreationIsOfThisVisit
CHECK_DEADLOCK FALSE
