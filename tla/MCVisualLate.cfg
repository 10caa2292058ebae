CONSTANTS
  MaxCut = 1
  MaxWire = 0
  MaxTasks = 1
SPECIFICATION Spec
INVARIANT LateResultsChangeNothing
CHECK_DEADLOCK FALSE
