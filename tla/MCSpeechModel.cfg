SPECIFICATION ModelFairSpec
CONSTANT
  Process = {p1, p2}
INVARIANTS
  MarkedIsComplete
  StreamHasModel
  LostModelStopsRepair
PROPERTIES
  UsedModelStays
  ValidModelSurvives
  CallsReturn
