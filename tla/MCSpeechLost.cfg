SPECIFICATION ModelSpec
CONSTANT
  Process = {p1, p2}
INVARIANT
  LostResourceStopsRepair
