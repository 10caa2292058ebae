\* One Thought, which is in every answer.
SPECIFICATION Spec
CONSTANTS
  MaxThought = 1
  Present = {1}
  Marked = 1
  Batch = 1
  MaxWire = 1
INVARIANTS
  LastDesignationIsShown
CHECK_DEADLOCK FALSE
