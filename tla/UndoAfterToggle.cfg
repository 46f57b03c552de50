SPECIFICATION Spec
CONSTANTS
  Tags = {red}
  Mark = mark
  MaxRefs = 2
  MaxSteps = 4
INVARIANTS UndoChanges
\* The user stops.
CHECK_DEADLOCK FALSE
