SPECIFICATION Spec
CONSTANTS
  Tags = {red}
  Mark = mark
  MaxRefs = 1
  MaxSteps = 2
INVARIANTS ActsOnFocused
\* The user stops.
CHECK_DEADLOCK FALSE
