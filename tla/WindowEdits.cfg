SPECIFICATION Spec
CONSTANTS
  Tags = {red}
  Mark = mark
  MaxRefs = 3
  MaxSteps = 4
INVARIANTS
  TypeOK
  UndoRestores
  ActsOnShown
  TagListsTrue
PROPERTIES
  ToggleTwice
  HiddenKept
\* The user stops.
CHECK_DEADLOCK FALSE
