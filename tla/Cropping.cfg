SPECIFICATION CropSpec
CONSTANTS
  MaxWidth = 4
  MaxHeight = 4
INVARIANTS
  EdgesInImage
  BoxTight
\* The function returns.
CHECK_DEADLOCK FALSE
