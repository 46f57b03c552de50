SPECIFICATION Spec
CONSTANTS
  p = p
  q = q
  Processes = {p, q}
  Usability = {TRUE}
  MaxStarts = 2
PROPERTIES
  EveryStartReturns
CHECK_DEADLOCK FALSE
