SPECIFICATION Spec
CONSTANTS
  p = p
  Processes = {p}
  Usability = {FALSE}
  MaxStarts = 1
PROPERTIES
  EveryStartReturns
CHECK_DEADLOCK FALSE
