SPECIFICATION Spec
CONSTANTS
  p = p
  q = q
  Processes = {p, q}
  Usability = {TRUE, FALSE}
  MaxStarts = 3
INVARIANTS
  TypeOK
  DatabaseWhole
PROPERTIES
  FailsOnlyContended
  StartsReturn
CHECK_DEADLOCK FALSE
