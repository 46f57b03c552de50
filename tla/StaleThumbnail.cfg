SPECIFICATION Spec
CONSTANTS
  a = a
  b = b
  c = c
  l1 = l1
  l2 = l2
  Loaders = {l1}
  Pictures = {a, b, c}
  Broken = {b}
  SizeOf <- MCSizeOf
  Largest = 2
  MaxId = 2
  InitialImages <- MCInitial
  Reuse = TRUE
  None = None
  Empty = Empty
  MaxRequests = 2
  MaxChanges = 2
INVARIANTS
  AnswersFresh
CHECK_DEADLOCK FALSE
