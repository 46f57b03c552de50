SPECIFICATION Spec
CONSTANTS
  a = a
  b = b
  c = c
  l1 = l1
  l2 = l2
  Loaders = {l1, l2}
  Pictures = {a, b, c}
  Broken = {b}
  SizeOf <- MCSizeOf
  Largest = 2
  MaxId = 3
  InitialImages <- MCInitialTwo
  Reuse = FALSE
  None = None
  Empty = Empty
  MaxRequests = 2
  MaxChanges = 2
SYMMETRY Symmetry
INVARIANTS
  TypeOK
  ConnectionsExclusive
  ThumbnailsOwn
  AnswersRight
PROPERTIES
  AnswerNears
CHECK_DEADLOCK FALSE
