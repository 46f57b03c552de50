SPECIFICATION Spec
CONSTANTS
  Names = {1, 2, 3, 4}
  MaxCount = 2
  MaxUses = 4
INVARIANTS
  TypeOK
  MergeInStep
PROPERTIES
  ImplementsTagList
CHECK_DEADLOCK FALSE
