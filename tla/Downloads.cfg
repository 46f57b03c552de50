SPECIFICATION Spec
CONSTANTS
  Urls = {u1, u2, u3}
  Files = {a, b}
  MaxDrops = 2
  MaxRestarts = 1
INVARIANT
  TypeOK
PROPERTY
  ImplementsImports
\* Everything dropped has been settled.
CHECK_DEADLOCK FALSE
