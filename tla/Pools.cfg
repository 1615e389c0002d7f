\* Up to four events and three variables, twice through a pool of every kind.
CONSTANTS
  EventCounts = {1, 2, 3, 4}
  VarCounts = {1, 2, 3}
  MaxPasses = 2
  Scopes <- TwoScopes
SPECIFICATION Spec
INVARIANTS
  TypeOK
  WheelsShowTheCounter
  ReturnedInOrder
PROPERTIES
  ImplementsPool
\* The pool is not asked again after the last pass.
CHECK_DEADLOCK FALSE
