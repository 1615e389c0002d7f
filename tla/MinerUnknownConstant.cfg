\* Constants that need not occur in the log.
CONSTANTS
  Names = {"x", "scope_x", "a", ".."}
  PredicateEvents = {"a"}
  TwoCharNames = {".."}
  Within <- XInScope
  ScopeOf <- ScopeOfX
  CommandLines <- Mining
  Unreadable = Unreadable
  Malformed = Malformed
  MaxConstants = 1
  MaxLines = 0
SPECIFICATION Spec
INVARIANTS
  VariablesBecomeLogEvents
\* The program ends.
CHECK_DEADLOCK FALSE
