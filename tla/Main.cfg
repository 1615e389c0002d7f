\* Options from two sources, settings, logs to parse, and up to three property types.
CONSTANTS
  Names = {"x", "scope_x", "a", ".."}
  PredicateEvents = {"a"}
  TwoCharNames = {".."}
  Within <- XInScope
  ScopeOf <- ScopeOfX
  CommandLines <- AllCommandLines
  Unreadable = Unreadable
  Malformed = Malformed
  MaxConstants = 2
  MaxLines = 3
SPECIFICATION Spec
INVARIANTS
  TypeOK
  MinesWhatWasAsked
  OnlyLinearHasStatistics
  UndefinedForAReason
  PrintedAsFound
  MinedAlone
  OwnConstantsExcluded
\* The program ends.
CHECK_DEADLOCK FALSE
