\* Eventually x U y, on the same logs as in Memoizing.cfg.
CONSTANTS
  Language <- MapUntilLanguage
  Levels <- MapUntilLevels
  PropTypes <- MapUntilTypes
  Passes <- PassesInOrder
  EventNames = {"a", "b"}
  ConstantEvents = {"b"}
  Logs <- MapLogs
SPECIFICATION EitherSpec
INVARIANTS
  FindingsHoldOnTheLog
CHECK_DEADLOCK FALSE
