\* The prefix tree on two or three traces that share nothing, a first event or
\* everything; the maps on traces of up to three events, alone or with one of two.
CONSTANTS
  Language <- EitherLanguage
  Levels <- EitherLevels
  PropTypes <- EitherTypes
  Passes <- PassesInOrder
  EventNames = {"a", "b"}
  ConstantEvents = {"b"}
  Logs <- EitherLogs
SPECIFICATION EitherSpec
INVARIANTS
  TypeOK
  MemoIsRight
  MapTypeOK
  MapMemoIsRight
PROPERTIES
  ImplementsSearch
\* The function returns.
CHECK_DEADLOCK FALSE
