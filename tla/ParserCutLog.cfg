\* Multi-propositional logs that may end without a separator.
CONSTANTS
  Props = {"abc"}
  TwoCharProps = {}
  LogLines <- Lines
  MaxLines = 4
  Modes <- MultiProp
SPECIFICATION Spec
INVARIANTS
  LastTraceIsIncluded
\* The parser stops at the end of the log, or exits.
CHECK_DEADLOCK FALSE
