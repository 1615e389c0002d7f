\* A support threshold of one and a confidence threshold of zero.
CONSTANTS
  Language <- NestedLanguage
  Levels <- NestedLevels
  Formulas <- Nested
  Traces <- ShortTraces
  Configurations <- ZeroConfidence
  NoTrace = NoTrace
SPECIFICATION Spec
INVARIANTS ShortCircuitKeepsResult
\* A behaviour is one call of the checker.
CHECK_DEADLOCK FALSE
