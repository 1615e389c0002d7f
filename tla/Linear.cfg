\* The default settings, thresholds and full statistics: nested formulas, and
\* disjunctions and conjunctions of three operands over different intervals.
CONSTANTS
  Language <- NestedOrWideLanguage
  Levels <- NestedOrWideLevels
  Formulas <- NestedOrWide
  Traces <- MixedTraces
  Configurations <- EverySetting
  NoTrace = NoTrace
SPECIFICATION Spec
INVARIANTS
  TypeOK
  VerdictIsLtl
  ConfidenceIsVerdict
  ShortCircuitKeepsResult
\* A behaviour is one call of the checker.
CHECK_DEADLOCK FALSE
