\* Every mix of thresholds, over every statistics of two instantiations on two
\* different traces that occur once or twice.
CONSTANTS
  NumInstants = 2
  NumTraces = 2
  TraceStats <- SomeStats
  Counts = {1, 2}
  Configurations <- AllConfigurations
SPECIFICATION Spec
INVARIANTS
  TypeOK
  FindingsAreExact
  FindingStatsAreTotals
PROPERTIES
  ImplementsSearch
  SearchReturns
\* The function returns.
CHECK_DEADLOCK FALSE
