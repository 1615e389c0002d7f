\* A support threshold of two, over single traces that occur once or twice.
CONSTANTS
  NumInstants = 2
  NumTraces = 2
  TraceStats <- SomeStats
  Counts = {1, 2}
  Configurations <- SupportOverTraces
SPECIFICATION Spec
INVARIANTS EachTraceMeetsThresholds
\* The function returns.
CHECK_DEADLOCK FALSE
