\* Every log of up to seven lines, under every flag.
CONSTANTS
  Props = {"abc", "def"}
  TwoCharProps = {"gh"}
  LogLines <- Lines
  MaxLines = 7
  Modes <- AllModes
SPECIFICATION Spec
INVARIANTS
  TypeOK
  LinearIsTheLog
  MapsAreTheTraces
  TreeUnfoldsToTheLog
  TreeIsOfTheLog
  TreeFailsOnEmptyTraces
  MinerSeesTheLog
\* The parser stops at the end of the log, or exits.
CHECK_DEADLOCK FALSE
