SPECIFICATION RangeSpec
CONSTANTS
  Keys <- SixKeys
  Order = 3
  Entries = 2
  MaxNodes = 14
  MaxBirths = 40
  Row <- OwnRow
  Posid <- Line
CONSTRAINT StillOrderly
VIEW WithoutLostTids
INVARIANTS
  RangeTypeOK
  StaleKeysHarmless
  RangeVisited
  AnswerExact
  VoSuffices
CHECK_DEADLOCK FALSE
