SPECIFICATION TidSpec
CONSTANTS
  Keys <- TenKeys
  Order = 3
  Entries = 3
  MaxNodes = 14
  MaxBirths = 6
  Row <- OwnRow
INVARIANT
  TidFollowsKeyWhenAscending
CONSTRAINT
  StillAscending
CHECK_DEADLOCK FALSE
