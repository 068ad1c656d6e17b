SPECIFICATION Spec
CONSTANTS
  Keys <- FiveKeys
  Order = 3
  Entries = 3
  MaxNodes = 9
  Row <- OwnRow
INVARIANT
  DataFollowsKey
CHECK_DEADLOCK FALSE
