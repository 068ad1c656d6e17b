SPECIFICATION Spec
CONSTANTS
  Keys <- TenKeys
  Order = 3
  Entries = 3
  MaxNodes = 15
  Row <- OwnRow
INVARIANTS
  WellFormed
  DataFollowsKeyUntilLeftSplit
PROPERTY
  ImplementsKeyStore
CONSTRAINT
  NotYetSplitLeft
CHECK_DEADLOCK FALSE
