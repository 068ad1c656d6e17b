SPECIFICATION Spec
CONSTANTS
  Keys <- EightKeys
  Order = 4
  Entries = 2
  MaxNodes = 16
  Row <- SameRow
INVARIANTS
  WellFormed
  AssertionsHold
PROPERTY
  ImplementsKeyStore
CHECK_DEADLOCK FALSE
