CONSTANTS
  Backends = {b1, b2}
  Indexes = {i1, i2}
  NoIndex = NoIndex
  Rows <- FourRows
  Ranges <- SomeRanges
  Depth = 2
  MaxWidth = 3
  IdLimit = 2
  Threshold = 2
  Order = 3
  BufferUnit = 110
  RangeUnit = 4
  IntHalf = 512
  MaxStatements = 6
SPECIFICATION MCSpec
SYMMETRY Symmetry
INVARIANTS
  TreeHoldsTheTable
  MapIsWhole
  LastNumberedIsDescribed
  DigestsNeverStale
  SmallMapFits
CHECK_DEADLOCK FALSE
