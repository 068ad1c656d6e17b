CONSTANTS
  MaxLeaf = 7
  HashRange = 10000000
  BucketCounts = {2, 5}
SPECIFICATION FairSpec
INVARIANTS
  NarrowRangeIsSafe
  LeftSurvives
  LossesAreConfined
  FailsOnlyForMissing
PROPERTY
  RebuildEnds
CHECK_DEADLOCK FALSE
