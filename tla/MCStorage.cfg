SPECIFICATION Spec
CONSTANTS
  SegmentSize = 1
  MaxIndex = 5
  MaxTerm = 2
  MaxReopen = 2
  Key = {k1, k2}
  MaxValue = 2
  MaxLog = 2
  First = 8
  MaxGeneration = 10
  MaxStart = 3
  MaxEntry = 2
  MaxSnapTerm = 2
  MaxLoss = 1
INVARIANTS LogKept  SnapshotKept
PROPERTY FollowerCatchesUp
CHECK_DEADLOCK FALSE
