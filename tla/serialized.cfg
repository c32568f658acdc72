CONSTANTS
  Bundles <- MCBundles
  ReceivedAt <- MCReceivedAt
  Size <- MCSize
  Serialized <- MCSerialized
  CopySize = 1
  Heap = 12
  TargetFree = 3
  MaxRemoved = 3
  BatchSize = 2
  MaxOther = 4
  MaxStores = 5
SPECIFICATION SerializedSpec
INVARIANT OneTooMany
INVARIANT CycleDebt
INVARIANT EmptyNeedsFew
CHECK_DEADLOCK FALSE
