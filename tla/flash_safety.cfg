SPECIFICATION Spec
CONSTANTS
  NumBundles = 4
  Bundles <- MCBundles
  FlashCap = 2
  Routable = {1, 2}
  Expiring = {2, 3}
  BatchSize = 1
  FwdCap = 1
  MaxRestarts = 2
  MaxKey = 5
INVARIANT KeysReachable
INVARIANT NothingLost
INVARIANT SingleCopy
INVARIANT CycleCovers
INVARIANT CycleWithinKeys
CHECK_DEADLOCK FALSE
