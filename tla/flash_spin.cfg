SPECIFICATION FairSpec
CONSTANTS
  NumBundles = 7
  Bundles <- MCBundles
  FlashCap = 2
  Routable = {}
  Expiring = {}
  BatchSize = 1
  FwdCap = 1
  MaxRestarts = 0
  MaxKey = 6
PROPERTY DelayEnds
