SPECIFICATION Spec
CONSTANTS
  b1 = b1  b2 = b2  b3 = b3  b4 = b4
  Bundles = {b1, b2, b3}
  Times = {1, 2}
  Local = {b1, b2}
  Reply <- MCReplies
  Expiring = {b2}
  Cancellable = {b1, b3}
  RecvCap = 2
  FwdCap = 1
  MaxStored = 2
  BatchSize = 2
  MaxArrivals = 4
INVARIANT SingleCopy
INVARIANT NothingLost
INVARIANT DeliveredExactlyOnce
INVARIANT CycleCovers
PROPERTY ImplementsCustody
CHECK_DEADLOCK FALSE
