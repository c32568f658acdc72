SPECIFICATION FairSpec
CONSTANTS
  b1 = b1  b2 = b2  b3 = b3  b4 = b4
  Bundles = {b1, b2, b3, b4}
  Times = {1}
  Local = {b1}
  Reply <- MCReplies
  Expiring = {}
  Cancellable = {}
  RecvCap = 1
  FwdCap = 1
  MaxStored = 3
  BatchSize = 1
  MaxArrivals = 4
INVARIANT NoEmptyAccess
PROPERTY HeldSettles
PROPERTY StoredIsRetried
PROPERTY RetryCycleEnds
