SPECIFICATION Spec
CONSTANTS
  e1 = e1  e2 = e2  t1 = t1  t2 = t2
  None = None  Foreign = Foreign
  Endpoints = {e1, e2}
  Senders = {t1, t2}
  ReadLimit = 1
  UnixTime = 6
  From1970To2000 = 2
  HasAccurateClock = TRUE
  Lifetime = 2
  ForeignAges = {1}
  Wrap = 40
  MaxTime = 2
  MaxBoots = 1
  MaxBundles = 2
INVARIANT IdsIdentify
INVARIANT AgesAreTrue
PROPERTY RoundEnds
CHECK_DEADLOCK FALSE
