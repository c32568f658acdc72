SPECIFICATION Spec
CONSTANTS
  none = none
  plain = plain
  cut = cut
  noisy = noisy
  long = long
  x = x
  y = y
  None = none
  NoSsp = none
  NoCrc = none
  NoData = none
  PayloadSize <- MCPayloadSize
  BlockBuffer = 2
  NodeSize = 1
  RecordBuffer = 3
  HoldsBegin <- MCHoldsBegin
  HoldsEnd <- MCHoldsEnd
  UartBuffer = 9
  TimeBetweenClaPoll = 1
  NumNodes = 3
  Uri <- MCUri
  Origins <- MCOrigins
  Damaged <- MCDamaged
  MaxTime = 2
  MaxSends = 2
  MaxNoise = 1
INVARIANT TravelsIntact
INVARIANT CountsTrue
INVARIANT RecordsKeepPeers
PROPERTY PollTakesWhole
PROPERTY FlagsHeeded
CHECK_DEADLOCK FALSE
