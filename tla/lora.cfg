CONSTANTS
  Senders = {s}
  Advertisers = {a}
  Packets = {p, q}
  Kind <- MCKind
  Sizes <- MCSizes
  AirTime <- MCAirTime
  AdvertSize <- MCAdvertSize
  MaxPacket = 2
  Limit = 2
  Interval = 0
  QueueLength = 1
  Null = Null
  MaxTime = 1
  MaxSends = 2
  s = s
  a = a
  p = p
  q = q
SPECIFICATION Spec
INVARIANT DutyCycleKept
INVARIANT NewestIsRead
INVARIANT HashesAccounted
PROPERTY RadioIsFreed
CHECK_DEADLOCK FALSE
