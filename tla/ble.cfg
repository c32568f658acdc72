CONSTANTS
  Peers = {p}
  MaxAge = 0
  Wrap = 2
  QueueLength = 1
  None = None
  MaxOutside = 2
  Attempts = 2
  MaxCalls = 1
SPECIFICATION Spec
INVARIANT TrueMeansWritten
PROPERTY FreshPeersStay
PROPERTY SendEnds
CHECK_DEADLOCK FALSE
