SPECIFICATION FairSpec
CONSTANTS
  p1 = p1  p2 = p2
  Peers = {p1, p2}
  Mobile = {p1}
  Static = {p2}
  MaxPeerAge = 0
  MaxTime = 2
  Configs <- MCBuilds
  MinForwards = 2
  NumOfBroadcasts = 2
  BroadcastGap = 0
INVARIANT DoneMeansEnough
INVARIANT SentOnlyOnce
INVARIANT CountedWereReached
PROPERTY OldPeersGo
PROPERTY PeersGetTheirChance
