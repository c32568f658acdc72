------------------------------ MODULE Routing ------------------------------
(***************************************************************************)
(* The routers at work on one bundle, while other tasks keep the table of  *)
(* peers: loraRecTask, the BLE host task and bundleReceiver enter who they *)
(* hear of, retryBundles removes who was not heard for too long, and       *)
(* applications add static peers.                                          *)
(*                                                                         *)
(* Whoever enters a node gets a copy of it, changes the copy and adds it   *)
(* again; clearOldPeers and the routers work on the list getNodes gave     *)
(* them.  The table may change in between.                                 *)
(*                                                                         *)
(* The received-hash feature (CONFIG_useReceivedSet, experimental) is off. *)
(* Whether a CLA's send succeeds is nondeterministic.  A bundle that was   *)
(* not forwarded with success is always delayed: checkNoFailure is true of *)
(* every reason code.                                                      *)
(***************************************************************************)
EXTENDS PeerTable, Sequences, FiniteSets

CONSTANTS
  Configs,          \* the builds: router, list of CLAs, keyByURI
  Mobile,           \* peers that are heard of
  Static,           \* peers an application may add by addStaticPeer
  MinForwards,      \* CONFIG_NumOfForwards, CONFIG_MinNodesToForward
  NumOfBroadcasts,  \* CONFIG_NumOfBroadcasts
  BroadcastGap      \* CONFIG_BroadcastGap

CLAs == {"lora", "serial", "ble"}

Routers == {"broadcast", "epidemic"}

LocalNode == "local"

ASSUME RoutingAssumption ==
  /\ Configs \subseteq [router : Routers, clas : Seq(CLAs) \ {<<>>}, keyByURI : BOOLEAN]
  /\ Peers = Mobile \cup Static /\ LocalNode \notin Peers
  /\ MinForwards \in Nat \ {0}
  /\ NumOfBroadcasts \in Nat \ {0}
  /\ BroadcastGap \in Nat

VARIABLES
  config,               \* what menuconfig has selected; never changes
  heard,                \* the node object a task has between getNode and addNode
  toCheck,              \* clearOldPeers: the nodes it still has to look at
  forwardedTo,          \* how often each node is in BundleInfo::forwardedTo
  numOfBroadcasts,      \* BundleInfo::numOfBroadcasts
  lastBroadcastTime,    \* BundleInfo::lastBroadcastTime
  done,                 \* whether handleForwarding has returned success
  forwarderAt,          \* where handleForwarding is
  toForward,            \* the nodes it still works on
  nextCla,              \* EpidemicRouter: index into clas
  successfulBroadcast,  \* EpidemicRouter: the local of that name
  cameFrom,             \* history: the peer the bundle came from, if known
  sentTo,               \* history: how often each peer was sent the bundle
  covered               \* history: peers known to a router as it broadcast

infoVars == <<forwardedTo, numOfBroadcasts, lastBroadcastTime, done>>
forwarderVars == <<forwarderAt, toForward, nextCla, successfulBroadcast>>
historyVars == <<cameFrom, sentTo, covered>>
vars == <<peerVars, config, heard, toCheck, infoVars, forwarderVars, historyVars>>

Hearers == {"lora", "ble", "receiver"}

TypeOK ==
  /\ PeerTypeOK
  /\ config \in Configs
  /\ heard \in [Hearers -> Node \cup {NoNode}]
  /\ toCheck \subseteq Node
  /\ forwardedTo \in [Peers \cup {LocalNode} -> Nat]
  /\ numOfBroadcasts \in Nat
  /\ lastBroadcastTime \in 0 .. now
  /\ done \in BOOLEAN
  /\ forwarderAt \in {"idle", "peers", "clas", "decide"}
  /\ toForward \subseteq Node
  /\ nextCla \in 1 .. Len(config.clas) + 1
  /\ successfulBroadcast \in BOOLEAN
  /\ cameFrom \in Peers \cup {NoURI}
  /\ sentTo \in [Peers -> Nat]
  /\ covered \subseteq Peers

(* A bundle comes to the router with the node it was received from in      *)
(* forwardedTo, if that is known, and with the local node, if it was       *)
(* delivered here.                                                         *)
Init ==
  /\ PeerInit
  /\ config \in Configs
  /\ keyByURI = config.keyByURI
  /\ heard = [t \in Hearers |-> NoNode]
  /\ toCheck = {}
  /\ cameFrom \in Mobile \cup {NoURI}
  /\ \E delivered \in SUBSET {LocalNode} :
       forwardedTo = [x \in Peers \cup {LocalNode} |->
                        IF x = cameFrom \/ x \in delivered THEN 1 ELSE 0]
  /\ numOfBroadcasts = 0 /\ lastBroadcastTime = 0 /\ done = FALSE
  /\ forwarderAt = "idle" /\ toForward = {}
  /\ nextCla = 1 /\ successfulBroadcast = FALSE
  /\ sentTo = [p \in Peers |-> 0] /\ covered = {}

canAddress(cla) == cla = "ble"

HasCla(cla) == \E i \in DOMAIN config.clas : config.clas[i] = cla

-----------------------------------------------------------------------------
Tick ==
  /\ now < MaxTime
  /\ now' = now + 1
  /\ UNCHANGED <<keyByURI, nodes, config, heard, toCheck, infoVars,
                 forwarderVars, historyVars>>

(* The three places where a node is heard of.  They differ in what they    *)
(* make of an unknown one.                                                 *)

Hear(task, p, identified) ==
  /\ heard[task] = NoNode
  /\ heard' = [heard EXCEPT ![task] = setLastSeen([identified EXCEPT !.URI = p])]
  /\ UNCHANGED <<peerVars, config, toCheck, infoVars, forwarderVars, historyVars>>

(* decodeProtobuf: the identifier is left as it is. *)
LoRaHears(p) == HasCla("lora") /\ Hear("lora", p, getNode(p))

(* BleCLA::discoveredPeer: the identifier becomes the URI without "dtn://".*)
BleHears(p) ==
  LET n == getNode(p) IN
  /\ HasCla("ble")
  /\ Hear("ble", p, IF n.identifier = <<"empty">>
                    THEN [n EXCEPT !.identifier = <<"short", p>>]
                    ELSE n)

(* bundleReceiver: the identifier becomes the URI. *)
ReceiverHears(p) ==
  LET n == getNode(p) IN
  Hear("receiver", p, IF n.URI = NoURI
                      THEN [n EXCEPT !.identifier = <<"uri", p>>]
                      ELSE n)

AddHeard(task) ==
  /\ heard[task] # NoNode
  /\ addNode(heard[task])
  /\ heard' = [heard EXCEPT ![task] = NoNode]
  /\ UNCHANGED <<keyByURI, now, config, toCheck, infoVars, forwarderVars,
                 historyVars>>

(* An application makes the node with Node(URI), which sets no identifier. *)
AddStaticPeer(p) ==
  /\ addNode([URI |-> p, identifier |-> <<"empty">>, lastSeen |-> Forever])
  /\ UNCHANGED <<keyByURI, now, config, heard, toCheck, infoVars,
                 forwarderVars, historyVars>>

-----------------------------------------------------------------------------
(* clearOldPeers, which retryBundles calls in each round.                  *)

StartClearing ==
  /\ toCheck = {}
  /\ toCheck' = getNodes
  /\ UNCHANGED <<peerVars, config, heard, infoVars, forwarderVars, historyVars>>

(* The order of an unordered_map is not known. *)
CheckPeer(n) ==
  /\ n \in toCheck
  /\ IF IsOld(n) THEN removeNode(n.URI) ELSE UNCHANGED nodes
  /\ toCheck' = toCheck \ {n}
  /\ UNCHANGED <<keyByURI, now, config, heard, infoVars, forwarderVars, historyVars>>

Retrier == StartClearing \/ \E n \in toCheck : CheckPeer(n)

-----------------------------------------------------------------------------
(* Bookkeeping of handleForwarding.                                        *)

URIs(S) == {n.URI : n \in S}

(* The vector forwardedTo after one more entry for each node of S. *)
WithEntries(f, S) ==
  [x \in DOMAIN f |-> f[x] + Cardinality({n \in S : n.URI = x})]

NumEntries == Cardinality(UNION {{x} \X (1 .. forwardedTo[x]) : x \in DOMAIN forwardedTo})

RecordSends(S) == sentTo' = WithEntries(sentTo, S)

(* checkForwardedTo *)
FaultyNotForwardedTo(n) == forwardedTo[n.URI] <= 1

FaultyNotForwardedToAny(n) == NumEntries = 0

NotForwardedTo(n) == forwardedTo[n.URI] = 0

-----------------------------------------------------------------------------
(* EpidemicRouter::handleForwarding.                                       *)

StartEpidemic ==
  LET due == {n \in getNodes : NotForwardedTo(n)} IN
  /\ config.router = "epidemic"
  /\ forwarderAt = "idle" /\ ~done
  /\ toForward' = due
  /\ forwarderAt' = IF due = {} THEN "decide" ELSE "clas"
  /\ UNCHANGED <<peerVars, config, heard, toCheck, infoVars, nextCla,
                 successfulBroadcast, historyVars>>

(* A CLA that can only broadcast is tried once.  After a success it is     *)
(* assumed that all known nodes have the bundle.                           *)
EpidemicBroadcast ==
  /\ forwarderAt = "clas"
  /\ nextCla <= Len(config.clas)
  /\ ~canAddress(config.clas[nextCla])
  /\ \/ /\ successfulBroadcast' = TRUE
        /\ numOfBroadcasts' = numOfBroadcasts + 1
        /\ lastBroadcastTime' = now
        /\ covered' = covered \cup URIs(toForward)
     \/ UNCHANGED <<successfulBroadcast, numOfBroadcasts, lastBroadcastTime, covered>>
  /\ forwardedTo' = IF successfulBroadcast'
                    THEN WithEntries(forwardedTo, toForward)
                    ELSE forwardedTo
  /\ nextCla' = nextCla + 1
  /\ UNCHANGED <<peerVars, config, heard, toCheck, done, forwarderAt, toForward,
                 cameFrom, sentTo>>

(* A CLA that can address nodes is tried for each of them.  The nodes are  *)
(* also entered if a CLA before this one has broadcast the bundle.         *)
EpidemicSend ==
  /\ forwarderAt = "clas"
  /\ nextCla <= Len(config.clas)
  /\ canAddress(config.clas[nextCla])
  /\ \E S \in SUBSET toForward :
       /\ forwardedTo' = WithEntries(IF successfulBroadcast
                                     THEN WithEntries(forwardedTo, toForward)
                                     ELSE forwardedTo, S)
       /\ RecordSends(S)
  /\ nextCla' = nextCla + 1
  /\ UNCHANGED <<peerVars, config, heard, toCheck, numOfBroadcasts,
                 lastBroadcastTime, done, forwarderAt, toForward, successfulBroadcast,
                 cameFrom, covered>>

-----------------------------------------------------------------------------
(* SimpleBroadcastRouter::handleForwarding.                                *)

StartBroadcastRouter ==
  /\ config.router = "broadcast"
  /\ forwarderAt = "idle" /\ ~done
  /\ toForward' = getNodes
  /\ forwarderAt' = "peers"
  /\ UNCHANGED <<peerVars, config, heard, toCheck, infoVars, nextCla,
                 successfulBroadcast, historyVars>>

(* The CLAs that can address nodes are tried in turn, until one succeeds.  *)
SendToPeer(n) ==
  /\ forwarderAt = "peers"
  /\ n \in toForward
  /\ \/ /\ NotForwardedTo(n)
        /\ \E i \in DOMAIN config.clas : canAddress(config.clas[i])
        /\ forwardedTo' = WithEntries(forwardedTo, {n})
        /\ RecordSends({n})
     \/ UNCHANGED <<forwardedTo, sentTo>>
  /\ toForward' = toForward \ {n}
  /\ UNCHANGED <<peerVars, config, heard, toCheck, numOfBroadcasts,
                 lastBroadcastTime, done, forwarderAt, nextCla, successfulBroadcast,
                 cameFrom, covered>>

(* All CLAs that can only broadcast are tried, unless that was done a      *)
(* short time ago.                                                         *)
Broadcast ==
  /\ forwarderAt = "peers"
  /\ toForward = {}
  /\ \/ /\ lastBroadcastTime = 0 \/ now - lastBroadcastTime > BroadcastGap
        /\ \E S \in SUBSET {i \in DOMAIN config.clas : ~canAddress(config.clas[i])} :
             /\ numOfBroadcasts' = numOfBroadcasts + Cardinality(S)
             /\ lastBroadcastTime' = IF S = {} THEN lastBroadcastTime ELSE now
     \/ /\ lastBroadcastTime # 0 /\ now - lastBroadcastTime <= BroadcastGap
        /\ UNCHANGED <<numOfBroadcasts, lastBroadcastTime>>
  /\ forwarderAt' = "decide"
  /\ UNCHANGED <<peerVars, config, heard, toCheck, forwardedTo, done, toForward,
                 nextCla, successfulBroadcast, historyVars>>

-----------------------------------------------------------------------------
(* What handleForwarding returns.  Without success the bundle is delayed,  *)
(* and comes to the router again.                                          *)

FaultyEnough == NumEntries > 0

Enough ==
  \/ NumEntries >= MinForwards
  \/ config.router = "broadcast" /\ numOfBroadcasts >= NumOfBroadcasts

FaultyDecide ==
  /\ \/ forwarderAt = "decide"
     \/ forwarderAt = "clas" /\ nextCla > Len(config.clas)
  /\ done' = Enough
  /\ forwarderAt' = "idle"
  /\ toForward' = {} /\ nextCla' = 1
  /\ UNCHANGED <<peerVars, config, heard, toCheck, forwardedTo, numOfBroadcasts,
                 lastBroadcastTime, successfulBroadcast, historyVars>>

(* The locals of handleForwarding have their initial values again, for the *)
(* next call.                                                              *)
Decide ==
  /\ \/ forwarderAt = "decide"
     \/ forwarderAt = "clas" /\ nextCla > Len(config.clas)
  /\ done' = Enough
  /\ forwarderAt' = "idle"
  /\ toForward' = {} /\ nextCla' = 1 /\ successfulBroadcast' = FALSE
  /\ UNCHANGED <<peerVars, config, heard, toCheck, forwardedTo, numOfBroadcasts,
                 lastBroadcastTime, historyVars>>

Forwarder ==
  \/ StartEpidemic
  \/ EpidemicBroadcast
  \/ EpidemicSend
  \/ StartBroadcastRouter
  \/ \E n \in toForward : SendToPeer(n)
  \/ Broadcast
  \/ Decide

-----------------------------------------------------------------------------
Next ==
  \/ Tick
  \/ \E p \in Mobile : LoRaHears(p) \/ BleHears(p) \/ ReceiverHears(p)
  \/ \E t \in Hearers : AddHeard(t)
  \/ \E p \in Static : AddStaticPeer(p)
  \/ Retrier
  \/ Forwarder

Spec == Init /\ [][Next]_vars

(* The tasks run in turn, and the retry task wakes up again and again; so  *)
(* does the forwarder, since a delayed bundle comes back with each retry.  *)
Fairness ==
  /\ WF_vars(Retrier)
  /\ WF_vars(Forwarder)

FairSpec == Spec /\ Fairness

-----------------------------------------------------------------------------
(* Properties.                                                             *)

KnownAs(p) == {n \in getNodes : n.URI = p}

(* The table has a node once, or, filed by identifier, up to three times:  *)
(* under "empty", under its URI and under its URI without scheme.          *)
ObjectsPerNode == IF keyByURI THEN 1 ELSE 3

(* When a round of the epidemic router may enter a node object, up to the  *)
(* k-th CLA: as a CLA sends to it, and after each CLA from the first that  *)
(* can only broadcast.                                                     *)
EntryChances(k) ==
  {c \in (1 .. k) \X {"send", "broadcast"} :
     IF c[2] = "send" THEN canAddress(config.clas[c[1]])
                      ELSE \E j \in 1 .. c[1] : ~canAddress(config.clas[j])}

EntriesPerNode ==
  IF config.router = "broadcast"
  THEN 1
  ELSE ObjectsPerNode * Cardinality(EntryChances(Len(config.clas)))

(* Kconfig says of CONFIG_NumOfForwards "Number of nodes each bundle shall *)
(* be forwarded to before a transmissions is considered a success".  What  *)
(* handleForwarding counts are entries of forwardedTo: a bundle is done    *)
(* with when the broadcast router has broadcast it often enough, or when   *)
(* the nodes that have it, each counted as often as this build may enter a *)
(* node, are as many as configured.  With the broadcast router, or with    *)
(* one CLA and nodes filed by URI, that is once.                           *)
DoneMeansEnough ==
  done =>
    \/ Cardinality({x \in DOMAIN forwardedTo : forwardedTo[x] > 0}) * EntriesPerNode
         >= MinForwards
    \/ config.router = "broadcast" /\ numOfBroadcasts >= NumOfBroadcasts

(* The builds that look at forwardedTo before each sending to a node: the  *)
(* epidemic router looks at it once for all CLAs and all objects of a node.*)
OneAddressing(clas) ==
  \A i, j \in DOMAIN clas : canAddress(clas[i]) /\ canAddress(clas[j]) => i = j

LooksBeforeSending ==
  config.router = "broadcast" \/ (keyByURI /\ OneAddressing(config.clas))

(* No peer is sent by a CLA what it was sent before, or what came from it, *)
(* although the table changes between the rounds of a router and while one *)
(* is under way (checkForwardedTo).                                        *)
SentOnlyOnce ==
  LooksBeforeSending =>
    \A p \in Peers : sentTo[p] + (IF p = cameFrom THEN 1 ELSE 0) <= 1

(* A peer is counted in forwardedTo only if the bundle came from it, it    *)
(* was sent the bundle, or a router that knew it has broadcast the bundle, *)
(* whichever CLAs failed in whichever round.                               *)
CountedWereReached ==
  \A p \in Peers :
    forwardedTo[p] > 0 => sentTo[p] > 0 \/ p \in covered \cup {cameFrom}

(* Kconfig on MaxPeerAge: "Maximum time a node is stored in the list of    *)
(* known peers if not seen".  Filed by URI, a node that is too old is      *)
(* removed by clearOldPeers, or heard again, whatever else is done to the  *)
(* table between getNodes, removeNode and addNode.                         *)
OldPeersGo ==
  keyByURI =>
    \A p \in Peers : (\E n \in KnownAs(p) : IsOld(n)) ~> (\A n \in KnownAs(p) : ~IsOld(n))

(* A router leaves no peer out: handleForwarding takes up one that stays   *)
(* known, unless the bundle is counted as forwarded to it or done with.    *)
PeersGetTheirChance ==
  \A p \in Peers :
    (~done /\ forwardedTo[p] = 0 /\ KnownAs(p) # {})
      ~> (done \/ forwardedTo[p] > 0 \/ KnownAs(p) = {} \/ p \in URIs(toForward))

=============================================================================
