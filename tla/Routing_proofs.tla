---------------------------- MODULE Routing_proofs ----------------------------
(***************************************************************************)
(* Proofs about Routing, for any peers, CLAs and numbers of forwardings:   *)
(* that only those are counted who were reached, that nobody is sent the   *)
(* bundle twice, and that the router is done only when enough nodes have   *)
(* the bundle.                                                             *)
(*                                                                         *)
(* Then proofs about SerializedStorage, where the bundles that a router is *)
(* not done with wait for the next retry, for any bundles, sizes and       *)
(* limits: what the counter of a retry cycle can be off by, when           *)
(* deleteOldest can find the list empty, and how many bundles it removes   *)
(* without need.  How the heap in use adds up is left open: of FreeHeap    *)
(* the proofs use only that it changes when what it is computed from does. *)
(* The two components share no state here and are proved one by one.       *)
(***************************************************************************)
EXTENDS Routing, SerializedStorage, FiniteSetTheorems, SequenceTheorems, TLAPS

-----------------------------------------------------------------------------
(* Entries in the list forwardedTo.                                        *)

LEMMA EntriesTyped ==
  ASSUME NEW D, NEW f \in [D -> Nat], NEW S, IsFiniteSet(S)
  PROVE  /\ WithEntries(f, S) \in [D -> Nat]
         /\ \A x \in D : WithEntries(f, S)[x] >= f[x]
<1> DEFINE c(x) == Cardinality({n \in S : n.URI = x})
<1>1. \A x : IsFiniteSet({n \in S : n.URI = x})
  BY FS_Subset
<1>2. \A x : c(x) \in Nat
  BY <1>1, FS_CardinalityType
<1>3. WithEntries(f, S) = [x \in D |-> f[x] + c(x)]
  BY DEF WithEntries
<1> HIDE DEF c
<1>4. \A x \in D : f[x] + c(x) \in Nat /\ f[x] + c(x) >= f[x]
  BY <1>2
<1> QED BY <1>3, <1>4

(* A node gets an entry if and only if it is in the set. *)
LEMMA EntriesOfOthers ==
  ASSUME NEW D, NEW f \in [D -> Nat], NEW S, NEW x \in D, x \notin URIs(S)
  PROVE  WithEntries(f, S)[x] = f[x]
<1>1. {n \in S : n.URI = x} = {}
  BY DEF URIs
<1>2. Cardinality({n \in S : n.URI = x}) = 0
  BY <1>1, FS_EmptySet
<1> QED BY <1>2 DEF WithEntries

LEMMA EntriesOfMembers ==
  ASSUME NEW D, NEW f \in [D -> Nat], NEW S, IsFiniteSet(S), NEW x \in D, x \in URIs(S)
  PROVE  WithEntries(f, S)[x] > 0
<1> DEFINE T == {n \in S : n.URI = x}
<1>1. IsFiniteSet(T) /\ T # {}
  BY FS_Subset DEF URIs
<1>2. Cardinality(T) \in Nat /\ Cardinality(T) # 0
  BY <1>1, FS_CardinalityType, FS_EmptySet
<1>3. WithEntries(f, S)[x] = f[x] + Cardinality(T)
  BY DEF WithEntries
<1> QED BY <1>2, <1>3

(* Nodes with different URIs get one entry each. *)
Distinct(S) == \A m, n \in S : m.URI = n.URI => m = n

LEMMA EntriesOfDistinct ==
  ASSUME NEW D, NEW f \in [D -> Nat], NEW S, Distinct(S), NEW x \in D, x \in URIs(S)
  PROVE  WithEntries(f, S)[x] = f[x] + 1
<1>1. PICK n \in S : n.URI = x
  BY DEF URIs
<1>2. {m \in S : m.URI = x} = {n}
  BY <1>1 DEF Distinct
<1>3. Cardinality({m \in S : m.URI = x}) = 1
  BY <1>2, FS_Singleton
<1> QED BY <1>3 DEF WithEntries

-----------------------------------------------------------------------------
(* Types.  The table is finite, and so are the lists made from it.         *)

Finite == IsFiniteSet(DOMAIN nodes) /\ IsFiniteSet(toForward)

TypeInv == TypeOK /\ Finite

LEMMA NodesTyped ==
  ASSUME PeerTypeOK, Finite
  PROVE  getNodes \subseteq Node /\ IsFiniteSet(getNodes)
<1> DEFINE f == [k \in DOMAIN nodes |-> nodes[k]]
<1>1. f \in Surjection(DOMAIN nodes, getNodes)
  BY DEF getNodes, Surjection
<1>2. IsFiniteSet(getNodes)
  BY <1>1, FS_Surjection DEF Finite
<1> QED BY <1>2 DEF getNodes, PeerTypeOK

LEMMA AddNodeTyped ==
  ASSUME PeerTypeOK, Finite, NEW n \in Node, addNode(n), UNCHANGED <<keyByURI, now, toForward>>
  PROVE  PeerTypeOK' /\ Finite'
<1>1. Key(n) \in Identifiers
  BY DEF Key, Node, Identifiers
<1>2. DOMAIN nodes' = DOMAIN nodes \cup {Key(n)}
  BY DEF addNode
<1>3. \A k \in DOMAIN nodes' : nodes'[k] \in Node
  BY DEF addNode, PeerTypeOK
<1>4. IsFiniteSet(DOMAIN nodes')
  BY <1>2, FS_AddElement DEF Finite
<1> QED BY <1>1, <1>2, <1>3, <1>4 DEF PeerTypeOK, Finite

LEMMA RemoveNodeTyped ==
  ASSUME PeerTypeOK, Finite, NEW p, removeNode(p), UNCHANGED <<keyByURI, now, toForward>>
  PROVE  PeerTypeOK' /\ Finite'
<1>1. DOMAIN nodes' = DOMAIN nodes \ {<<"uri", p>>}
  BY DEF removeNode
<1>2. \A k \in DOMAIN nodes' : nodes'[k] \in Node
  BY DEF removeNode, PeerTypeOK
<1>3. IsFiniteSet(DOMAIN nodes')
  BY <1>1, FS_RemoveElement DEF Finite
<1> QED BY <1>1, <1>2, <1>3 DEF PeerTypeOK, Finite

(* What a task hears of is a node with a URI.                              *)
LEMMA HeardTyped ==
  ASSUME PeerTypeOK, NEW n \in Node \cup {NoNode}, NEW p \in Peers
  PROVE  setLastSeen([n EXCEPT !.URI = p]) \in Node
<1>1. n.identifier \in Identifiers /\ n.lastSeen \in 0 .. Forever
  BY PeerAssumption DEF Node, NoNode, Identifiers, Forever
<1>2. n = [URI |-> n.URI, identifier |-> n.identifier, lastSeen |-> n.lastSeen]
  BY DEF Node, NoNode
<1>3. now \in 1 .. Forever /\ Forever \in 1 .. Forever
  BY PeerAssumption DEF PeerTypeOK, Forever
<1> DEFINE m == [n EXCEPT !.URI = p]
<1>4. m = [URI |-> p, identifier |-> n.identifier, lastSeen |-> n.lastSeen]
  BY <1>2
<1>5. setLastSeen(m) = [URI |-> p, identifier |-> n.identifier,
                        lastSeen |-> IF n.lastSeen = Forever THEN Forever ELSE now]
  BY <1>4 DEF setLastSeen
<1> QED BY <1>1, <1>3, <1>5 DEF Node

LEMMA KnownTyped ==
  ASSUME PeerTypeOK, NEW p
  PROVE  getNode(p) \in Node \cup {NoNode}
  BY DEF getNode, PeerTypeOK

LEMMA InitTyped == Init => TypeInv
<1> SUFFICES ASSUME Init PROVE TypeInv
  OBVIOUS
<1>1. PeerTypeOK /\ DOMAIN nodes = {}
  BY RoutingAssumption, PeerAssumption DEF Init, PeerInit, PeerTypeOK
<1>2. Finite
  BY <1>1, FS_EmptySet DEF Init, Finite
<1>3. NoNode \in Node \cup {NoNode} /\ 1 \in 1 .. Len(config.clas) + 1
  BY RoutingAssumption DEF Init
<1>4. PICK delivered \in SUBSET {LocalNode} :
        forwardedTo = [x \in Peers \cup {LocalNode} |->
                         IF x = cameFrom \/ x \in delivered THEN 1 ELSE 0]
  BY DEF Init
<1>5. forwardedTo \in [Peers \cup {LocalNode} -> Nat] /\ sentTo \in [Peers -> Nat]
  BY <1>4 DEF Init
<1>6. heard \in [Hearers -> Node \cup {NoNode}] /\ lastBroadcastTime \in 0 .. now
  BY PeerAssumption DEF Init, PeerInit
<1>7. cameFrom \in Peers \cup {NoURI}
  BY RoutingAssumption DEF Init
<1> QED BY <1>1, <1>2, <1>3, <1>5, <1>6, <1>7 DEF Init, TypeOK, TypeInv

LEMMA NextTyped == TypeInv /\ [Next]_vars => TypeInv'
<1> SUFFICES ASSUME TypeInv, [Next]_vars PROVE TypeInv'
  OBVIOUS
<1> USE DEF TypeInv, infoVars, forwarderVars, historyVars
<1>0. PeerTypeOK /\ Finite /\ config \in Configs /\ config.clas \in Seq(CLAs)
  BY RoutingAssumption DEF TypeOK
<1>1. CASE Tick
  BY <1>1, <1>0, PeerAssumption DEF Tick, TypeOK, PeerTypeOK, Finite
<1>2. ASSUME NEW p \in Mobile, LoRaHears(p) \/ BleHears(p) \/ ReceiverHears(p)
      PROVE  TypeInv'
  <2> DEFINE n == getNode(p)
  <2>1. n \in Node \cup {NoNode} /\ p \in Peers
    BY <1>0, KnownTyped, RoutingAssumption
  <2>2. PICK task \in Hearers, m \in {n, [n EXCEPT !.identifier = <<"short", p>>],
                                      [n EXCEPT !.identifier = <<"uri", p>>]} :
          Hear(task, p, m)
    BY <1>2 DEF LoRaHears, BleHears, ReceiverHears, Hearers
  <2>3. setLastSeen([m EXCEPT !.URI = p]) \in Node
    <3>1. CASE n \in Node
      <4>1. m \in Node
        BY <2>1, <2>2, <3>1 DEF Node, Identifiers
      <4> QED BY <4>1, <2>1, <1>0, HeardTyped
    <3>2. CASE n = NoNode
      <4>1. PICK i \in Identifiers : m = [URI |-> NoURI, identifier |-> i, lastSeen |-> 0]
        BY <2>1, <2>2, <3>2 DEF NoNode, Identifiers
      <4>2. [m EXCEPT !.URI = p] = [URI |-> p, identifier |-> i, lastSeen |-> 0]
        BY <4>1
      <4> HIDE DEF n
      <4>5. Forever # 0
        BY PeerAssumption DEF Forever
      <4>3. setLastSeen([m EXCEPT !.URI = p]) = [URI |-> p, identifier |-> i, lastSeen |-> now]
        BY <4>2, <4>5 DEF setLastSeen
      <4> QED BY <4>3, <2>1, <1>0, PeerAssumption DEF PeerTypeOK, Node, Forever
    <3> QED BY <2>1, <3>1, <3>2
  <2>4. heard' \in [Hearers -> Node \cup {NoNode}]
    BY <2>2, <2>3 DEF Hear, TypeOK
  <2> HIDE DEF n
  <2>5. UNCHANGED <<peerVars, config, toCheck, infoVars, forwarderVars, historyVars>>
    BY <2>2 DEF Hear
  <2> QED BY <2>4, <2>5 DEF TypeOK, peerVars, PeerTypeOK, Finite
<1>3. ASSUME NEW t \in Hearers, AddHeard(t) PROVE TypeInv'
  <2>1. heard[t] \in Node /\ addNode(heard[t])
    BY <1>3 DEF AddHeard, TypeOK
  <2>2. UNCHANGED <<keyByURI, now, config, toCheck, infoVars, forwarderVars, historyVars>>
        /\ heard' = [heard EXCEPT ![t] = NoNode]
    BY <1>3 DEF AddHeard
  <2>3. PeerTypeOK' /\ Finite'
    BY <2>1, <2>2, <1>0, AddNodeTyped
  <2> QED BY <2>2, <2>3 DEF TypeOK
<1>4. ASSUME NEW p \in Static, AddStaticPeer(p) PROVE TypeInv'
  <2> DEFINE n == [URI |-> p, identifier |-> <<"empty">>, lastSeen |-> Forever]
  <2>1. n \in Node
    BY RoutingAssumption, PeerAssumption DEF Node, Identifiers, Forever
  <2>2. UNCHANGED <<keyByURI, now, config, heard, toCheck, infoVars, forwarderVars, historyVars>>
        /\ addNode(n)
    BY <1>4 DEF AddStaticPeer
  <2>3. PeerTypeOK' /\ Finite'
    BY <2>1, <2>2, <1>0, AddNodeTyped
  <2> QED BY <2>2, <2>3 DEF TypeOK
<1>5. CASE Retrier
  <2>1. CASE StartClearing
    BY <2>1, <1>0, NodesTyped DEF StartClearing, TypeOK, peerVars, PeerTypeOK, Finite
  <2>2. ASSUME NEW n \in toCheck, CheckPeer(n) PROVE TypeInv'
    <3>1. UNCHANGED <<keyByURI, now, config, heard, infoVars, forwarderVars, historyVars>>
          /\ toCheck' = toCheck \ {n} /\ (removeNode(n.URI) \/ UNCHANGED nodes)
      BY <2>2 DEF CheckPeer
    <3>2. PeerTypeOK' /\ Finite'
      BY <3>1, <1>0, RemoveNodeTyped DEF PeerTypeOK, Finite
    <3> QED BY <3>1, <3>2 DEF TypeOK
  <2> QED BY <1>5, <2>1, <2>2 DEF Retrier
<1>6. CASE Forwarder
  <2>0. ASSUME UNCHANGED <<peerVars, config, heard, toCheck>>, Finite'
        PROVE  PeerTypeOK' /\ config' \in Configs /\ heard' \in [Hearers -> Node \cup {NoNode}]
               /\ toCheck' \subseteq Node
    BY <2>0 DEF TypeOK, peerVars, PeerTypeOK
  <2>a. \A S : S \subseteq toForward => IsFiniteSet(S)
    BY <1>0, FS_Subset DEF Finite
  <2>b. forwardedTo \in [Peers \cup {LocalNode} -> Nat] /\ sentTo \in [Peers -> Nat]
        /\ toForward \subseteq Node /\ numOfBroadcasts \in Nat
        /\ now \in Nat /\ lastBroadcastTime \in 0 .. now
        /\ nextCla \in 1 .. Len(config.clas) + 1 /\ Len(config.clas) \in Nat
    BY <1>0 DEF TypeOK, PeerTypeOK
  <2>c. WithEntries(forwardedTo, toForward) \in [Peers \cup {LocalNode} -> Nat]
    BY <2>a, <2>b, EntriesTyped
  <2>1. CASE StartEpidemic
    <3>1. toForward' \subseteq getNodes
      BY <2>1 DEF StartEpidemic
    <3>2. toForward' \subseteq Node /\ Finite'
      BY <2>1, <3>1, <1>0, NodesTyped, FS_Subset DEF StartEpidemic, peerVars, Finite
    <3> QED BY <2>0, <2>1, <2>b, <3>2 DEF StartEpidemic, TypeOK, peerVars
  <2>2. CASE EpidemicBroadcast
    <3>1. Finite'
      BY <2>2, <1>0 DEF EpidemicBroadcast, Finite, peerVars
    <3>2. forwardedTo' \in [Peers \cup {LocalNode} -> Nat]
      BY <2>2, <2>b, <2>c DEF EpidemicBroadcast
    <3>3. covered' \subseteq Peers
      BY <2>2, <2>b DEF EpidemicBroadcast, URIs, Node, TypeOK
    <3>4. successfulBroadcast' \in BOOLEAN
      BY <2>2 DEF EpidemicBroadcast, TypeOK
    <3>6. nextCla' \in 1 .. Len(config'.clas) + 1
      BY <2>2, <2>b DEF EpidemicBroadcast
    <3>5. numOfBroadcasts' \in Nat /\ lastBroadcastTime' \in 0 .. now'
      BY <2>2, <2>b DEF EpidemicBroadcast, peerVars
    <3> QED BY <2>0, <2>2, <3>1, <3>2, <3>3, <3>4, <3>5, <3>6 DEF EpidemicBroadcast, TypeOK
  <2>3. CASE EpidemicSend
    <3>1. Finite'
      BY <2>3, <1>0 DEF EpidemicSend, Finite, peerVars
    <3>2. PICK S \in SUBSET toForward :
            /\ forwardedTo' = WithEntries(IF successfulBroadcast
                                          THEN WithEntries(forwardedTo, toForward)
                                          ELSE forwardedTo, S)
            /\ sentTo' = WithEntries(sentTo, S)
      BY <2>3 DEF EpidemicSend, RecordSends
    <3>3. sentTo' \in [Peers -> Nat]
      BY <3>2, <2>a, <2>b, EntriesTyped
    <3>4. forwardedTo' \in [Peers \cup {LocalNode} -> Nat]
      BY <3>2, <2>a, <2>b, <2>c, EntriesTyped
    <3>5. nextCla' \in 1 .. Len(config'.clas) + 1 /\ lastBroadcastTime' \in 0 .. now'
      BY <2>3, <2>b DEF EpidemicSend, peerVars
    <3> QED BY <2>0, <2>3, <3>1, <3>3, <3>4, <3>5 DEF EpidemicSend, TypeOK
  <2>4. CASE StartBroadcastRouter
    <3>1. toForward' \subseteq Node /\ Finite'
      BY <2>4, <1>0, NodesTyped DEF StartBroadcastRouter, peerVars, Finite
    <3> QED BY <2>0, <2>4, <2>b, <3>1 DEF StartBroadcastRouter, TypeOK, peerVars
  <2>5. ASSUME NEW n \in toForward, SendToPeer(n) PROVE TypeInv'
    <3>1. toForward' \subseteq Node /\ Finite'
      BY <2>5, <1>0, <2>b, FS_RemoveElement DEF SendToPeer, peerVars, Finite
    <3>2. forwardedTo' \in [Peers \cup {LocalNode} -> Nat] /\ sentTo' \in [Peers -> Nat]
      <4>1. /\ WithEntries(forwardedTo, {n}) \in [Peers \cup {LocalNode} -> Nat]
            /\ WithEntries(sentTo, {n}) \in [Peers -> Nat]
        BY <2>b, FS_Singleton, EntriesTyped
      <4> QED BY <2>5, <2>b, <4>1 DEF SendToPeer, RecordSends
    <3> QED BY <2>0, <2>5, <2>b, <3>1, <3>2 DEF SendToPeer, TypeOK, peerVars
  <2>6. CASE Broadcast
    <3>1. Finite'
      BY <2>6, <1>0 DEF Broadcast, Finite, peerVars
    <3>2. numOfBroadcasts' \in Nat /\ lastBroadcastTime' \in 0 .. now'
      <4>1. ASSUME NEW S \in SUBSET {i \in DOMAIN config.clas : ~canAddress(config.clas[i])}
            PROVE  Cardinality(S) \in Nat
        <5>1. DOMAIN config.clas = 1 .. Len(config.clas)
          BY <1>0
        <5>2. IsFiniteSet(1 .. Len(config.clas))
          BY <2>b, FS_Interval
        <5>3. S \subseteq DOMAIN config.clas
          OBVIOUS
        <5> QED BY <5>1, <5>2, <5>3, FS_Subset, FS_CardinalityType
      <4> QED BY <2>6, <4>1, <2>b DEF Broadcast, peerVars
    <3> QED BY <2>0, <2>6, <2>b, <3>1, <3>2 DEF Broadcast, TypeOK
  <2>7. CASE Decide
    <3>1. Finite'
      BY <2>7, <1>0, FS_EmptySet DEF Decide, Finite, peerVars
    <3>2. done' \in BOOLEAN
      BY <2>7 DEF Decide, Enough
    <3>3. nextCla' \in 1 .. Len(config'.clas) + 1 /\ toForward' \subseteq Node
      BY <2>7, <2>b DEF Decide
    <3>4. UNCHANGED <<peerVars, config, heard, toCheck, forwardedTo, numOfBroadcasts,
                      lastBroadcastTime, historyVars>>
          /\ forwarderAt' = "idle" /\ successfulBroadcast' = FALSE
      BY <2>7 DEF Decide
    <3> QED BY <2>0, <3>1, <3>2, <3>3, <3>4, <2>b DEF TypeOK, peerVars
  <2> QED BY <1>6, <2>1, <2>2, <2>3, <2>4, <2>5, <2>6, <2>7 DEF Forwarder
<1>7. CASE UNCHANGED vars
  BY <1>7, <1>0 DEF vars, peerVars, TypeOK, PeerTypeOK, Finite
<1> QED BY <1>1, <1>2, <1>3, <1>4, <1>5, <1>6, <1>7 DEF Next

(* Every variable keeps its type. *)
THEOREM TypeCorrect == Spec => []TypeOK
<1>1. TypeInv => TypeOK
  BY DEF TypeInv
<1> QED BY <1>1, InitTyped, NextTyped, PTL DEF Spec

-----------------------------------------------------------------------------
(* CountedWereReached.  A broadcast counts for the nodes of this round,    *)
(* and only as long as this round lasts.                                   *)

BroadcastCovers ==
  successfulBroadcast => forwarderAt = "clas" /\ URIs(toForward) \subseteq covered

ReachedInv == BroadcastCovers /\ CountedWereReached

LEMMA ReachedInit == Init => ReachedInv
<1> SUFFICES ASSUME Init PROVE ReachedInv
  OBVIOUS
<1>1. PICK delivered \in SUBSET {LocalNode} :
        forwardedTo = [x \in Peers \cup {LocalNode} |->
                         IF x = cameFrom \/ x \in delivered THEN 1 ELSE 0]
  BY DEF Init
<1>2. \A p \in Peers : forwardedTo[p] > 0 => p = cameFrom
  BY <1>1, RoutingAssumption
<1> QED BY <1>2 DEF Init, ReachedInv, BroadcastCovers, CountedWereReached

LEMMA ReachedNext == TypeInv /\ ReachedInv /\ [Next]_vars => ReachedInv'
<1> SUFFICES ASSUME TypeInv, ReachedInv, [Next]_vars PROVE ReachedInv'
  OBVIOUS
<1> USE DEF ReachedInv, BroadcastCovers, CountedWereReached
<1>0. /\ forwardedTo \in [Peers \cup {LocalNode} -> Nat] /\ sentTo \in [Peers -> Nat]
      /\ \A S \in SUBSET toForward : IsFiniteSet(S)
  BY FS_Subset DEF TypeInv, TypeOK, Finite
<1>1. ASSUME UNCHANGED <<forwardedTo, successfulBroadcast, forwarderAt, toForward, historyVars>>
      PROVE  ReachedInv'
  BY <1>1 DEF historyVars, URIs
<1>2. CASE StartEpidemic \/ StartBroadcastRouter \/ Broadcast \/ Decide
  <2>1. UNCHANGED <<forwardedTo, historyVars>>
    BY <1>2 DEF StartEpidemic, StartBroadcastRouter, Broadcast, Decide, infoVars
  <2>2. ~successfulBroadcast'
    BY <1>2 DEF StartEpidemic, StartBroadcastRouter, Broadcast, Decide
  <2> QED BY <2>1, <2>2 DEF historyVars
<1>3. CASE EpidemicBroadcast
  <2>1. UNCHANGED <<toForward, forwarderAt, sentTo, cameFrom>> /\ forwarderAt = "clas"
    BY <1>3 DEF EpidemicBroadcast
  <2>2. successfulBroadcast' => URIs(toForward) \subseteq covered'
    BY <1>3 DEF EpidemicBroadcast
  <2>3. covered \subseteq covered'
    BY <1>3 DEF EpidemicBroadcast
  <2>4. ASSUME NEW p \in Peers, forwardedTo'[p] > 0
        PROVE  sentTo'[p] > 0 \/ p \in covered' \cup {cameFrom'}
    <3>1. CASE forwardedTo'[p] = forwardedTo[p]
      BY <2>1, <2>3, <2>4, <3>1
    <3>2. CASE forwardedTo'[p] # forwardedTo[p]
      <4>1. successfulBroadcast' /\ forwardedTo' = WithEntries(forwardedTo, toForward)
        BY <1>3, <3>2 DEF EpidemicBroadcast
      <4>2. p \in URIs(toForward)
        BY <4>1, <3>2, <1>0, EntriesOfOthers
      <4> QED BY <4>1, <4>2, <2>2
    <3> QED BY <3>1, <3>2
  <2> QED BY <2>1, <2>2, <2>4 DEF URIs
<1>4. CASE EpidemicSend
  <2>1. PICK S \in SUBSET toForward :
          /\ forwardedTo' = WithEntries(IF successfulBroadcast
                                        THEN WithEntries(forwardedTo, toForward)
                                        ELSE forwardedTo, S)
          /\ sentTo' = WithEntries(sentTo, S)
    BY <1>4 DEF EpidemicSend, RecordSends
  <2>2. UNCHANGED <<toForward, forwarderAt, successfulBroadcast, cameFrom, covered>>
    BY <1>4 DEF EpidemicSend
  <2>3. ASSUME NEW p \in Peers, forwardedTo'[p] > 0
        PROVE  sentTo'[p] > 0 \/ p \in covered' \cup {cameFrom'}
    <3>1. sentTo'[p] >= sentTo[p] /\ sentTo'[p] \in Nat /\ sentTo[p] \in Nat
      BY <2>1, <1>0, EntriesTyped
    <3>2. CASE p \in URIs(S)
      BY <2>1, <3>2, <1>0, EntriesOfMembers
    <3>3. CASE p \notin URIs(S) /\ successfulBroadcast /\ p \in URIs(toForward)
      BY <2>2, <3>3
    <3>4. CASE p \notin URIs(S) /\ successfulBroadcast /\ p \notin URIs(toForward)
      <4>1. WithEntries(forwardedTo, toForward) \in [Peers \cup {LocalNode} -> Nat]
        BY <1>0, EntriesTyped
      <4>2. forwardedTo'[p] = WithEntries(forwardedTo, toForward)[p]
        BY <4>1, <2>1, <3>4, EntriesOfOthers
      <4>3. WithEntries(forwardedTo, toForward)[p] = forwardedTo[p]
        BY <1>0, <3>4, EntriesOfOthers
      <4> QED BY <4>2, <4>3, <2>2, <2>3, <3>1
    <3>5. CASE p \notin URIs(S) /\ ~successfulBroadcast
      <4>1. forwardedTo'[p] = forwardedTo[p]
        BY <1>0, <2>1, <3>5, EntriesOfOthers
      <4> QED BY <4>1, <2>2, <2>3, <3>1
    <3> QED BY <3>2, <3>3, <3>4, <3>5
  <2> QED BY <2>2, <2>3 DEF URIs
<1>5. ASSUME NEW n \in toForward, SendToPeer(n) PROVE ReachedInv'
  <2>1. UNCHANGED <<forwarderAt, successfulBroadcast, cameFrom, covered>>
        /\ forwarderAt = "peers" /\ ~successfulBroadcast
    BY <1>5 DEF SendToPeer
  <2>2. CASE UNCHANGED <<forwardedTo, sentTo>>
    BY <2>1, <2>2
  <2>3. CASE forwardedTo' = WithEntries(forwardedTo, {n}) /\ sentTo' = WithEntries(sentTo, {n})
    <3>1. ASSUME NEW p \in Peers, forwardedTo'[p] > 0
          PROVE  sentTo'[p] > 0 \/ p \in covered' \cup {cameFrom'}
      <4>1. CASE p \in URIs({n})
        BY <4>1, <2>3, <1>0, EntriesOfMembers
      <4>2. CASE p \notin URIs({n})
        BY <4>2, <3>1, <2>1, <2>3, <1>0, EntriesOfOthers
      <4> QED BY <4>1, <4>2
    <3> QED BY <2>1, <3>1
  <2> QED BY <1>5, <2>2, <2>3 DEF SendToPeer, RecordSends
<1>6. CASE UNCHANGED vars
  BY <1>6, <1>1 DEF vars, infoVars, forwarderVars
<1>7. CASE \/ Tick \/ Retrier
           \/ \E p \in Mobile : LoRaHears(p) \/ BleHears(p) \/ ReceiverHears(p)
           \/ \E t \in Hearers : AddHeard(t)
           \/ \E p \in Static : AddStaticPeer(p)
  <2>1. UNCHANGED <<infoVars, forwarderVars, historyVars>>
    BY <1>7 DEF Tick, Retrier, StartClearing, CheckPeer, LoRaHears, BleHears, ReceiverHears,
                Hear, AddHeard, AddStaticPeer
  <2> QED BY <2>1, <1>1 DEF infoVars, forwarderVars
<1> QED BY <1>2, <1>3, <1>4, <1>5, <1>6, <1>7 DEF Next, Forwarder

(* Whoever is counted in forwardedTo was reached, for both routers and any *)
(* CLAs, however often they fail.                                          *)
THEOREM CountedOnlyIfReached == Spec => []CountedWereReached
<1>1. ReachedInv => CountedWereReached
  BY DEF ReachedInv
<1> QED BY <1>1, InitTyped, NextTyped, ReachedInit, ReachedNext, PTL DEF Spec

-----------------------------------------------------------------------------
(* How the table is filed.  A node's identifier, if it is not "empty",     *)
(* names the node.  So the table has a node once if it is filed by URI,    *)
(* and three times at most if it is filed by identifier.                   *)

Named(n) == n.identifier \in {<<"empty">>, <<"short", n.URI>>, <<"uri", n.URI>>}

Filed ==
  /\ \A k \in DOMAIN nodes : k = Key(nodes[k]) /\ Named(nodes[k])
  /\ \A t \in Hearers : Named(heard[t])

LEMMA FiledInit == Init => Filed
  BY DEF Init, PeerInit, Filed, Named, NoNode

(* Who is looked up by its URI has that URI. *)
LEMMA LookedUpByName ==
  ASSUME Filed, NEW p, getNode(p) # NoNode
  PROVE  getNode(p).URI = p /\ Named(getNode(p))
<1> DEFINE k == <<"uri", p>>
           n == nodes[k]
<1>1. getNode(p) = n /\ k \in DOMAIN nodes
  BY DEF getNode
<1>2. k = Key(n) /\ Named(n)
  BY <1>1 DEF Filed
<1>3. CASE keyByURI
  <2>1. <<"uri", p>> = <<"uri", n.URI>>
    BY <1>2, <1>3 DEF Key
  <2> QED BY <1>1, <1>2, <2>1
<1>4. CASE ~keyByURI
  <2>1. <<"uri", p>> = n.identifier
    BY <1>2, <1>4 DEF Key
  <2>2. <<"uri", p>> \in {<<"empty">>, <<"short", n.URI>>, <<"uri", n.URI>>}
    BY <1>2, <2>1 DEF Named
  <2>3. <<"uri", p>> = <<"uri", n.URI>>
    BY <2>2
  <2> QED BY <1>1, <1>2, <2>3
<1> QED BY <1>3, <1>4

LEMMA SeenKeepsName ==
  ASSUME NEW n, Named(n)
  PROVE  Named(setLastSeen(n))
<1>1. CASE n.lastSeen = Forever
  BY <1>1 DEF setLastSeen
<1>2. CASE n.lastSeen # Forever
  <2>1. setLastSeen(n) = [n EXCEPT !.lastSeen = now]
    BY <1>2 DEF setLastSeen
  <2>2. setLastSeen(n).identifier = n.identifier /\ setLastSeen(n).URI = n.URI
    BY <2>1
  <2> QED BY <2>2 DEF Named
<1> QED BY <1>1, <1>2

LEMMA FiledKept ==
  ASSUME TypeInv, Filed, [Next]_vars
  PROVE  Filed'
<1>1. ASSUME NEW n, Named(n), addNode(n), UNCHANGED keyByURI
      PROVE  \A k \in DOMAIN nodes' : (k = Key(nodes[k]))' /\ Named(nodes'[k])
  BY <1>1 DEF addNode, Filed, Key
<1>2. ASSUME NEW p, removeNode(p), UNCHANGED <<keyByURI, heard>> PROVE Filed'
  BY <1>2 DEF removeNode, Filed, Key
<1>3. CASE UNCHANGED <<keyByURI, nodes, heard>>
  BY <1>3 DEF Filed, Key
<1>4. CASE Tick \/ StartClearing \/ Forwarder \/ UNCHANGED vars
  BY <1>3, <1>4 DEF Tick, StartClearing, Forwarder, StartEpidemic, EpidemicBroadcast,
     EpidemicSend, StartBroadcastRouter, SendToPeer, Broadcast, Decide, vars, peerVars
<1>5. ASSUME NEW p \in Mobile, LoRaHears(p) \/ BleHears(p) \/ ReceiverHears(p)
      PROVE  Filed'
  <2> DEFINE n == getNode(p)
  <2>1. PICK task \in Hearers, m \in {n, [n EXCEPT !.identifier = <<"short", p>>],
                                      [n EXCEPT !.identifier = <<"uri", p>>]} :
          Hear(task, p, m)
    BY <1>5 DEF LoRaHears, BleHears, ReceiverHears, Hearers
  <2>2. n \in Node \cup {NoNode}
    BY KnownTyped DEF TypeInv, TypeOK
  <2>3. n = [URI |-> n.URI, identifier |-> n.identifier, lastSeen |-> n.lastSeen]
    BY <2>2 DEF Node, NoNode
  <2>4. n.identifier \in {<<"empty">>, <<"short", p>>, <<"uri", p>>}
    <3>1. CASE n = NoNode
      BY <3>1 DEF NoNode
    <3>2. CASE n # NoNode
      BY <3>2, LookedUpByName DEF Named
    <3> QED BY <3>1, <3>2
  <2> HIDE DEF n
  <2>5. PICK i \in {<<"empty">>, <<"short", p>>, <<"uri", p>>} :
          m = [URI |-> n.URI, identifier |-> i, lastSeen |-> n.lastSeen]
    BY <2>1, <2>3, <2>4
  <2>6. [m EXCEPT !.URI = p] = [URI |-> p, identifier |-> i, lastSeen |-> n.lastSeen]
    BY <2>5
  <2>7. Named([m EXCEPT !.URI = p])
    BY <2>6 DEF Named
  <2>8. Named(setLastSeen([m EXCEPT !.URI = p]))
    BY <2>7, SeenKeepsName
  <2>9. \A t \in Hearers : Named(heard'[t])
    BY <2>1, <2>8 DEF Hear, Filed, TypeInv, TypeOK
  <2> QED BY <2>1, <2>9 DEF Hear, peerVars, Filed, Key
<1>6. ASSUME NEW t \in Hearers, AddHeard(t) PROVE Filed'
  <2>1. \A k \in DOMAIN nodes' : (k = Key(nodes[k]))' /\ Named(nodes'[k])
    BY <1>1, <1>6 DEF AddHeard, Filed
  <2>2. \A u \in Hearers : Named(heard'[u])
    BY <1>6 DEF AddHeard, Filed, TypeInv, TypeOK, Named, NoNode
  <2> QED BY <2>1, <2>2 DEF Filed
<1>7. ASSUME NEW p \in Static, AddStaticPeer(p) PROVE Filed'
  <2> DEFINE n == [URI |-> p, identifier |-> <<"empty">>, lastSeen |-> Forever]
  <2>1. Named(n)
    BY DEF Named
  <2>2. addNode(n) /\ UNCHANGED <<keyByURI, heard>>
    BY <1>7 DEF AddStaticPeer
  <2> HIDE DEF n
  <2>3. \A k \in DOMAIN nodes' : (k = Key(nodes[k]))' /\ Named(nodes'[k])
    BY <1>1, <2>1, <2>2
  <2> QED BY <2>2, <2>3 DEF Filed
<1>8. ASSUME NEW n \in toCheck, CheckPeer(n) PROVE Filed'
  BY <1>2, <1>3, <1>8 DEF CheckPeer
<1> QED BY <1>4, <1>5, <1>6, <1>7, <1>8 DEF Next, Retrier

LEMMA FiledIsDistinct ==
  ASSUME Filed, keyByURI
  PROVE  Distinct(getNodes) /\ \A S \in SUBSET getNodes : Distinct(S)
  BY DEF Filed, Key, Distinct, getNodes

(* However it is filed, there are few objects of one node. *)
Few(S) == \A x : /\ IsFiniteSet({n \in S : n.URI = x})
                 /\ Cardinality({n \in S : n.URI = x}) <= ObjectsPerNode

LEMMA FewInSubset ==
  ASSUME NEW S, Few(S), NEW T \in SUBSET S
  PROVE  Few(T)
<1> SUFFICES ASSUME NEW x
             PROVE  /\ IsFiniteSet({n \in T : n.URI = x})
                    /\ Cardinality({n \in T : n.URI = x}) <= ObjectsPerNode
  BY DEF Few
<1> DEFINE A == {n \in T : n.URI = x}
           B == {n \in S : n.URI = x}
<1>1. A \subseteq B /\ IsFiniteSet(B) /\ Cardinality(B) <= ObjectsPerNode
  BY DEF Few
<1> HIDE DEF A, B
<1>2. IsFiniteSet(A) /\ Cardinality(A) <= Cardinality(B)
  BY <1>1, FS_Subset
<1>3. Cardinality(A) \in Nat /\ Cardinality(B) \in Nat /\ ObjectsPerNode \in Nat
  BY <1>1, <1>2, FS_CardinalityType DEF ObjectsPerNode
<1>4. IsFiniteSet(A) /\ Cardinality(A) <= ObjectsPerNode
  BY <1>1, <1>2, <1>3
<1> QED BY <1>4 DEF A

LEMMA UpToThree ==
  ASSUME NEW a, NEW b, NEW c
  PROVE  IsFiniteSet({a, b, c}) /\ Cardinality({a, b, c}) <= 3
<1>1. IsFiniteSet({a}) /\ Cardinality({a}) = 1
  BY FS_Singleton
<1>2. IsFiniteSet({a} \cup {b}) /\ Cardinality({a} \cup {b}) <= 2
  BY <1>1, FS_AddElement
<1>3. /\ IsFiniteSet(({a} \cup {b}) \cup {c})
      /\ Cardinality(({a} \cup {b}) \cup {c}) <= 3
  <2>1. Cardinality({a} \cup {b}) \in Nat
    BY <1>2, FS_CardinalityType
  <2> QED BY <1>2, <2>1, FS_AddElement
<1>4. {a, b, c} = ({a} \cup {b}) \cup {c}
  OBVIOUS
<1> QED BY <1>3, <1>4

LEMMA FiledIsFew ==
  ASSUME Filed
  PROVE  Few(getNodes)
<1> SUFFICES ASSUME NEW x
             PROVE  /\ IsFiniteSet({n \in getNodes : n.URI = x})
                    /\ Cardinality({n \in getNodes : n.URI = x}) <= ObjectsPerNode
  BY DEF Few
<1> DEFINE A == {n \in getNodes : n.URI = x}
           B == IF keyByURI THEN {nodes[<<"uri", x>>]}
                ELSE {nodes[<<"empty">>], nodes[<<"short", x>>], nodes[<<"uri", x>>]}
<1>1. ASSUME NEW n \in A PROVE n \in B
  <2>1. PICK k \in DOMAIN nodes : n = nodes[k] /\ n.URI = x
    BY DEF getNodes
  <2>2. k = Key(n) /\ Named(n)
    BY <2>1 DEF Filed
  <2>3. CASE keyByURI
    BY <2>1, <2>2, <2>3 DEF Key
  <2>4. CASE ~keyByURI
    <3>1. k \in {<<"empty">>, <<"short", x>>, <<"uri", x>>}
      BY <2>1, <2>2, <2>4 DEF Key, Named
    <3> QED BY <2>1, <2>4, <3>1
  <2> QED BY <2>3, <2>4
<1>2. IsFiniteSet(B) /\ Cardinality(B) <= ObjectsPerNode
  <2>1. CASE keyByURI
    <3>1. B = {nodes[<<"uri", x>>]} /\ ObjectsPerNode = 1
      BY <2>1 DEF ObjectsPerNode
    <3>2. IsFiniteSet({nodes[<<"uri", x>>]}) /\ Cardinality({nodes[<<"uri", x>>]}) = 1
      BY FS_Singleton
    <3> QED BY <3>1, <3>2
  <2>2. CASE ~keyByURI
    <3>1. B = {nodes[<<"empty">>], nodes[<<"short", x>>], nodes[<<"uri", x>>]}
          /\ ObjectsPerNode = 3
      BY <2>2 DEF ObjectsPerNode
    <3>2. /\ IsFiniteSet({nodes[<<"empty">>], nodes[<<"short", x>>], nodes[<<"uri", x>>]})
          /\ Cardinality({nodes[<<"empty">>], nodes[<<"short", x>>], nodes[<<"uri", x>>]}) <= 3
      BY UpToThree, Zenon
    <3> QED BY <3>1, <3>2
  <2> QED BY <2>1, <2>2
<1> HIDE DEF A, B
<1>3. IsFiniteSet(A) /\ Cardinality(A) <= Cardinality(B)
  BY <1>1, <1>2, FS_Subset
<1>4. Cardinality(A) \in Nat /\ Cardinality(B) \in Nat /\ ObjectsPerNode \in Nat
  BY <1>2, <1>3, FS_CardinalityType DEF ObjectsPerNode
<1>5. IsFiniteSet(A) /\ Cardinality(A) <= ObjectsPerNode
  BY <1>2, <1>3, <1>4
<1> QED BY <1>5 DEF A

-----------------------------------------------------------------------------
(* SentOnlyOnce, for the builds that look before they send.                *)

Before(p) == sentTo[p] + (IF p = cameFrom THEN 1 ELSE 0)

(* Every sending has its entry in forwardedTo, and until the CLA that can  *)
(* address nodes was tried, the nodes of this round have not been sent the *)
(* bundle.                                                                 *)
Once ==
  /\ config.router = "epidemic" => keyByURI /\ OneAddressing(config.clas) /\ Distinct(toForward)
  /\ forwarderAt = "clas" => config.router = "epidemic"
  /\ \A p \in Peers : Before(p) <= forwardedTo[p] /\ Before(p) <= 1
  /\ forwarderAt = "clas" /\ (\A i \in DOMAIN config.clas : canAddress(config.clas[i]) => i >= nextCla)
       => \A n \in toForward : Before(n.URI) = 0

OnceInv == Filed /\ (LooksBeforeSending => Once)

LEMMA OnceInit == Init => OnceInv
<1> SUFFICES ASSUME Init, LooksBeforeSending PROVE Once
  BY FiledInit DEF OnceInv
<1>1. PICK delivered \in SUBSET {LocalNode} :
        forwardedTo = [x \in Peers \cup {LocalNode} |->
                         IF x = cameFrom \/ x \in delivered THEN 1 ELSE 0]
  BY DEF Init
<1>2. \A p \in Peers : sentTo[p] = 0
  BY DEF Init
<1>3. \A p \in Peers : Before(p) <= forwardedTo[p] /\ Before(p) <= 1
  <2> TAKE p \in Peers
  <2>1. forwardedTo[p] = IF p = cameFrom THEN 1 ELSE 0
    BY <1>1, RoutingAssumption
  <2> QED BY <1>2, <2>1 DEF Before
<1>4. config.router = "epidemic" => keyByURI /\ OneAddressing(config.clas)
  BY DEF LooksBeforeSending
<1> QED BY <1>3, <1>4 DEF Init, Once, Distinct

LEMMA OnceNext ==
  ASSUME TypeInv, OnceInv, [Next]_vars
  PROVE  OnceInv'
<1>h. UNCHANGED <<config, keyByURI>>
  BY DEF Next, Tick, Retrier, StartClearing, CheckPeer, Forwarder, StartEpidemic,
     EpidemicBroadcast, EpidemicSend, StartBroadcastRouter, SendToPeer, Broadcast, Decide,
     LoRaHears, BleHears, ReceiverHears, Hear, AddHeard, AddStaticPeer, vars, peerVars
<1>a. Filed'
  BY FiledKept DEF OnceInv
<1> SUFFICES ASSUME LooksBeforeSending PROVE Once'
  BY <1>a, <1>h DEF OnceInv, LooksBeforeSending
<1> USE DEF infoVars
<1>0. /\ forwardedTo \in [Peers \cup {LocalNode} -> Nat] /\ sentTo \in [Peers -> Nat]
      /\ toForward \subseteq Node /\ \A S \in SUBSET toForward : IsFiniteSet(S)
      /\ config \in Configs /\ nextCla \in Nat
  BY FS_Subset DEF TypeInv, TypeOK, Finite
<1>o. Once
  BY DEF OnceInv
<1>e. /\ config.router = "epidemic" => keyByURI /\ OneAddressing(config.clas)
      /\ (config.router = "epidemic" => keyByURI /\ OneAddressing(config.clas))'
  BY <1>0, <1>o, <1>h DEF Once
<1>b. config.router = "epidemic" => \A S \in SUBSET toForward : Distinct(S)
  BY <1>0, <1>o DEF Once, Distinct
<1>c. /\ \A p \in Peers : Before(p) \in Nat /\ Before(p) <= forwardedTo[p] /\ Before(p) <= 1
      /\ \A n \in toForward : n.URI \in Peers
  BY <1>0, <1>o DEF Once, Before, Node
<1>1. ASSUME UNCHANGED <<forwardedTo, forwarderVars, config, historyVars>>
      PROVE  Once'
  BY <1>1, <1>0, <1>o, <1>h DEF Once, forwarderVars, historyVars, Before, Distinct
<1>2. ASSUME UNCHANGED <<sentTo, cameFrom>>, \A p \in Peers : forwardedTo'[p] >= forwardedTo[p],
             forwardedTo' \in [Peers \cup {LocalNode} -> Nat]
      PROVE  \A p \in Peers : /\ Before(p)' = Before(p)
                              /\ Before(p)' <= forwardedTo'[p] /\ Before(p)' <= 1
  BY <1>0, <1>2, <1>c DEF Before
<1>3. CASE StartEpidemic
  <2>1. UNCHANGED <<forwardedTo, sentTo, cameFrom>> /\ config.router = "epidemic"
    BY <1>3 DEF StartEpidemic, infoVars, historyVars
  <2>2. toForward' \subseteq getNodes /\ \A n \in toForward' : forwardedTo[n.URI] = 0
    BY <1>3 DEF StartEpidemic, NotForwardedTo
  <2>3. Distinct(toForward')
    BY <2>1, <2>2, <1>e, FiledIsDistinct DEF OnceInv
  <2>4. \A n \in toForward' : n.URI \in Peers
    BY <2>2 DEF TypeInv, TypeOK, PeerTypeOK, getNodes, Node
  <2>5. \A n \in toForward' : Before(n.URI)' = 0
    BY <2>1, <2>2, <2>4, <1>c DEF Before
  <2>6. \A p \in Peers : Before(p)' <= forwardedTo'[p] /\ Before(p)' <= 1
    BY <2>1, <1>2, <1>0
  <2> QED BY <1>e, <1>h, <2>1, <2>3, <2>5, <2>6 DEF Once, Distinct
<1>4. CASE EpidemicBroadcast
  <2>1. UNCHANGED <<sentTo, cameFrom, toForward, forwarderAt, config>> /\ nextCla' = nextCla + 1
        /\ nextCla \in DOMAIN config.clas /\ ~canAddress(config.clas[nextCla])
        /\ forwardedTo' \in {forwardedTo, WithEntries(forwardedTo, toForward)}
    BY <1>4, <1>0, RoutingAssumption DEF EpidemicBroadcast, TypeInv, TypeOK
  <2>2. /\ \A p \in Peers : forwardedTo'[p] >= forwardedTo[p]
        /\ forwardedTo' \in [Peers \cup {LocalNode} -> Nat]
    BY <2>1, <1>0, EntriesTyped
  <2>3. \A p \in Peers : /\ Before(p)' = Before(p)
                         /\ Before(p)' <= forwardedTo'[p] /\ Before(p)' <= 1
    BY <2>1, <2>2, <1>2
  <2>4. ASSUME forwarderAt' = "clas",
               \A i \in DOMAIN config'.clas : canAddress(config'.clas[i]) => i >= nextCla',
               NEW n \in toForward'
        PROVE  Before(n.URI)' = 0
    <3>1. \A i \in DOMAIN config.clas : canAddress(config.clas[i]) => i >= nextCla + 1
      BY <2>1, <2>4
    <3>2. \A i \in DOMAIN config.clas : i \in Nat
      BY <1>0, RoutingAssumption
    <3>3. \A i \in DOMAIN config.clas : canAddress(config.clas[i]) => i >= nextCla
      BY <3>1, <3>2, <1>0
    <3>4. Before(n.URI) = 0
      BY <2>1, <2>4, <3>3, <1>0, <1>o DEF Once
    <3> QED BY <3>4, <2>1, <2>3, <1>c
  <2> QED BY <1>0, <1>o, <1>e, <1>h, <2>1, <2>3, <2>4 DEF Once, Distinct
<1>5. CASE EpidemicSend
  <2>1. PICK S \in SUBSET toForward :
          /\ forwardedTo' = WithEntries(IF successfulBroadcast
                                        THEN WithEntries(forwardedTo, toForward)
                                        ELSE forwardedTo, S)
          /\ sentTo' = WithEntries(sentTo, S)
    BY <1>5 DEF EpidemicSend, RecordSends
  <2>2. UNCHANGED <<toForward, forwarderAt, cameFrom, config>> /\ nextCla' = nextCla + 1
        /\ nextCla \in DOMAIN config.clas /\ canAddress(config.clas[nextCla])
        /\ forwarderAt = "clas"
    BY <1>5, <1>0, RoutingAssumption DEF EpidemicSend, TypeInv, TypeOK
  <2>e. config.router = "epidemic"
    BY <2>2, <1>0, <1>o DEF Once
  <2>3. \A i \in DOMAIN config.clas : canAddress(config.clas[i]) => i >= nextCla
    <3>1. OneAddressing(config.clas)
      BY <2>e, <1>e
    <3> QED BY <2>2, <3>1, <1>0 DEF OneAddressing
  <2>4. \A n \in toForward : Before(n.URI) = 0
    BY <2>2, <2>3, <1>0, <1>o DEF Once
  <2>5. PICK g \in [Peers \cup {LocalNode} -> Nat] :
          /\ forwardedTo' = WithEntries(g, S)
          /\ \A p \in Peers : g[p] >= forwardedTo[p]
    BY <2>1, <1>0, EntriesTyped
  <2>6. ASSUME NEW p \in Peers
        PROVE  Before(p)' <= forwardedTo'[p] /\ Before(p)' <= 1
    <3>1. CASE p \in URIs(S)
      <4>1. sentTo'[p] = sentTo[p] + 1 /\ forwardedTo'[p] = g[p] + 1
        BY <2>1, <2>5, <2>e, <3>1, <1>0, <1>b, EntriesOfDistinct
      <4>2. Before(p) = 0
        BY <2>4, <3>1 DEF URIs
      <4>3. sentTo[p] = 0 /\ p # cameFrom
        BY <4>2, <1>0 DEF Before
      <4>4. Before(p)' = 1
        BY <4>1, <4>3, <2>2 DEF Before
      <4> QED BY <4>1, <4>4, <2>5
    <3>2. CASE p \notin URIs(S)
      <4>1. sentTo'[p] = sentTo[p] /\ forwardedTo'[p] = g[p]
        BY <2>1, <2>5, <3>2, <1>0, EntriesOfOthers
      <4>2. Before(p)' = Before(p)
        BY <4>1, <2>2 DEF Before
      <4> QED BY <4>1, <4>2, <2>5, <1>c, <1>0
    <3> QED BY <3>1, <3>2
  <2>7. ~(\A i \in DOMAIN config'.clas : canAddress(config'.clas[i]) => i >= nextCla')
    BY <2>2, <1>0
  <2> QED BY <1>e, <1>h, <1>0, <1>o, <2>2, <2>6, <2>7 DEF Once, Distinct
<1>6. CASE StartBroadcastRouter
  <2>1. UNCHANGED <<forwardedTo, sentTo, cameFrom>> /\ toForward' = getNodes
        /\ forwarderAt' = "peers" /\ config.router = "broadcast"
    BY <1>6 DEF StartBroadcastRouter, infoVars, historyVars
  <2>3. \A p \in Peers : Before(p)' <= forwardedTo'[p] /\ Before(p)' <= 1
    BY <2>1, <1>2, <1>0
  <2> QED BY <1>e, <1>h, <2>1, <2>3 DEF Once
<1>7. ASSUME NEW n \in toForward, SendToPeer(n) PROVE Once'
  <2>1. UNCHANGED <<forwarderAt, cameFrom>> /\ forwarderAt = "peers" /\ toForward' = toForward \ {n}
    BY <1>7 DEF SendToPeer
  <2>2. config.router = "epidemic" => Distinct(toForward')
    BY <2>1, <1>b
  <2>3. \A p \in Peers : Before(p)' <= forwardedTo'[p] /\ Before(p)' <= 1
    <3>1. CASE UNCHANGED <<forwardedTo, sentTo>>
      BY <3>1, <2>1, <1>2, <1>0
    <3>2. CASE /\ forwardedTo[n.URI] = 0
               /\ forwardedTo' = WithEntries(forwardedTo, {n})
               /\ sentTo' = WithEntries(sentTo, {n})
      <4>1. ASSUME NEW p \in Peers
            PROVE  Before(p)' <= forwardedTo'[p] /\ Before(p)' <= 1
        <5>1. CASE p = n.URI
          <6>1. sentTo'[p] = sentTo[p] + 1 /\ forwardedTo'[p] = forwardedTo[p] + 1
            BY <3>2, <5>1, <1>0, EntriesOfDistinct DEF URIs, Distinct
          <6>2. Before(p) = 0
            BY <3>2, <5>1, <1>c
          <6>3. sentTo[p] = 0 /\ p # cameFrom
            BY <6>2, <1>0 DEF Before
          <6>4. Before(p)' = 1
            BY <6>1, <6>3, <2>1 DEF Before
          <6> QED BY <6>1, <6>4, <1>0
        <5>2. CASE p # n.URI
          <6>1. sentTo'[p] = sentTo[p] /\ forwardedTo'[p] = forwardedTo[p]
            BY <3>2, <5>2, <1>0, EntriesOfOthers DEF URIs
          <6>2. Before(p)' = Before(p)
            BY <6>1, <2>1 DEF Before
          <6> QED BY <6>1, <6>2, <1>c, <1>0
        <5> QED BY <5>1, <5>2
      <4> QED BY <4>1
    <3> QED BY <1>7, <3>1, <3>2 DEF SendToPeer, RecordSends, NotForwardedTo
  <2> QED BY <1>e, <1>h, <2>1, <2>2, <2>3 DEF Once, Distinct
<1>8. CASE Broadcast \/ Decide
  <2>1. UNCHANGED <<forwardedTo, sentTo, cameFrom>> /\ toForward' \subseteq toForward
        /\ forwarderAt' # "clas"
    BY <1>8 DEF Broadcast, Decide, historyVars
  <2>2. config.router = "epidemic" => Distinct(toForward')
    BY <2>1, <1>b
  <2>3. \A p \in Peers : Before(p)' <= forwardedTo'[p] /\ Before(p)' <= 1
    BY <2>1, <1>2, <1>0
  <2> QED BY <1>e, <1>h, <2>1, <2>2, <2>3 DEF Once, Distinct
<1>9. CASE \/ Tick \/ Retrier \/ UNCHANGED vars
           \/ \E p \in Mobile : LoRaHears(p) \/ BleHears(p) \/ ReceiverHears(p)
           \/ \E t \in Hearers : AddHeard(t)
           \/ \E p \in Static : AddStaticPeer(p)
  <2>1. UNCHANGED <<infoVars, config, forwarderVars, historyVars>>
    BY <1>9 DEF Tick, Retrier, StartClearing, CheckPeer, LoRaHears, BleHears, ReceiverHears,
                Hear, AddHeard, AddStaticPeer, vars
  <2> QED BY <2>1, <1>1 DEF infoVars
<1> QED BY <1>3, <1>4, <1>5, <1>6, <1>7, <1>8, <1>9 DEF Next, Forwarder

(* In a build that looks before it sends, no peer is sent a bundle twice,  *)
(* nor the one it brought.                                                 *)
THEOREM NobodyIsSentTwice == Spec => []SentOnlyOnce
<1>1. OnceInv => SentOnlyOnce
  BY DEF OnceInv, Once, Before, SentOnlyOnce
<1>2. TypeInv /\ OnceInv /\ [Next]_vars => OnceInv'
  BY OnceNext
<1> QED BY <1>1, <1>2, OnceInit, InitTyped, NextTyped, PTL DEF Spec

-----------------------------------------------------------------------------
(* DoneMeansEnough.  What handleForwarding counts are entries.  A node is  *)
(* given entries in one round only, the first in which it is reached:      *)
(* after that it is not among those the next round works on.               *)

Reached == {x \in DOMAIN forwardedTo : forwardedTo[x] > 0}

Chances(k) == Cardinality(EntryChances(k))

LEMMA ChancesGrow ==
  ASSUME config.clas \in Seq(CLAs), NEW k \in 1 .. Len(config.clas)
  PROVE  /\ Chances(k - 1) \in Nat /\ Chances(k) \in Nat
         /\ Chances(k) >= Chances(k - 1) + 1
         /\ canAddress(config.clas[k]) /\ (\E j \in 1 .. k - 1 : ~canAddress(config.clas[j]))
              => Chances(k) >= Chances(k - 1) + 2
<1> DEFINE A == EntryChances(k - 1)
           B == EntryChances(k)
<1>1. k \in Nat /\ k - 1 \in Nat
  OBVIOUS
<1>2. \A m \in Nat : IsFiniteSet(EntryChances(m))
  <2> TAKE m \in Nat
  <2>1. IsFiniteSet(1 .. m) /\ IsFiniteSet({"send", "broadcast"})
    <3>1. IsFiniteSet({"send"} \cup {"broadcast"})
      BY FS_Singleton, FS_AddElement
    <3>2. {"send"} \cup {"broadcast"} = {"send", "broadcast"}
      OBVIOUS
    <3> QED BY <3>1, <3>2, FS_Interval
  <2>2. IsFiniteSet((1 .. m) \X {"send", "broadcast"})
    BY <2>1, FS_Product
  <2> QED BY <2>2, FS_Subset DEF EntryChances
<1>3. IsFiniteSet(A) /\ IsFiniteSet(B) /\ Cardinality(A) \in Nat /\ Cardinality(B) \in Nat
  BY <1>1, <1>2, FS_CardinalityType
<1>4. A \subseteq B /\ <<k, "send">> \notin A /\ <<k, "broadcast">> \notin A
  BY <1>1 DEF EntryChances
<1>5. canAddress(config.clas[k]) => <<k, "send">> \in B
  BY <1>1 DEF EntryChances
<1>6. (\E j \in 1 .. k : ~canAddress(config.clas[j])) => <<k, "broadcast">> \in B
  BY <1>1 DEF EntryChances
<1> HIDE DEF A, B
<1>7. ASSUME NEW c, c \in B, c \notin A PROVE Cardinality(B) >= Cardinality(A) + 1
  <2>1. IsFiniteSet(A \cup {c}) /\ Cardinality(A \cup {c}) = Cardinality(A) + 1
    BY <1>3, <1>7, FS_AddElement
  <2>2. Cardinality(A \cup {c}) <= Cardinality(B)
    BY <1>3, <1>4, <1>7, FS_Subset
  <2> QED BY <2>1, <2>2, <1>3
<1>8. Cardinality(B) >= Cardinality(A) + 1
  <2>1. CASE canAddress(config.clas[k])
    BY <2>1, <1>4, <1>5, <1>7
  <2>2. CASE ~canAddress(config.clas[k])
    BY <2>2, <1>1, <1>4, <1>6, <1>7
  <2> QED BY <2>1, <2>2
<1>9. ASSUME canAddress(config.clas[k]), \E j \in 1 .. k - 1 : ~canAddress(config.clas[j])
      PROVE  Cardinality(B) >= Cardinality(A) + 2
  <2>1. <<k, "send">> \in B /\ <<k, "broadcast">> \in B
    BY <1>1, <1>5, <1>6, <1>9
  <2> DEFINE C == A \cup {<<k, "send">>}
  <2>2. IsFiniteSet(C) /\ Cardinality(C) = Cardinality(A) + 1 /\ <<k, "broadcast">> \notin C
    BY <1>3, <1>4, FS_AddElement
  <2>3. C \subseteq B
    BY <2>1, <1>4
  <2> HIDE DEF C
  <2>4. Cardinality(C \cup {<<k, "broadcast">>}) = Cardinality(C) + 1
    BY <2>2, FS_AddElement
  <2>5. Cardinality(C \cup {<<k, "broadcast">>}) <= Cardinality(B)
    BY <2>1, <2>3, <1>3, FS_Subset
  <2> QED BY <2>2, <2>4, <2>5, <1>3
<1> QED BY <1>3, <1>8, <1>9 DEF A, B, Chances

(* No node has more entries than there are chances for it.                 *)
LEMMA ChancesBound ==
  ASSUME config.clas \in Seq(CLAs) \ {<<>>}
  PROVE  /\ EntriesPerNode \in Nat \ {0}
         /\ config.router # "broadcast" =>
              \A k \in 1 .. Len(config.clas) : ObjectsPerNode * Chances(k) <= EntriesPerNode
<1> DEFINE n == Len(config.clas)
<1>1. config.clas \in Seq(CLAs) /\ n \in Nat /\ n >= 1
  <2>1. n \in Nat /\ n # 0
    BY EmptySeq
  <2> QED BY <2>1
<1>2. \A k \in 1 .. n : Chances(k) \in Nat /\ Chances(k) >= 1
  <2> TAKE k \in 1 .. n
  <2>1. Chances(k - 1) \in Nat /\ Chances(k) \in Nat /\ Chances(k) >= Chances(k - 1) + 1
    BY <1>1, ChancesGrow
  <2> QED BY <2>1
<1>3. \A k \in 1 .. n : Chances(k) <= Chances(n)
  <2> TAKE k \in 1 .. n
  <2>1. EntryChances(k) \subseteq EntryChances(n)
    BY <1>1 DEF EntryChances
  <2>2. IsFiniteSet(EntryChances(n))
    <3>1. IsFiniteSet({"send"} \cup {"broadcast"})
      BY FS_Singleton, FS_AddElement
    <3>2. {"send"} \cup {"broadcast"} = {"send", "broadcast"}
      OBVIOUS
    <3>3. IsFiniteSet((1 .. n) \X {"send", "broadcast"})
      <4>1. IsFiniteSet(1 .. n)
        <5>1. n \in Int /\ 1 \in Int
          BY <1>1
        <5> HIDE DEF n
        <5> QED BY <5>1, FS_Interval
      <4> QED BY <3>1, <3>2, <4>1, FS_Product
    <3> QED BY <3>3, FS_Subset DEF EntryChances
  <2> QED BY <2>1, <2>2, FS_Subset DEF Chances
<1>4. ObjectsPerNode = 1 \/ ObjectsPerNode = 3
  BY DEF ObjectsPerNode
<1>5. EntriesPerNode = IF config.router = "broadcast" THEN 1 ELSE ObjectsPerNode * Chances(n)
  BY DEF EntriesPerNode, Chances
<1>6. n \in 1 .. n
  BY <1>1
<1> HIDE DEF n
<1>7. Chances(n) \in Nat /\ Chances(n) >= 1
  BY <1>2, <1>6
<1>8. EntriesPerNode \in Nat \ {0}
  BY <1>4, <1>5, <1>7
<1>9. config.router # "broadcast" =>
        \A k \in 1 .. n : ObjectsPerNode * Chances(k) <= EntriesPerNode
  <2> SUFFICES ASSUME config.router # "broadcast", NEW k \in 1 .. n
               PROVE  ObjectsPerNode * Chances(k) <= EntriesPerNode
    OBVIOUS
  <2>1. Chances(k) \in Nat /\ Chances(k) <= Chances(n)
    BY <1>2, <1>3
  <2> QED BY <1>4, <1>5, <1>7, <2>1
<1> QED BY <1>8, <1>9 DEF n

LEMMA EntriesOfFew ==
  ASSUME NEW D, NEW f \in [D -> Nat], NEW S, Few(S)
  PROVE  \A x \in D : WithEntries(f, S)[x] <= f[x] + ObjectsPerNode
<1> TAKE x \in D
<1> DEFINE c == Cardinality({n \in S : n.URI = x})
<1>1. c \in Nat /\ c <= ObjectsPerNode
  BY FS_CardinalityType DEF Few
<1>2. WithEntries(f, S)[x] = f[x] + c
  BY DEF WithEntries
<1>3. ObjectsPerNode \in Nat /\ f[x] \in Nat
  BY DEF ObjectsPerNode
<1> HIDE DEF c
<1> QED BY <1>1, <1>2, <1>3

LEMMA EntriesOfFinite ==
  ASSUME NEW D, NEW f \in [D -> Nat], IsFiniteSet({x \in D : f[x] > 0}),
         NEW S, IsFiniteSet(S)
  PROVE  IsFiniteSet({x \in D : WithEntries(f, S)[x] > 0})
<1>1. {x \in D : WithEntries(f, S)[x] > 0} \subseteq {x \in D : f[x] > 0} \cup URIs(S)
  BY EntriesOfOthers
<1>2. IsFiniteSet(URIs(S))
  <2> DEFINE g == [n \in S |-> n.URI]
  <2>1. g \in Surjection(S, URIs(S))
    BY DEF URIs, Surjection
  <2> QED BY <2>1, FS_Surjection
<1>3. IsFiniteSet({x \in D : f[x] > 0} \cup URIs(S))
  BY <1>2, FS_Union
<1> QED BY <1>1, <1>3, FS_Subset

(* The list is no longer than the nodes in it times what each can have.    *)
LEMMA EntriesAreFew ==
  ASSUME NEW D, forwardedTo \in [D -> Nat], NEW e \in Nat, \A x \in D : forwardedTo[x] <= e,
         IsFiniteSet(Reached)
  PROVE  /\ NumEntries \in Nat /\ Cardinality(Reached) * e \in Nat
         /\ NumEntries <= Cardinality(Reached) * e
<1> DEFINE U == UNION {{x} \X (1 .. forwardedTo[x]) : x \in D}
           P == Reached \X (1 .. e)
<1>1. ASSUME NEW u \in U PROVE u \in P
  <2>1. PICK x \in D : u \in {x} \X (1 .. forwardedTo[x])
    OBVIOUS
  <2>2. forwardedTo[x] \in Nat /\ forwardedTo[x] <= e
    OBVIOUS
  <2>3. PICK i \in 1 .. forwardedTo[x] : u = <<x, i>>
    BY <2>1
  <2>4. i \in 1 .. e /\ forwardedTo[x] > 0
    BY <2>2, <2>3
  <2> QED BY <2>3, <2>4 DEF Reached
<1>2. /\ IsFiniteSet(P) /\ Cardinality(P) = Cardinality(Reached) * e
      /\ Cardinality(P) \in Nat
  <2>1. IsFiniteSet(1 .. e) /\ Cardinality(1 .. e) = e
    BY FS_Interval
  <2>2. IsFiniteSet(P) /\ Cardinality(P) = Cardinality(Reached) * Cardinality(1 .. e)
    BY <2>1, FS_Product
  <2> QED BY <2>1, <2>2, FS_CardinalityType
<1>3. NumEntries = Cardinality(U)
  BY DEF NumEntries
<1> HIDE DEF U, P
<1>4. IsFiniteSet(U) /\ Cardinality(U) <= Cardinality(P)
  BY <1>1, <1>2, FS_Subset
<1> QED BY <1>2, <1>3, <1>4, FS_CardinalityType

CountInv ==
  /\ Filed /\ Few(toForward)
  /\ IsFiniteSet(Reached)
  /\ \A x \in DOMAIN forwardedTo : forwardedTo[x] <= EntriesPerNode
  /\ successfulBroadcast => forwarderAt = "clas"
  /\ forwarderAt = "peers" => config.router = "broadcast"
  /\ forwarderAt = "clas" =>
       /\ config.router = "epidemic"
       /\ successfulBroadcast => \E j \in 1 .. nextCla - 1 : ~canAddress(config.clas[j])
       /\ \A n \in toForward : forwardedTo[n.URI] <= ObjectsPerNode * Chances(nextCla - 1)
  /\ done => forwarderAt = "idle"
  /\ DoneMeansEnough

LEMMA NoChances == Chances(0) = 0
<1>1. EntryChances(0) = {}
  BY DEF EntryChances
<1> QED BY <1>1, FS_EmptySet DEF Chances

LEMMA FewOfNone == Few({})
<1>1. \A x : {n \in {} : n.URI = x} = {}
  OBVIOUS
<1>2. 0 <= ObjectsPerNode
  BY DEF ObjectsPerNode
<1> QED BY <1>1, <1>2, FS_EmptySet DEF Few

LEMMA CountInit == Init => CountInv
<1> SUFFICES ASSUME Init PROVE CountInv
  OBVIOUS
<1>1. PICK delivered \in SUBSET {LocalNode} :
        forwardedTo = [x \in Peers \cup {LocalNode} |->
                         IF x = cameFrom \/ x \in delivered THEN 1 ELSE 0]
  BY DEF Init
<1>2. EntriesPerNode \in Nat \ {0}
  BY ChancesBound, RoutingAssumption DEF Init
<1>3. \A x \in DOMAIN forwardedTo : forwardedTo[x] <= EntriesPerNode
  BY <1>1, <1>2
<1>4. Reached \subseteq {cameFrom} \cup {LocalNode}
  <2>1. ASSUME NEW x \in Reached PROVE x = cameFrom \/ x \in delivered
    BY <1>1 DEF Reached
  <2> QED BY <2>1
<1>5. IsFiniteSet({cameFrom} \cup {LocalNode})
  BY FS_Singleton, FS_AddElement
<1>6. IsFiniteSet(Reached)
  BY <1>4, <1>5, FS_Subset
<1> QED BY <1>3, <1>6, FiledInit, FewOfNone DEF Init, CountInv, DoneMeansEnough

LEMMA CountNext ==
  ASSUME TypeInv, CountInv, [Next]_vars
  PROVE  CountInv'
<1> DEFINE D == Peers \cup {LocalNode}
<1>0. /\ forwardedTo \in [D -> Nat] /\ forwardedTo' \in [D -> Nat]
      /\ IsFiniteSet(toForward) /\ config.clas \in Seq(CLAs) \ {<<>>}
      /\ nextCla \in 1 .. Len(config.clas) + 1 /\ Len(config.clas) \in Nat
      /\ \A n \in toForward : n.URI \in D
  <2>1. TypeInv'
    BY NextTyped
  <2>2. config.clas \in Seq(CLAs) \ {<<>>}
    BY RoutingAssumption DEF TypeInv, TypeOK
  <2>3. Len(config.clas) \in Nat
    BY <2>2
  <2>4. \A n \in toForward : n.URI \in D
    BY DEF TypeInv, TypeOK, Node
  <2> QED BY <2>1, <2>2, <2>3, <2>4 DEF TypeInv, TypeOK, Finite
<1>a. Filed'
  BY FiledKept DEF CountInv
<1>h. UNCHANGED <<config, keyByURI>>
  BY DEF Next, Tick, Retrier, StartClearing, CheckPeer, Forwarder, StartEpidemic,
     EpidemicBroadcast, EpidemicSend, StartBroadcastRouter, SendToPeer, Broadcast, Decide,
     LoRaHears, BleHears, ReceiverHears, Hear, AddHeard, AddStaticPeer, vars, peerVars
<1>i. /\ UNCHANGED <<ObjectsPerNode, EntriesPerNode>>
      /\ \A k : Chances(k)' = Chances(k)
      /\ \A S : Few(S)' = Few(S)
  BY <1>h DEF ObjectsPerNode, EntriesPerNode, Chances, EntryChances, Few
<1>b. /\ \A S \in SUBSET toForward : Few(S) /\ IsFiniteSet(S)
      /\ \A S \in SUBSET getNodes : Few(S)
  BY <1>0, FS_Subset, FiledIsFew, FewInSubset DEF CountInv
<1>c. /\ EntriesPerNode \in Nat \ {0} /\ (ObjectsPerNode = 1 \/ ObjectsPerNode = 3)
      /\ \A x \in D : forwardedTo[x] <= EntriesPerNode
      /\ Reached = {x \in D : forwardedTo[x] > 0} /\ Reached' = {x \in D : forwardedTo'[x] > 0}
      /\ IsFiniteSet({x \in D : forwardedTo[x] > 0})
  BY <1>0, ChancesBound DEF CountInv, Reached, ObjectsPerNode
<1> HIDE DEF D
<1>e. ASSUME ~done, UNCHANGED done PROVE (done => forwarderAt = "idle")' /\ DoneMeansEnough'
  BY <1>e DEF DoneMeansEnough
<1>1. ASSUME UNCHANGED <<infoVars, forwarderVars>> PROVE CountInv'
  BY <1>1, <1>a, <1>h, <1>i, <1>0, <1>c
     DEF CountInv, infoVars, forwarderVars, DoneMeansEnough
<1>2. CASE StartEpidemic
  <2>1. /\ UNCHANGED <<infoVars, successfulBroadcast, nextCla>> /\ ~done
        /\ config.router = "epidemic" /\ ~successfulBroadcast
        /\ toForward' \subseteq getNodes /\ \A n \in toForward' : forwardedTo[n.URI] = 0
        /\ forwarderAt' \in {"decide", "clas"}
    BY <1>2 DEF StartEpidemic, NotForwardedTo, CountInv
  <2>2. Few(toForward')
    BY <2>1, <1>b
  <2>3. \A k \in 0 .. Len(config.clas) : Chances(k) \in Nat
    BY <1>0, NoChances, ChancesGrow
  <2>4. Chances(nextCla - 1) \in Nat /\ 0 <= ObjectsPerNode * Chances(nextCla - 1)
    <3>1. Chances(nextCla - 1) \in Nat
      BY <2>3, <1>0
    <3> QED BY <3>1, <1>c
  <2>5. Reached' = Reached /\ \A x \in DOMAIN forwardedTo' : forwardedTo'[x] <= EntriesPerNode'
    BY <2>1, <1>i, <1>c, <1>0 DEF infoVars
  <2>6. \A n \in toForward' : forwardedTo'[n.URI] <= (ObjectsPerNode * Chances(nextCla - 1))'
    BY <2>1, <2>4, <1>i DEF infoVars
  <2> QED BY <1>a, <1>e, <1>h, <1>i, <2>1, <2>2, <2>5, <2>6 DEF CountInv, infoVars
<1>3. CASE EpidemicBroadcast \/ EpidemicSend
  <2>1. /\ UNCHANGED <<done, forwarderAt, toForward>>
        /\ forwarderAt = "clas" /\ nextCla <= Len(config.clas) /\ nextCla' = nextCla + 1
    BY <1>3 DEF EpidemicBroadcast, EpidemicSend
  <2>2. /\ ~done /\ config.router = "epidemic"
        /\ successfulBroadcast => \E j \in 1 .. nextCla - 1 : ~canAddress(config.clas[j])
        /\ \A n \in toForward : forwardedTo[n.URI] <= ObjectsPerNode * Chances(nextCla - 1)
    BY <2>1 DEF CountInv
  <2> DEFINE a == Chances(nextCla - 1)
             b == Chances(nextCla)
             o == ObjectsPerNode
  <2>3. /\ a \in Nat /\ b \in Nat /\ b >= a + 1
        /\ canAddress(config.clas[nextCla]) /\ successfulBroadcast => b >= a + 2
    <3>1. nextCla \in 1 .. Len(config.clas) /\ config.clas \in Seq(CLAs)
      BY <1>0, <2>1
    <3>2. /\ a \in Nat /\ b \in Nat /\ b >= a + 1
          /\ canAddress(config.clas[nextCla])
             /\ (\E j \in 1 .. nextCla - 1 : ~canAddress(config.clas[j])) => b >= a + 2
      BY <3>1, ChancesGrow
    <3> HIDE DEF a, b
    <3> QED BY <2>2, <3>2
  <2>4. o * b <= EntriesPerNode
    BY <1>0, <2>1, <2>2, ChancesBound
  <2>5. nextCla' - 1 = nextCla
    BY <2>1, <1>0
  <2>6. /\ IsFiniteSet({x \in D : forwardedTo'[x] > 0})
        /\ \A n \in toForward : forwardedTo'[n.URI] <= o * b
        /\ \A x \in D : x \notin URIs(toForward) => forwardedTo'[x] = forwardedTo[x]
        /\ successfulBroadcast' => \E j \in 1 .. nextCla : ~canAddress(config.clas[j])
    <3> DEFINE w == WithEntries(forwardedTo, toForward)
    <3>0. o * a \in Nat /\ o * b \in Nat /\ o * b >= o * a + o
          /\ (b >= a + 2 => o * b >= o * a + o + o)
      <4>1. o = 1 \/ o = 3
        BY <1>c
      <4> HIDE DEF a, b, o
      <4> QED BY <4>1, <2>3
    <3>1. /\ w \in [D -> Nat] /\ \A x \in D : w[x] <= forwardedTo[x] + o
          /\ IsFiniteSet({x \in D : w[x] > 0})
          /\ \A x \in D : x \notin URIs(toForward) => w[x] = forwardedTo[x]
      <4>1. w \in [D -> Nat]
        BY <1>0, EntriesTyped
      <4>2. \A x \in D : w[x] <= forwardedTo[x] + o
        BY <1>0, <1>b, EntriesOfFew
      <4>3. IsFiniteSet({x \in D : w[x] > 0})
        BY <1>0, <1>c, EntriesOfFinite
      <4>4. \A x \in D : x \notin URIs(toForward) => w[x] = forwardedTo[x]
        BY <1>0, EntriesOfOthers
      <4> QED BY <4>1, <4>2, <4>3, <4>4
    <3> HIDE DEF w
    <3>2. CASE EpidemicBroadcast
      <4>1. /\ ~canAddress(config.clas[nextCla]) /\ nextCla \in 1 .. nextCla
            /\ forwardedTo' \in {forwardedTo, w}
        BY <3>2, <1>0 DEF EpidemicBroadcast, w
      <4>2. \A n \in toForward : forwardedTo'[n.URI] <= o * b
        <5> TAKE n \in toForward
        <5>1. /\ forwardedTo[n.URI] \in Nat /\ w[n.URI] \in Nat
              /\ w[n.URI] <= forwardedTo[n.URI] + o /\ forwardedTo[n.URI] <= o * a
          BY <1>0, <2>2, <3>1
        <5>2. o \in Nat
          BY <1>c
        <5> HIDE DEF a, b, o
        <5> QED BY <5>1, <5>2, <4>1, <3>0
      <4>3. IsFiniteSet({x \in D : forwardedTo'[x] > 0})
        BY <4>1, <3>1, <1>c
      <4> QED BY <4>1, <4>2, <4>3, <3>1
    <3>3. CASE EpidemicSend
      <4> DEFINE g == IF successfulBroadcast THEN w ELSE forwardedTo
      <4>1. PICK S \in SUBSET toForward : forwardedTo' = WithEntries(g, S)
        BY <3>3 DEF EpidemicSend, w
      <4>2. canAddress(config.clas[nextCla]) /\ successfulBroadcast' = successfulBroadcast
        BY <3>3 DEF EpidemicSend
      <4>3. /\ g \in [D -> Nat] /\ IsFiniteSet({x \in D : g[x] > 0})
            /\ \A x \in D : x \notin URIs(toForward) => g[x] = forwardedTo[x]
        BY <3>1, <1>0, <1>c
      <4>4. URIs(S) \subseteq URIs(toForward) /\ Few(S) /\ IsFiniteSet(S)
        BY <1>b DEF URIs
      <4>5. \A n \in toForward : g[n.URI] \in Nat /\ g[n.URI] + o <= o * b
        <5> TAKE n \in toForward
        <5>1. /\ forwardedTo[n.URI] \in Nat /\ w[n.URI] \in Nat
              /\ w[n.URI] <= forwardedTo[n.URI] + o /\ forwardedTo[n.URI] <= o * a
          BY <1>0, <2>2, <3>1
        <5>2. o \in Nat
          BY <1>c
        <5>3. successfulBroadcast => b >= a + 2
          BY <2>3, <4>2
        <5> HIDE DEF a, b, o
        <5> QED BY <5>1, <5>2, <5>3, <3>0
      <4> HIDE DEF g
      <4>6. \A x \in D : forwardedTo'[x] <= g[x] + o
        BY <4>1, <4>3, <4>4, EntriesOfFew
      <4>7. \A n \in toForward : forwardedTo'[n.URI] <= o * b
        <5> TAKE n \in toForward
        <5>1. /\ forwardedTo'[n.URI] \in Nat /\ forwardedTo'[n.URI] <= g[n.URI] + o
              /\ g[n.URI] \in Nat /\ g[n.URI] + o <= o * b
          BY <4>5, <4>6, <1>0
        <5>2. o \in Nat
          BY <1>c
        <5> HIDE DEF a, b, o
        <5> QED BY <5>1, <5>2, <3>0
      <4>8. IsFiniteSet({x \in D : forwardedTo'[x] > 0})
        BY <4>1, <4>3, <4>4, EntriesOfFinite
      <4>9. \A x \in D : x \notin URIs(toForward) => forwardedTo'[x] = forwardedTo[x]
        BY <4>1, <4>3, <4>4, EntriesOfOthers
      <4>10. successfulBroadcast' => \E j \in 1 .. nextCla : ~canAddress(config.clas[j])
        BY <4>2, <2>2, <1>0
      <4> QED BY <4>7, <4>8, <4>9, <4>10
    <3> QED BY <1>3, <3>2, <3>3
  <2>7. \A x \in D : forwardedTo'[x] <= EntriesPerNode
    <3> TAKE x \in D
    <3>1. CASE x \in URIs(toForward)
      <4>1. forwardedTo'[x] <= o * b /\ forwardedTo'[x] \in Nat /\ o * b \in Nat
        <5>1. o * b \in Nat
          <6>1. o \in Nat
            BY <1>c
          <6> HIDE DEF a, b, o
          <6> QED BY <6>1, <2>3
        <5> QED BY <2>6, <3>1, <1>0, <5>1 DEF URIs
      <4> HIDE DEF o, b
      <4> QED BY <4>1, <2>4, <1>c
    <3>2. CASE x \notin URIs(toForward)
      BY <2>6, <3>2, <1>c
    <3> QED BY <3>1, <3>2
  <2>8. /\ IsFiniteSet(Reached') /\ Few(toForward)'
        /\ \A x \in DOMAIN forwardedTo' : forwardedTo'[x] <= EntriesPerNode'
        /\ \A n \in toForward' : forwardedTo'[n.URI] <= (ObjectsPerNode * Chances(nextCla - 1))'
        /\ successfulBroadcast' => \E j \in 1 .. nextCla' - 1 : ~canAddress(config'.clas[j])
    BY <1>0, <1>c, <1>h, <1>i, <2>1, <2>5, <2>6, <2>7 DEF CountInv
  <2> QED BY <1>a, <1>e, <1>h, <2>1, <2>2, <2>8 DEF CountInv
<1>4. CASE StartBroadcastRouter
  <2>1. /\ UNCHANGED <<infoVars, successfulBroadcast>> /\ ~done
        /\ ~successfulBroadcast /\ config.router = "broadcast"
        /\ toForward' = getNodes /\ forwarderAt' = "peers"
    BY <1>4 DEF StartBroadcastRouter, CountInv
  <2>2. Few(toForward')
    BY <2>1, <1>b
  <2>3. Reached' = Reached /\ \A x \in DOMAIN forwardedTo' : forwardedTo'[x] <= EntriesPerNode'
    BY <2>1, <1>i, <1>c, <1>0 DEF infoVars
  <2> QED BY <1>a, <1>e, <1>h, <1>i, <2>1, <2>2, <2>3 DEF CountInv, infoVars
<1>5. ASSUME NEW n \in toForward, SendToPeer(n) PROVE CountInv'
  <2>1. /\ UNCHANGED <<done, forwarderAt, successfulBroadcast>>
        /\ forwarderAt = "peers" /\ toForward' = toForward \ {n}
        /\ ~done /\ ~successfulBroadcast /\ config.router = "broadcast"
    BY <1>5 DEF SendToPeer, CountInv
  <2>2. IsFiniteSet(Reached') /\ \A x \in D : forwardedTo'[x] <= EntriesPerNode
    <3>1. CASE UNCHANGED forwardedTo
      BY <3>1, <1>c
    <3>2. CASE forwardedTo[n.URI] = 0 /\ forwardedTo' = WithEntries(forwardedTo, {n})
      <4>1. IsFiniteSet(Reached')
        <5> DEFINE S == {n}
        <5>1. IsFiniteSet(S) /\ forwardedTo' = WithEntries(forwardedTo, S)
          BY <3>2, FS_Singleton
        <5> HIDE DEF S
        <5>2. IsFiniteSet({x \in D : WithEntries(forwardedTo, S)[x] > 0})
          <6>1. forwardedTo \in [D -> Nat] /\ IsFiniteSet({x \in D : forwardedTo[x] > 0})
                /\ IsFiniteSet(S)
            BY <5>1, <1>0, <1>c
          <6> QED BY <6>1, EntriesOfFinite
        <5> QED BY <5>1, <5>2, <1>c
      <4>2. ASSUME NEW x \in D PROVE forwardedTo'[x] <= EntriesPerNode
        <5>1. CASE x = n.URI
          <6>1. forwardedTo'[x] = forwardedTo[x] + 1
            BY <3>2, <5>1, <1>0, EntriesOfDistinct DEF URIs, Distinct
          <6> QED BY <6>1, <3>2, <5>1, <1>c
        <5>2. CASE x # n.URI
          <6>1. forwardedTo'[x] = forwardedTo[x]
            BY <3>2, <5>2, <1>0, EntriesOfOthers DEF URIs
          <6> QED BY <6>1, <1>c
        <5> QED BY <5>1, <5>2
      <4> QED BY <4>1, <4>2
    <3> QED BY <1>5, <3>1, <3>2 DEF SendToPeer, NotForwardedTo
  <2>3. Few(toForward')
    BY <2>1, <1>b
  <2>4. \A x \in DOMAIN forwardedTo' : forwardedTo'[x] <= EntriesPerNode'
    BY <2>2, <1>0, <1>i
  <2> QED BY <1>a, <1>e, <1>h, <1>i, <2>1, <2>2, <2>3, <2>4 DEF CountInv
<1>6. CASE Broadcast
  <2>1. /\ UNCHANGED <<forwardedTo, done, toForward, successfulBroadcast>>
        /\ forwarderAt = "peers" /\ forwarderAt' = "decide" /\ ~done /\ ~successfulBroadcast
    BY <1>6 DEF Broadcast, CountInv
  <2>2. Reached' = Reached /\ \A x \in DOMAIN forwardedTo' : forwardedTo'[x] <= EntriesPerNode'
    BY <2>1, <1>i, <1>c, <1>0
  <2> QED BY <1>a, <1>e, <1>i, <2>1, <2>2 DEF CountInv
<1>7. CASE Decide
  <2>1. /\ UNCHANGED <<forwardedTo, numOfBroadcasts>> /\ done' = Enough
        /\ forwarderAt' = "idle" /\ toForward' = {} /\ ~successfulBroadcast'
    BY <1>7 DEF Decide
  <2>2. /\ NumEntries \in Nat /\ Cardinality(Reached) * EntriesPerNode \in Nat
        /\ NumEntries <= Cardinality(Reached) * EntriesPerNode
    BY <1>0, <1>c, EntriesAreFew
  <2>3. NumEntries >= MinForwards => Cardinality(Reached) * EntriesPerNode >= MinForwards
    <3> DEFINE r == Cardinality(Reached) * EntriesPerNode
    <3>1. r \in Nat /\ NumEntries <= r
      BY <2>2
    <3> HIDE DEF r
    <3>2. NumEntries >= MinForwards => r >= MinForwards
      BY <2>2, <3>1, RoutingAssumption
    <3> QED BY <3>2 DEF r
  <2>4. DoneMeansEnough'
    BY <2>1, <2>3, <1>h, <1>i DEF Enough, DoneMeansEnough, Reached
  <2>5. Reached' = Reached /\ \A x \in DOMAIN forwardedTo' : forwardedTo'[x] <= EntriesPerNode'
    BY <2>1, <1>i, <1>c, <1>0
  <2> QED BY <1>a, <1>i, <2>1, <2>4, <2>5, FewOfNone DEF CountInv
<1>8. CASE \/ Tick \/ Retrier \/ UNCHANGED vars
           \/ \E p \in Mobile : LoRaHears(p) \/ BleHears(p) \/ ReceiverHears(p)
           \/ \E t \in Hearers : AddHeard(t)
           \/ \E p \in Static : AddStaticPeer(p)
  <2>1. UNCHANGED <<infoVars, forwarderVars>>
    BY <1>8 DEF Tick, Retrier, StartClearing, CheckPeer, LoRaHears, BleHears, ReceiverHears,
                Hear, AddHeard, AddStaticPeer, vars
  <2> QED BY <2>1, <1>1
<1> QED BY <1>2, <1>3, <1>4, <1>5, <1>6, <1>7, <1>8 DEF Next, Forwarder

(* A bundle is done with only when it was broadcast often enough, or the   *)
(* nodes that have it are enough, each counted as often as the build may   *)
(* enter it: for both routers, any CLAs and both ways of filing nodes.     *)
THEOREM DoneOnlyWhenEnough == Spec => []DoneMeansEnough
<1>1. CountInv => DoneMeansEnough
  BY DEF CountInv
<1>2. TypeInv /\ CountInv /\ [Next]_vars => CountInv'
  BY CountNext
<1> QED BY <1>1, <1>2, CountInit, InitTyped, NextTyped, PTL DEF Spec

-----------------------------------------------------------------------------
LEMMA RemoveAtShortens ==
  ASSUME NEW S, NEW s \in Seq(S), NEW i \in DOMAIN s
  PROVE  /\ RemoveAt(s, i) \in Seq(S)
         /\ Len(RemoveAt(s, i)) = Len(s) - 1
<1> DEFINE a == SubSeq(s, 1, i - 1)
           z == SubSeq(s, i + 1, Len(s))
<1>1. /\ Len(s) \in Nat /\ i \in Nat /\ 1 <= i /\ i <= Len(s)
      /\ \A j \in 1 .. Len(s) : s[j] \in S
  OBVIOUS
<1>2. a \in Seq(S) /\ Len(a) = i - 1
  BY <1>1, SubSeqProperties
<1>3. z \in Seq(S) /\ Len(z) = Len(s) - i
  <2>1. z \in Seq(S) /\ Len(z) = IF i + 1 <= Len(s) THEN Len(s) - (i + 1) + 1 ELSE 0
    BY <1>1, SubSeqProperties
  <2> HIDE DEF z
  <2> QED BY <1>1, <2>1
<1>4. RemoveAt(s, i) = a \o z
  BY DEF RemoveAt
<1> HIDE DEF a, z
<1>5. a \o z \in Seq(S) /\ Len(a \o z) = Len(a) + Len(z)
  BY <1>2, <1>3, ConcatProperties
<1> QED BY <1>1, <1>2, <1>3, <1>4, <1>5

LEMMA BatchShortens ==
  ASSUME NEW S, NEW s \in Seq(S), NEW n \in 0 .. Len(s)
  PROVE  /\ SubSeq(s, n + 1, Len(s)) \in Seq(S)
         /\ Len(SubSeq(s, n + 1, Len(s))) = Len(s) - n
  BY SubSeqProperties

-----------------------------------------------------------------------------
(* The fields of the two records; moved and free may be anything.          *)
Shaped ==
  /\ forwarder = [at |-> forwarder.at, bundle |-> forwarder.bundle,
                  free |-> forwarder.free, removed |-> forwarder.removed]
  /\ call = [stock |-> call.stock, taken |-> call.taken, needless |-> call.needless,
             doubled |-> call.doubled, moved |-> call.moved]

(* The variables the counters depend on.                                   *)
CountsTyped ==
  /\ bundles \in Seq(Bundles) /\ bundlesToReturn \in Nat
  /\ forwarder.at \in {"idle", "test", "reread", "delete", "insert"}
  /\ forwarder.bundle \in SUBSET Bundles /\ forwarder.removed \in Nat
  /\ added \in Nat /\ gone \in Nat
  /\ call.stock \in Nat /\ call.taken \in Nat

(* While delayBundle runs, only it and those counted in taken shorten the  *)
(* list.                                                                   *)
StockInv ==
  /\ forwarder.at # "idle" => Len(bundles) >= call.stock - call.taken - forwarder.removed
  /\ forwarder.at \in {"reread", "delete"} => forwarder.removed < MaxRemoved

CounterInv == Shaped /\ CountsTyped /\ StockInv /\ CycleDebt /\ EmptyNeedsFew

(* What other tasks take is counted while delayBundle runs. *)
TakenCounted(n) ==
  /\ call'.stock \in Nat /\ call'.taken \in Nat
  /\ forwarder.at # "idle" => call'.stock = call.stock /\ call'.taken = call.taken + n

LEMMA TakenIsCounted ==
  ASSUME Shaped, CountsTyped, NEW n \in Nat, Taken(n)
  PROVE  /\ TakenCounted(n)
         /\ forwarder' = forwarder => Shaped'
  BY DEF Taken, TakenCounted, CountsTyped, Shaped

LEMMA CounterNext == CounterInv /\ [SerializedNext]_serializedVars => CounterInv'
<1> SUFFICES ASSUME CounterInv, [SerializedNext]_serializedVars PROVE CounterInv'
  OBVIOUS
<1> USE SerializedAssumption DEF CounterInv
<1>0. Len(bundles) \in Nat
  BY DEF CountsTyped
<1>1. ASSUME NEW b \in Bundles, delayBundle(b) PROVE CounterInv'
  <2>1. forwarder' = [at |-> "test", bundle |-> {b}, free |-> FreeHeap, removed |-> 0]
        /\ UNCHANGED <<bundles, bundlesToReturn, added, gone, fault>> /\ fault = "none"
    BY <1>1 DEF delayBundle, NoFault, cycle
  <2>2. call' = [stock |-> Len(bundles), taken |-> 0, needless |-> 0, doubled |-> 0, moved |-> FALSE]
    BY <1>1 DEF delayBundle, NoCall
  <2>3. Shaped'
    BY <2>1, <2>2 DEF Shaped
  <2>4. /\ forwarder'.at = "test" /\ forwarder'.bundle = {b} /\ forwarder'.removed = 0
        /\ call'.stock = Len(bundles) /\ call'.taken = 0
    BY <2>1, <2>2
  <2> QED BY <2>1, <2>3, <2>4 DEF CountsTyped, StockInv, CycleDebt, EmptyNeedsFew
<1>2. ASSUME NEW b \in Bundles, removeBundle(b) PROVE CounterInv'
  <2>1. PICK i \in DOMAIN bundles : bundles' = RemoveAt(bundles, i)
    BY <1>2 DEF removeBundle
  <2>2. bundles' \in Seq(Bundles) /\ Len(bundles') = Len(bundles) - 1
    BY <2>1, RemoveAtShortens DEF CountsTyped
  <2>3. UNCHANGED <<bundlesToReturn, forwarder, added, fault>> /\ fault = "none"
        /\ gone' = gone + 1
    BY <1>2 DEF removeBundle, NoFault
  <2>4. TakenCounted(1) /\ Shaped'
    BY <1>2, <2>3, TakenIsCounted DEF removeBundle
  <2>6. CountsTyped'
    BY <2>2, <2>3, <2>4, SMTT(20) DEF TakenCounted, CountsTyped
  <2>7. StockInv'
    <3> DEFINE n == Len(bundles)
               m == Len(bundles')
    <3>1. n \in Nat /\ m \in Nat /\ m = n - 1
      BY <1>0, <2>2
    <3>2. forwarder.at # "idle" => n >= call.stock - call.taken - forwarder.removed
      BY DEF StockInv
    <3> HIDE DEF n, m
    <3>3. call.stock \in Nat /\ call.taken \in Nat /\ forwarder.removed \in Nat
      BY DEF CountsTyped
    <3>4. forwarder.at # "idle" => m >= call.stock - (call.taken + 1) - forwarder.removed
      BY <3>1, <3>2, <3>3
    <3>5. forwarder.at # "idle" => call'.stock = call.stock /\ call'.taken = call.taken + 1
      BY <2>4 DEF TakenCounted
    <3> QED BY <2>3, <3>4, <3>5 DEF m, StockInv
  <2>8. CycleDebt'
    BY <1>0, <2>2, <2>3, <2>4, <2>6 DEF TakenCounted, CountsTyped, CycleDebt
  <2>9. EmptyNeedsFew'
    BY <2>2, <2>3, <2>4 DEF EmptyNeedsFew
  <2> QED BY <2>2, <2>3, <2>4, <2>6, <2>7, <2>8, <2>9
<1>3. CASE TestHeap
  <2>1. /\ UNCHANGED <<bundles, bundlesToReturn, added, gone, call, fault>>
        /\ fault = "none" /\ forwarder.at = "test"
    BY <1>3 DEF TestHeap, NoFault, cycle
  <2>2. /\ Shaped' /\ forwarder'.removed = forwarder.removed
        /\ forwarder'.bundle = forwarder.bundle
        /\ \/ forwarder'.at = "reread" /\ forwarder.removed < MaxRemoved
           \/ forwarder'.at = "insert"
    BY <1>3, <2>1 DEF TestHeap, Shaped
  <2> QED BY <2>1, <2>2 DEF CountsTyped, StockInv, CycleDebt, EmptyNeedsFew
<1>4. CASE ReadHeap
  <2>1. /\ UNCHANGED <<bundles, bundlesToReturn, added, gone, call, fault>>
        /\ fault = "none" /\ forwarder.at = "reread"
    BY <1>4 DEF ReadHeap, NoFault, cycle
  <2>2. /\ Shaped' /\ forwarder'.removed = forwarder.removed
        /\ forwarder'.bundle = forwarder.bundle /\ forwarder'.at = "delete"
    BY <1>4, <2>1 DEF ReadHeap, Shaped
  <2> QED BY <2>1, <2>2 DEF CountsTyped, StockInv, CycleDebt, EmptyNeedsFew
<1>5. CASE DeleteOldest
  <2>1. PICK i \in DOMAIN bundles : bundles' = RemoveAt(bundles, i)
    BY <1>5 DEF DeleteOldest
  <2>2. bundles' \in Seq(Bundles) /\ Len(bundles') = Len(bundles) - 1
    BY <2>1, RemoveAtShortens DEF CountsTyped
  <2>3. UNCHANGED <<bundlesToReturn, added, fault>> /\ fault = "none"
        /\ gone' = gone + 1 /\ forwarder.at = "delete"
    BY <1>5 DEF DeleteOldest, NoFault
  <2>4. /\ forwarder'.at = "test" /\ forwarder'.removed = forwarder.removed + 1
        /\ forwarder'.bundle = forwarder.bundle
        /\ call'.stock = call.stock /\ call'.taken = call.taken /\ Shaped'
    BY <1>5 DEF DeleteOldest, Shaped
  <2>6. CountsTyped'
    BY <2>2, <2>3, <2>4, SMTT(20) DEF CountsTyped
  <2>7. StockInv'
    <3> DEFINE n == Len(bundles)
               m == Len(bundles')
    <3>1. n \in Nat /\ m \in Nat /\ m = n - 1
      BY <1>0, <2>2
    <3>2. forwarder.at # "idle" => n >= call.stock - call.taken - forwarder.removed
      BY DEF StockInv
    <3> HIDE DEF n, m
    <3>3. n >= call.stock - call.taken - forwarder.removed
      BY <2>3, <3>2
    <3>4. call.stock \in Nat /\ call.taken \in Nat /\ forwarder.removed \in Nat
      BY DEF CountsTyped
    <3>5. m >= call.stock - call.taken - (forwarder.removed + 1)
      BY <3>1, <3>3, <3>4
    <3> QED BY <2>4, <3>5 DEF m, StockInv
  <2>8. CycleDebt'
    BY <1>0, <2>2, <2>3, <2>4, <2>6 DEF CountsTyped, CycleDebt
  <2>9. EmptyNeedsFew'
    BY <2>2, <2>3, <2>4 DEF EmptyNeedsFew
  <2> QED BY <2>2, <2>3, <2>4, <2>6, <2>7, <2>8, <2>9
<1>6. CASE DeleteFromEmpty
  <2>1. /\ UNCHANGED <<bundles, bundlesToReturn, forwarder, added, gone, call>>
        /\ fault' = "delete" /\ forwarder.at = "delete" /\ Len(bundles) = 0
    BY <1>6 DEF DeleteFromEmpty, cycle
  <2> QED BY <2>1, SMTT(20) DEF Shaped, CountsTyped, StockInv, CycleDebt, EmptyNeedsFew
<1>7. CASE Insert
  <2>1. PICK b \in forwarder.bundle : bundles' = Append(bundles, b)
    BY <1>7 DEF Insert
  <2>2. bundles' \in Seq(Bundles) /\ Len(bundles') = Len(bundles) + 1
    BY <2>1, AppendProperties DEF CountsTyped
  <2>3. UNCHANGED <<bundlesToReturn, gone, fault>> /\ fault = "none" /\ added' = added + 1
        /\ forwarder' = [at |-> "idle", bundle |-> {}, free |-> 0, removed |-> 0]
        /\ call' = [stock |-> 0, taken |-> 0, needless |-> 0, doubled |-> 0, moved |-> FALSE]
    BY <1>7 DEF Insert, NoFault, Idle, NoCall
  <2>4. /\ forwarder'.at = "idle" /\ forwarder'.removed = 0 /\ forwarder'.bundle = {}
        /\ call'.stock = 0 /\ call'.taken = 0 /\ Shaped'
    BY <2>3 DEF Shaped
  <2>6. CountsTyped'
    BY <2>2, <2>3, <2>4 DEF CountsTyped
  <2>7. StockInv'
    BY <1>0, <2>2, <2>3, <2>4, <2>6 DEF CountsTyped, StockInv
  <2>8. CycleDebt'
    <3> DEFINE n == Len(bundles)
               m == Len(bundles')
    <3>1. n \in Nat /\ m \in Nat /\ m = n + 1
      BY <1>0, <2>2
    <3>2. bundlesToReturn # 0 => n - bundlesToReturn = added - gone
      BY DEF CycleDebt
    <3> HIDE DEF n, m
    <3>3. bundlesToReturn' # 0 => m - bundlesToReturn' = added' - gone'
      BY <2>3, <3>1, <3>2 DEF CountsTyped
    <3> QED BY <2>3, <3>3 DEF m, CycleDebt
  <2>9. EmptyNeedsFew'
    BY <2>2, <2>3, <2>4 DEF EmptyNeedsFew
  <2> QED BY <2>2, <2>3, <2>4, <2>6, <2>7, <2>8, <2>9
<1>8. CASE beginRetryCycle
  <2>1. /\ UNCHANGED <<bundles, forwarder, call, fault>> /\ fault = "none"
        /\ bundlesToReturn' = Len(bundles) /\ added' = 0 /\ gone' = 0
    BY <1>8 DEF beginRetryCycle, NoFault
  <2> QED BY <2>1, SMTT(20) DEF Shaped, CountsTyped, StockInv, CycleDebt, EmptyNeedsFew
<1>9. CASE getBundlesRetry
  <2>0. BatchLength \in Nat /\ BatchLength <= bundlesToReturn
    BY DEF BatchLength, CountsTyped
  <2>1. BatchLength \in 0 .. Len(bundles)
    BY <1>9, <2>0 DEF getBundlesRetry, CountsTyped
  <2>2. bundles' \in Seq(Bundles) /\ Len(bundles') = Len(bundles) - BatchLength
    BY <1>9, <2>1, BatchShortens DEF getBundlesRetry, CountsTyped
  <2>3. UNCHANGED <<forwarder, added, gone, fault>> /\ fault = "none"
        /\ bundlesToReturn # 0 /\ bundlesToReturn' = bundlesToReturn - BatchLength
    BY <1>9 DEF getBundlesRetry, NoFault, cycle
  <2>4. TakenCounted(BatchLength) /\ Shaped'
    BY <1>9, <2>0, <2>3, TakenIsCounted DEF getBundlesRetry
  <2>6. CountsTyped'
    BY <2>0, <2>1, <2>2, <2>3, <2>4 DEF TakenCounted, CountsTyped
  <2>7. StockInv'
    BY <1>0, <2>0, <2>1, <2>2, <2>3, <2>4, <2>6, SMTT(20) DEF TakenCounted, CountsTyped, StockInv
  <2>8. CycleDebt'
    BY <1>0, <2>0, <2>1, <2>2, <2>3, <2>4, <2>6 DEF TakenCounted, CountsTyped, CycleDebt
  <2>9. EmptyNeedsFew'
    BY <2>0, <2>1, <2>2, <2>3, <2>4 DEF EmptyNeedsFew
  <2> QED BY <2>0, <2>1, <2>2, <2>3, <2>4, <2>6, <2>7, <2>8, <2>9
<1>10. CASE RetryFromEmpty
  <2>1. bundlesToReturn # 0 /\ bundlesToReturn > Len(bundles) /\ Len(bundles) \in Nat
    BY <1>10 DEF RetryFromEmpty, BatchLength, CountsTyped
  <2>2. UNCHANGED <<bundles, bundlesToReturn, forwarder, added, gone, call>>
        /\ fault' = "retry"
    BY <1>10 DEF RetryFromEmpty, cycle
  <2> QED BY <2>1, <2>2, SMTT(20) DEF Shaped, CountsTyped, StockInv, CycleDebt, EmptyNeedsFew
<1>11. CASE OthersUseHeap
  <2>1. /\ UNCHANGED <<bundles, bundlesToReturn, forwarder, added, gone, fault>>
        /\ fault = "none"
    BY <1>11 DEF OthersUseHeap, NoFault, cycle
  <2>2. call'.stock = call.stock /\ call'.taken = call.taken /\ Shaped'
    BY <1>11, <2>1 DEF OthersUseHeap, Shaped
  <2> QED BY <2>1, <2>2 DEF CountsTyped, StockInv, CycleDebt, EmptyNeedsFew
<1>12. CASE UNCHANGED serializedVars
  BY <1>12 DEF serializedVars, cycle, Shaped, CountsTyped, StockInv, CycleDebt, EmptyNeedsFew
<1> QED BY <1>1, <1>2, <1>3, <1>4, <1>5, <1>6, <1>7, <1>8, <1>9, <1>10, <1>11, <1>12 DEF SerializedNext

LEMMA CounterInit == SerializedInit => CounterInv
  BY SerializedAssumption DEF SerializedInit, CounterInv, Shaped, CountsTyped, StockInv, CycleDebt,
     EmptyNeedsFew, Idle, NoCall

(* A retry cycle is off by what was stored and deleted since it began, for *)
(* both variants, any batch size and any number of bundles.                *)
THEOREM RetryCountsAreOffByChanges == SerializedSpec => []CycleDebt
<1>1. CounterInv => CycleDebt
  BY DEF CounterInv
<1> QED BY <1>1, CounterInit, CounterNext, PTL DEF SerializedSpec

(* With MaxRemovedBundles bundles at hand that nobody takes, deleteOldest  *)
(* never reads the first element of an empty list.                         *)
THEOREM EnoughBundlesSuffice == SerializedSpec => []EmptyNeedsFew
<1>1. CounterInv => EmptyNeedsFew
  BY DEF CounterInv
<1> QED BY <1>1, CounterInit, CounterNext, PTL DEF SerializedSpec

-----------------------------------------------------------------------------
(* How many bundles are removed without need.  deleteOldest removes one    *)
(* although the heap that was read says that there is room only if that    *)
(* heap was read before the removal; the test that follows is made with    *)
(* the value that was read and ends the loop.  Where the heap that was     *)
(* read says that there is none, needless and doubled are counted alike.   *)

Undisturbed == ~call.moved /\ call.taken = 0

HeapInv ==
  /\ call.needless \in Nat /\ call.doubled \in Nat
  /\ forwarder.at = "idle" => call.needless = 0
  /\ Undisturbed =>
       /\ forwarder.at = "test" =>
            \/ call.needless = call.doubled
            \/ call.needless = call.doubled + 1 /\ ~Lean(forwarder.free, Estimated)
       /\ forwarder.at = "reread" => call.needless = call.doubled
       /\ forwarder.at = "delete" =>
            call.needless = call.doubled /\ forwarder.free = FreeHeap
       /\ forwarder.at = "insert" => call.needless <= call.doubled + 1

LEMMA SameEstimate ==
  ASSUME forwarder'.bundle = forwarder.bundle
  PROVE  Estimated' = Estimated
  BY DEF Estimated

LEMMA SameHeap ==
  ASSUME bundles' = bundles, other' = other, forwarder'.removed = forwarder.removed,
         forwarder'.bundle = forwarder.bundle
  PROVE  FreeHeap' = FreeHeap
  BY DEF FreeHeap, Used, Buffer

(* What another task takes is noticed, or delayBundle does not run.        *)
LEMMA TakenDisturbs ==
  ASSUME Shaped, CountsTyped, HeapInv, NEW n \in Nat \ {0}, Taken(n), forwarder' = forwarder
  PROVE  HeapInv'
<1>1. CASE forwarder.at = "idle"
  BY <1>1 DEF Taken, HeapInv
<1>2. CASE forwarder.at # "idle"
  <2>1. call' = [call EXCEPT !.taken = @ + n]
    BY <1>2 DEF Taken
  <2>2. /\ call'.taken = call.taken + n /\ call.taken \in Nat
        /\ call'.needless = call.needless /\ call'.doubled = call.doubled
    BY <2>1 DEF Shaped, CountsTyped
  <2>3. call'.taken # 0
    BY <2>2
  <2> QED BY <1>2, <2>2, <2>3 DEF HeapInv, Undisturbed
<1> QED BY <1>1, <1>2

LEMMA HeapInit == SerializedInit => HeapInv
  BY DEF SerializedInit, HeapInv, Idle, NoCall

LEMMA HeapNext == CounterInv /\ HeapInv /\ [SerializedNext]_serializedVars => HeapInv'
<1> SUFFICES ASSUME CounterInv, HeapInv, [SerializedNext]_serializedVars PROVE HeapInv'
  OBVIOUS
<1>0. /\ Shaped /\ CountsTyped
      /\ forwarder = [at |-> forwarder.at, bundle |-> forwarder.bundle,
                      free |-> forwarder.free, removed |-> forwarder.removed]
      /\ call = [stock |-> call.stock, taken |-> call.taken, needless |-> call.needless,
                 doubled |-> call.doubled, moved |-> call.moved]
  BY DEF CounterInv, Shaped
<1>1. ASSUME NEW b \in Bundles, delayBundle(b) PROVE HeapInv'
  <2>1. forwarder'.at = "test" /\ call'.needless = 0 /\ call'.doubled = 0
    BY <1>1 DEF delayBundle, NoCall
  <2> QED BY <2>1 DEF HeapInv
<1>2. ASSUME NEW b \in Bundles, removeBundle(b) PROVE HeapInv'
  <2>1. Taken(1) /\ forwarder' = forwarder
    BY <1>2 DEF removeBundle
  <2> QED BY <1>0, <2>1, TakenDisturbs
<1>3. CASE TestHeap
  <2>1. /\ forwarder.at = "test" /\ call' = call
        /\ forwarder' = [forwarder EXCEPT
             !.at = IF Lean(forwarder.free, Estimated) /\ forwarder.removed < MaxRemoved
                    THEN "reread" ELSE "insert"]
    BY <1>3 DEF TestHeap
  <2>2. \/ forwarder'.at = "reread" /\ Lean(forwarder.free, Estimated)
        \/ forwarder'.at = "insert"
    BY <1>0, <2>1
  <2> QED BY <2>1, <2>2 DEF HeapInv, Undisturbed
<1>4. CASE ReadHeap
  <2>1. /\ forwarder.at = "reread" /\ UNCHANGED <<call, bundles, other>>
        /\ forwarder' = [forwarder EXCEPT !.at = "delete", !.free = FreeHeap]
    BY <1>4 DEF ReadHeap
  <2>2. forwarder'.at = "delete" /\ forwarder'.free = FreeHeap
        /\ forwarder'.removed = forwarder.removed /\ forwarder'.bundle = forwarder.bundle
    BY <1>0, <2>1
  <2>3. FreeHeap' = FreeHeap
    BY <2>1, <2>2, SameHeap
  <2> QED BY <2>1, <2>2, <2>3 DEF HeapInv, Undisturbed
<1>5. CASE DeleteOldest
  <2> DEFINE there == Room(FreeHeap + Buffer)
             read == Room(FreeHeap)
  <2>1. /\ forwarder.at = "delete"
        /\ forwarder' = [forwarder EXCEPT !.at = "test", !.removed = @ + 1]
        /\ call' = [call EXCEPT
             !.needless = IF there THEN @ + 1 ELSE @,
             !.doubled = IF there /\ ~read THEN @ + 1 ELSE @]
    BY <1>5 DEF DeleteOldest
  <2>2. read => ~Lean(FreeHeap, Estimated)
    BY DEF Room
  <2> HIDE DEF there, read
  <2>3. /\ forwarder'.at = "test" /\ forwarder'.free = forwarder.free
        /\ forwarder'.bundle = forwarder.bundle
        /\ call'.moved = call.moved /\ call'.taken = call.taken
        /\ call'.needless = IF there THEN call.needless + 1 ELSE call.needless
        /\ call'.doubled = IF there /\ ~read THEN call.doubled + 1 ELSE call.doubled
    BY <1>0, <2>1
  <2>4. Estimated' = Estimated
    BY <2>3, SameEstimate
  <2>5. Undisturbed => call.needless = call.doubled /\ forwarder.free = FreeHeap
    BY <2>1 DEF HeapInv
  <2>6. Undisturbed => \/ call'.needless = call'.doubled
                       \/ call'.needless = call'.doubled + 1
                          /\ ~Lean(forwarder'.free, Estimated')
    <3>1. ASSUME Undisturbed, there, read
          PROVE  call'.needless = call'.doubled + 1 /\ ~Lean(forwarder'.free, Estimated')
      BY <2>2, <2>3, <2>4, <2>5, <3>1
    <3>2. ASSUME Undisturbed, ~(there /\ read) PROVE call'.needless = call'.doubled
      BY <2>3, <2>5, <3>2
    <3> QED BY <3>1, <3>2
  <2> QED BY <2>3, <2>6 DEF HeapInv, Undisturbed
<1>6. CASE DeleteFromEmpty \/ RetryFromEmpty \/ UNCHANGED serializedVars
  <2>1. UNCHANGED <<forwarder, call, bundles, other>>
    BY <1>6 DEF DeleteFromEmpty, RetryFromEmpty, serializedVars
  <2>2. Estimated' = Estimated /\ FreeHeap' = FreeHeap
    BY <2>1, SameEstimate, SameHeap
  <2> QED BY <2>1, <2>2 DEF HeapInv, Undisturbed
<1>7. CASE Insert
  <2>1. forwarder'.at = "idle" /\ call'.needless = 0 /\ call'.doubled = 0
    BY <1>7 DEF Insert, Idle, NoCall
  <2> QED BY <2>1 DEF HeapInv
<1>8. CASE beginRetryCycle
  <2>1. UNCHANGED <<forwarder, call, bundles, other>>
    BY <1>8 DEF beginRetryCycle
  <2>2. Estimated' = Estimated /\ FreeHeap' = FreeHeap
    BY <2>1, SameEstimate, SameHeap
  <2> QED BY <2>1, <2>2 DEF HeapInv, Undisturbed
<1>9. CASE getBundlesRetry
  <2>1. Taken(BatchLength) /\ forwarder' = forwarder /\ bundlesToReturn # 0
    BY <1>9 DEF getBundlesRetry
  <2>2. BatchLength \in Nat \ {0}
    BY <1>0, <2>1, SerializedAssumption DEF BatchLength, CountsTyped
  <2> QED BY <1>0, <2>1, <2>2, TakenDisturbs
<1>10. CASE OthersUseHeap
  <2>1. forwarder' = forwarder /\ call' = [call EXCEPT !.moved = (forwarder.at # "idle")]
    BY <1>10 DEF OthersUseHeap
  <2>2. /\ call'.needless = call.needless /\ call'.doubled = call.doubled
        /\ forwarder.at # "idle" => call'.moved
    BY <1>0, <2>1
  <2> QED BY <2>1, <2>2 DEF HeapInv, Undisturbed
<1> QED BY <1>1, <1>2, <1>3, <1>4, <1>5, <1>6, <1>7, <1>8, <1>9, <1>10 DEF SerializedNext

(* Unless another task uses or frees heap, or takes bundles, while it      *)
(* runs, delayBundle removes at most one bundle too many, and those for    *)
(* which there was no room for a second copy of the bundle to be stored.   *)
THEOREM OneBundleTooMany == SerializedSpec => []OneTooMany
<1>1. CounterInv /\ HeapInv => OneTooMany
  BY DEF CounterInv, CountsTyped, HeapInv, Undisturbed, OneTooMany
<1>2. CounterInv /\ HeapInv /\ [SerializedNext]_serializedVars => (CounterInv /\ HeapInv)'
  BY CounterNext, HeapNext
<1> QED BY <1>1, <1>2, CounterInit, HeapInit, PTL DEF SerializedSpec
=============================================================================
