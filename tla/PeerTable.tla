----------------------------- MODULE PeerTable -----------------------------
(***************************************************************************)
(* The nodes a storage knows: an unordered_map of Node objects, and the    *)
(* critical sections of addNode, removeNode, getNode and getNodes.         *)
(*                                                                         *)
(* FlashStorage and InMemoryStorageSerialized, the default, file a node    *)
(* under its URI.  InMemoryStorage, and InMemoryStorageSerializedIA, which *)
(* inherits from it, file it under its identifier, which is one of three   *)
(* things: the URI, the URI without its scheme, or "empty", the initial    *)
(* value.  Everyone looks a node up, and removes it, by its URI.           *)
(***************************************************************************)
EXTENDS Integers

CONSTANTS
  Peers,       \* the URIs of the other nodes
  MaxPeerAge,  \* CONFIG_MaxPeerAge
  MaxTime      \* bound: the clock stops here

ASSUME PeerAssumption ==
  /\ MaxPeerAge \in Nat
  /\ MaxTime \in Nat \ {0}

VARIABLES
  keyByURI,  \* whether the storage files nodes by URI; never changes
  nodes,     \* the map: a function from keys to nodes
  now        \* gettimeofday

peerVars == <<keyByURI, nodes, now>>

(* UINT64_MAX, the lastSeen of a node added by addStaticPeer. *)
Forever == MaxTime + 1

(* The node object the default constructor makes. *)
NoURI == "none"
NoNode == [URI |-> NoURI, identifier |-> <<"empty">>, lastSeen |-> 0]

Identifiers == {<<"empty">>} \cup ({"uri", "short"} \X Peers)

Node == [URI : Peers, identifier : Identifiers, lastSeen : 1 .. Forever]

PeerTypeOK ==
  /\ keyByURI \in BOOLEAN
  /\ DOMAIN nodes \subseteq Identifiers
  /\ \A k \in DOMAIN nodes : nodes[k] \in Node
  /\ now \in 1 .. MaxTime

PeerInit ==
  /\ nodes = [k \in {} |-> NoNode]
  /\ now = 1

FaultyKey(n) == n.identifier

Key(n) == IF keyByURI THEN <<"uri", n.URI>> ELSE n.identifier

addNode(n) ==
  nodes' = [k \in DOMAIN nodes \cup {Key(n)} |-> IF k = Key(n) THEN n ELSE nodes[k]]

removeNode(p) == nodes' = [k \in DOMAIN nodes \ {<<"uri", p>>} |-> nodes[k]]

(* The entry that operator[] makes for an unknown address is erased again. *)
getNode(p) == IF <<"uri", p>> \in DOMAIN nodes THEN nodes[<<"uri", p>>] ELSE NoNode

getNodes == {nodes[k] : k \in DOMAIN nodes}

setLastSeen(n) == IF n.lastSeen = Forever THEN n ELSE [n EXCEPT !.lastSeen = now]

FaultyIsOld(n) == now - n.lastSeen > MaxTime

IsOld(n) == n.lastSeen # Forever /\ now - n.lastSeen > MaxPeerAge

=============================================================================
