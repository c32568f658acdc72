------------------------------- MODULE Records -------------------------------
(***************************************************************************)
(* What a storage keeps of nodes and of bundles: Node and BundleInfo, and  *)
(* the arrays their serialize makes and their constructors read.           *)
(***************************************************************************)
EXTENDS BundleFormat

CONSTANTS
  NodeSize,    \* what a node takes of a record
  RecordBuffer \* the 1000 bytes of the encoders' buffers

ASSUME RecordsAssumption == NodeSize \in Nat /\ RecordBuffer \in Nat

Uint(n) == [is |-> "uint", value |-> n]
Bool(b) == [is |-> "bool", value |-> b]

(* "empty" is the identifier of a node no CLA has named. *)
Node(uri) ==
  [identifier |-> "empty", eids |-> <<fromUri(uri)>>, uri |-> uri, lastSeen |-> 0,
   hasPos |-> FALSE, confirmed |-> FALSE, hashes |-> {}]

EncodeEids(eids) == [i \in DOMAIN eids |-> EidToCbor(eids[i])]

(* EID::fromCbor stays where it is when it fails, and so do those after it. *)
DecodeEids(array) ==
  LET Read(i) == EidFromCbor(array[i])
      failed == {i \in DOMAIN array : ~Read(i).valid}
  IN  [i \in DOMAIN array |-> IF \E j \in failed : j <= i THEN EmptyEid ELSE Read(i)]

(* With CONFIG_useReceivedSet; the position itself is left out. *)
SerializeNode(n) ==
  <<[is |-> "text", value |-> n.identifier], [is |-> "array", value |-> EncodeEids(n.eids)],
    [is |-> "text", value |-> n.uri], Uint(n.lastSeen), Bool(n.hasPos), Bool(n.confirmed),
    [is |-> "array", value |-> n.hashes]>>

DecodeHashes(item) == IF item.is = "array" THEN item.value ELSE {}

FaultyDeserializeNode(r) ==
  [identifier |-> r[1].value, eids |-> <<>>, uri |-> r[3].value,
   lastSeen |-> r[4].value, hasPos |-> FALSE, confirmed |-> FALSE, hashes |-> {}]

(* From the time of the last contact on the reader is not advanced: it     *)
(* finds an integer where it looks for booleans and for the hashes.        *)
DeserializeNode(r) ==
  LET at == r[4]
      IsTrue(item) == item.is = "bool" /\ item.value
  IN  [identifier |-> r[1].value, eids |-> DecodeEids(r[2].value), uri |-> r[3].value,
       lastSeen |-> IF at.is = "uint" THEN at.value ELSE 0, hasPos |-> IsTrue(at),
       confirmed |-> IsTrue(at), hashes |-> DecodeHashes(at)]

-----------------------------------------------------------------------------
BundleInfo(bundle) ==
  [bundle |-> CopyOf(bundle), locallyDelivered |-> FALSE, forwardedTo |-> <<>>,
   numOfBroadcasts |-> 0, lastBroadcastTime |-> 0]

EncodeNodes(nodes) == [i \in DOMAIN nodes |-> SerializeNode(nodes[i])]

DecodeNodes(array) == [i \in DOMAIN array |-> DeserializeNode(array[i])]

EncodeBundle(bundle) == toCbor(bundle)

DecodeBundle(items, now) == fromCbor(items, now)

SerializeInfo(info) ==
  <<Uint(info.bundle.retention), Bool(info.locallyDelivered),
    [is |-> "array", value |-> EncodeNodes(info.forwardedTo)],
    Uint(info.numOfBroadcasts), Uint(info.lastBroadcastTime),
    Uint(info.bundle.receivedAt), EncodeBundle(info.bundle)>>

(* A record longer than the buffer gets a size no vector can have. *)
Serializable(info) ==
  /\ Encodable(info.bundle.payload)
  /\ PayloadSize[info.bundle.payload.data[1]] + NodeSize * Len(info.forwardedTo)
       <= RecordBuffer

FaultyDeserializeInfo(r, now) ==
  [bundle |-> [DecodeBundle(r[7], now) EXCEPT !.retention = r[1].value],
   locallyDelivered |-> r[2].value, forwardedTo |-> DecodeNodes(r[3].value),
   numOfBroadcasts |-> r[4].value, lastBroadcastTime |-> r[5].value]

DeserializeInfo(r, now) ==
  [bundle |-> [DecodeBundle(r[7], now) EXCEPT !.retention = r[1].value,
                                              !.receivedAt = r[6].value],
   locallyDelivered |-> r[2].value, forwardedTo |-> DecodeNodes(r[3].value),
   numOfBroadcasts |-> r[4].value, lastBroadcastTime |-> r[5].value]

==============================================================================
