------------------------------ MODULE BLEPeers ------------------------------
(***************************************************************************)
(* The side of the BLE convergence layer that listens: peers found by      *)
(* scanning are kept in BleCLA::currentPeers and removed by cleanPeersTask *)
(* when they have not been seen for long; peers that find this node        *)
(* connect and write bundles.  The callbacks run one after the other in    *)
(* the NimBLE host task; the stack itself is external.                     *)
(***************************************************************************)
EXTENDS Naturals, Sequences, FiniteSets

CONSTANTS
  Peers,       \* names of other nodes; each has one address
  MaxAge,      \* CONFIG_BLE_MAX_PEER_AGE
  Wrap,        \* last_seen is a uint32_t, the clock has 64 bits: 2^32
  QueueLength, \* length of receiveQueue
  None,        \* no peer, or a sender that is not known
  MaxOutside   \* bound on the ticks of the clock and connections of peers

ASSUME PeersAssumption ==
  /\ None \notin Peers
  /\ MaxAge \in Nat /\ Wrap \in Nat \ {0} /\ QueueLength \in Nat \ {0}
  /\ MaxOutside \in Nat

VARIABLES
  time,          \* system time
  currentPeers,  \* names of the peers known
  last_seen,     \* per peer in currentPeers
  cleaning,      \* cleanPeersTask: the peers it is about to remove
  scanning, advertising, \* what the radio does
  isAdvertising, \* what switchScanAdvertiseTask believes it does
  visitor,       \* connection of a peer to this node: who, and whether it has
                 \* been terminated
  visits,        \* connections of peers so far
  host,          \* host task: "free", or in a callback that waits
  receiveQueue,  \* senders of bundles, as far as they are known
  seen,          \* history: time of the last discovery
  refreshed      \* history: peers discovered since this cleaning began

peers == <<currentPeers, last_seen, cleaning, seen, refreshed>>
radio == <<scanning, advertising, isAdvertising>>
visiting == <<visitor, visits>>
peerVars == <<time, peers, radio, visiting, host, receiveQueue>>

(* A connection brings so much with it that it counts twice. *)
Outside == time + 2 * visits

NobodyHere == [who |-> None, open |-> FALSE]
Free == [at |-> "free", from |-> None]
NotCleaning == [busy |-> FALSE, remove |-> {}]

PeersTypeOK ==
  /\ time \in Nat
  /\ currentPeers \subseteq Peers
  /\ last_seen \in [Peers -> 0 .. Wrap - 1] /\ seen \in [Peers -> Nat]
  /\ cleaning \in [busy : BOOLEAN, remove : SUBSET Peers] /\ refreshed \subseteq Peers
  /\ {scanning, advertising, isAdvertising} \subseteq BOOLEAN
  /\ visitor \in [who : Peers \cup {None}, open : BOOLEAN] /\ visits \in Nat
  /\ host \in [at : {"free", "put", "complete"}, from : Peers \cup {None}]
  /\ receiveQueue \in Seq(Peers \cup {None})

(* nimbleInit, ble_on_sync: advertising first.                             *)
PeersInit ==
  /\ time = 0
  /\ currentPeers = {} /\ last_seen = [p \in Peers |-> 0]
  /\ cleaning = NotCleaning
  /\ scanning = FALSE /\ advertising = TRUE
  /\ isAdvertising = FALSE
  /\ visitor = NobodyHere /\ visits = 0
  /\ host = Free /\ receiveQueue = <<>>
  /\ seen = [p \in Peers |-> 0] /\ refreshed = {}

-----------------------------------------------------------------------------
(* Faulty: inserts without the erase, which leaves an old entry as it is.  *)
FaultyDiscoveredPeer(p) ==
  /\ currentPeers' = currentPeers \cup {p}
  /\ last_seen' = [last_seen EXCEPT ![p] = IF p \in currentPeers THEN @ ELSE time % Wrap]
  /\ seen' = [seen EXCEPT ![p] = time]
  /\ refreshed' = IF cleaning.busy THEN refreshed \cup {p} ELSE {}
  /\ UNCHANGED <<time, cleaning, radio, visiting, host, receiveQueue>>

(* The entry is erased and inserted with the new time, cut to 32 bits.  In *)
(* between the other tasks do not find the peer, as if it had not been     *)
(* discovered yet; this moment is left out.                                *)
discoveredPeer(p) ==
  /\ currentPeers' = currentPeers \cup {p}
  /\ last_seen' = [last_seen EXCEPT ![p] = time % Wrap]
  /\ seen' = [seen EXCEPT ![p] = time]
  /\ refreshed' = IF cleaning.busy THEN refreshed \cup {p} ELSE {}
  /\ UNCHANGED <<time, cleaning, radio, visiting, host, receiveQueue>>

(* BLE_GAP_EVENT_DISC with a name that begins like a URI. *)
Discovery(p) == scanning /\ host = Free /\ discoveredPeer(p)

(* cleanUpBlePeers notes which entries are too old (the table is iterated  *)
(* without protection; what an insert into it meanwhile does to the        *)
(* iterator is undefined and left out) ...                                 *)
ListOldPeers ==
  /\ ~cleaning.busy
  /\ cleaning' = [busy |-> TRUE,
                  remove |-> {p \in currentPeers : time - last_seen[p] > MaxAge}]
  /\ UNCHANGED <<time, currentPeers, last_seen, seen, refreshed, radio, visiting, host, receiveQueue>>

(* ... and erases them; an entry is found by its name alone.               *)
EraseOldPeers ==
  /\ cleaning.busy
  /\ currentPeers' = currentPeers \ cleaning.remove
  /\ cleaning' = NotCleaning /\ refreshed' = {}
  /\ UNCHANGED <<time, last_seen, seen, radio, visiting, host, receiveQueue>>

-----------------------------------------------------------------------------
(* A peer connects: the stack ends advertising, the event ends scanning.   *)
PeerConnects(p) ==
  /\ advertising /\ visitor = NobodyHere /\ host = Free
  /\ Outside + 2 <= MaxOutside /\ visits' = visits + 1
  /\ visitor' = [who |-> p, open |-> TRUE]
  /\ advertising' = FALSE /\ scanning' = FALSE
  /\ UNCHANGED <<time, peers, isAdvertising, host, receiveQueue>>

(* ble_write_callback terminates the connection; data that begins like a   *)
(* bundle is decoded and queued, whether or not it is a valid one.  The    *)
(* sender is the known peer with the address, if there is one.             *)
ble_write_callback(bundle) ==
  /\ visitor.open /\ host = Free
  /\ visitor' = [visitor EXCEPT !.open = FALSE]
  /\ host' = IF bundle
             THEN [at |-> "put",
                   from |-> IF visitor.who \in currentPeers THEN visitor.who ELSE None]
             ELSE Free
  /\ UNCHANGED <<time, peers, radio, visits, receiveQueue>>

(* handleBLEReception keeps the host task until the queue has a place.     *)
QueueReceived ==
  /\ host.at = "put" /\ Len(receiveQueue) < QueueLength
  /\ receiveQueue' = Append(receiveQueue, host.from)
  /\ host' = Free
  /\ UNCHANGED <<time, peers, radio, visiting>>

(* Nothing ends the connection of a peer that does not write, except that  *)
(* peer or the radio.                                                      *)
PeerLeaves ==
  /\ visitor # NobodyHere /\ host = Free
  /\ visitor' = NobodyHere
  /\ UNCHANGED <<time, peers, radio, visits, host, receiveQueue>>

bundleReceiver ==
  /\ receiveQueue # <<>>
  /\ receiveQueue' = Tail(receiveQueue)
  /\ UNCHANGED <<time, peers, radio, visiting, host>>

(* Neither ends the other.  While a connection is being made the stack may *)
(* refuse.                                                                 *)
start_ble_scan == scanning' \in BOOLEAN /\ UNCHANGED advertising

ble_advertise == advertising' \in BOOLEAN /\ UNCHANGED scanning

(* switchScanAdvertiseTask starts what it did not do last.  That           *)
(* bleConnection delays the task is left out: it may take its steps at any *)
(* time.                                                                   *)
SwitchRadio ==
  /\ isAdvertising' = ~isAdvertising
  /\ IF isAdvertising THEN start_ble_scan ELSE ble_advertise
  /\ UNCHANGED <<time, peers, visiting, host, receiveQueue>>

Tick ==
  /\ Outside < MaxOutside
  /\ time' = time + 1
  /\ UNCHANGED <<peers, radio, visiting, host, receiveQueue>>

Listen ==
  \/ \E p \in Peers : Discovery(p) \/ PeerConnects(p)
  \/ ListOldPeers
  \/ EraseOldPeers
  \/ \E bundle \in BOOLEAN : ble_write_callback(bundle)
  \/ QueueReceived
  \/ PeerLeaves
  \/ bundleReceiver
  \/ Tick

-----------------------------------------------------------------------------
(* cleanUpBlePeers removes no peer that was seen within the maximum age,   *)
(* with two exceptions: the peer was seen again between the check and the  *)
(* erase, which goes by name and takes the new entry; or its last_seen was *)
(* cut, as every one is from 2^32 microseconds (71 minutes) on.            *)
FreshPeersStay ==
  [][\A p \in currentPeers \ currentPeers' :
       \/ time - seen[p] > MaxAge
       \/ p \in refreshed
       \/ seen[p] >= Wrap]_peerVars
=============================================================================
