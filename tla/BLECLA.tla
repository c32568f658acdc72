------------------------------- MODULE BLECLA -------------------------------
(***************************************************************************)
(* BleCLA::send and what it shares with the callbacks of the NimBLE host   *)
(* task and with switchScanAdvertiseTask: the buffer cbor, its size, which *)
(* also says how the transmission went (0: done, larger than the buffer:   *)
(* failed), and transmissionComplete.  None of them is protected.          *)
(* A bundle is the number of the call of send it is given to.              *)
(***************************************************************************)
EXTENDS BLEPeers

CONSTANTS
  Attempts,  \* CONFIG_BLE_SEND_ATTEMPTS
  MaxCalls   \* bound on the calls of send

ASSUME SendAssumption == Attempts \in Nat \ {0} /\ MaxCalls \in Nat

VARIABLES
  cborSize,             \* "zero", "fits" or "tooLarge"
  cbor,                 \* the bundle in the global buffer, 0: none
  transmissionComplete,
  sender,               \* send and internSend: where the caller is
  calls,                \* calls of send so far
  link,                 \* the connection this node made
  sent,                 \* history: calls that returned true
  written,              \* history: bundles whose write was acknowledged
  lost,                 \* history: bundles whose write was under way when the
                        \* connection was lost
  disturbed             \* history: calls during which another party changed
                        \* what they share

shared == <<cborSize, cbor, transmissionComplete>>
sendHistory == <<sent, written, lost, disturbed>>
sendVars == <<shared, sender, calls, link, sendHistory>>
vars == <<peerVars, sendVars>>

Idle == [at |-> "idle", attempt |-> 0, large |-> FALSE, dest |-> None]
NoLink == [at |-> "none", data |-> 0, call |-> 0, attempt |-> 0]

TypeOK ==
  /\ PeersTypeOK
  /\ cborSize \in {"zero", "fits", "tooLarge"} /\ cbor \in 0 .. MaxCalls
  /\ transmissionComplete \in BOOLEAN
  /\ sender \in [at : {"idle", "await", "encoded", "connect", "poll", "result"},
                 attempt : 0 .. Attempts, large : BOOLEAN, dest : Peers \cup {None}]
  /\ calls \in 0 .. MaxCalls
  /\ link \in [at : {"none", "connecting", "service", "characteristic", "writing", "refused",
                     "open", "ending"},
               data : 0 .. MaxCalls, call : 0 .. MaxCalls, attempt : 0 .. Attempts]
  /\ sent \subseteq 1 .. MaxCalls /\ written \subseteq 1 .. MaxCalls
  /\ lost \subseteq 1 .. MaxCalls /\ disturbed \subseteq 1 .. MaxCalls

Init ==
  /\ PeersInit
  /\ cborSize = "zero" /\ cbor = 0 /\ transmissionComplete = FALSE
  /\ sender = Idle /\ calls = 0 /\ link = NoLink
  /\ sent = {} /\ written = {} /\ lost = {} /\ disturbed = {}

-----------------------------------------------------------------------------
(* BleCLA::send, in bundleForwarder                                        *)

(* A peer that is not in currentPeers cannot be sent to.                   *)
send(p, large) ==
  /\ sender = Idle /\ calls < MaxCalls
  /\ calls' = calls + 1
  /\ sender' = IF p \in currentPeers
               THEN [at |-> "await", attempt |-> 0, large |-> large, dest |-> p] ELSE Idle
  /\ UNCHANGED <<shared, link, sendHistory>>

(* The attempt failed: the next one, or send returns false.                *)
NextAttempt ==
  IF sender.attempt + 1 < Attempts
  THEN sender' = [sender EXCEPT !.at = "await", !.attempt = @ + 1]
  ELSE sender' = Idle

(* internSend waits until the size is 0; a failed transmission counts as   *)
(* finished.  The bundle is then encoded into the global size.             *)
Encode ==
  /\ sender.at = "await" /\ cborSize # "fits"
  /\ IF sender.large
     THEN /\ NextAttempt
          /\ cborSize' = IF sender'.at = "idle" THEN "zero" ELSE "tooLarge"
     ELSE cborSize' = "fits" /\ sender' = [sender EXCEPT !.at = "encoded"]
  /\ UNCHANGED <<cbor, transmissionComplete, calls, link, sendHistory>>

(* memcpy copies as many bytes as the size says now.                       *)
CopyToBuffer ==
  /\ sender.at = "encoded"
  /\ cbor' = IF cborSize = "zero" THEN cbor ELSE calls
  /\ transmissionComplete' = FALSE
  /\ sender' = [sender EXCEPT !.at = "connect"]
  /\ UNCHANGED <<cborSize, calls, link, sendHistory>>

(* connect_to_peer waits for other connections to end.  It stops scanning  *)
(* and advertising and asks for a connection, unless the transmission is   *)
(* complete by now at its entry; the stack refuses while it is connecting. *)
connect_to_peer(accepted) ==
  /\ sender.at = "connect"
  /\ visitor = NobodyHere /\ link.at \in {"none", "connecting"}
  /\ accepted => link.at = "none"
  /\ IF accepted
     THEN /\ link' = [NoLink EXCEPT !.at = "connecting", !.call = calls,
                                    !.attempt = sender.attempt]
          /\ sender' = [sender EXCEPT !.at = "poll"]
          /\ UNCHANGED cborSize
     ELSE /\ NextAttempt
          /\ cborSize' = IF sender'.at = "idle" THEN "zero" ELSE cborSize
          /\ UNCHANGED link
  /\ scanning' = FALSE /\ advertising' = FALSE
  /\ UNCHANGED <<cbor, transmissionComplete, calls, sendHistory>>

AlreadyComplete ==
  /\ sender.at = "connect" /\ transmissionComplete
  /\ sender' = [sender EXCEPT !.at = "poll"]
  /\ UNCHANGED <<shared, calls, link, sendHistory>>

(* Faulty: a time-out is not marked as a failure. *)
FaultyPoll(timeout) ==
  /\ sender.at = "poll"
  /\ transmissionComplete \/ cborSize = "tooLarge" \/ timeout
  /\ sender' = [sender EXCEPT !.at = "result"]
  /\ UNCHANGED <<shared, calls, link, sendHistory>>

(* The waiting ends with the callback, with a failure, or after 20 polls,  *)
(* which is a failure too.                                                 *)
Poll(timeout) ==
  /\ sender.at = "poll"
  /\ transmissionComplete \/ cborSize = "tooLarge" \/ timeout
  /\ cborSize' = IF timeout THEN "tooLarge" ELSE cborSize
  /\ sender' = [sender EXCEPT !.at = "result"]
  /\ UNCHANGED <<cbor, transmissionComplete, calls, link, sendHistory>>

Result ==
  /\ sender.at = "result"
  /\ IF cborSize = "zero"
     THEN sender' = Idle /\ sent' = sent \cup {calls}
     ELSE NextAttempt /\ UNCHANGED sent
  /\ cborSize' = "zero"
  /\ UNCHANGED <<cbor, transmissionComplete, calls, link, written, lost, disturbed>>

SendStep ==
  \/ (Encode \/ CopyToBuffer \/ AlreadyComplete \/ Result) /\ UNCHANGED peerVars
  \/ (\E timeout \in BOOLEAN : Poll(timeout)) /\ UNCHANGED peerVars
  \/ /\ \E accepted \in BOOLEAN : connect_to_peer(accepted)
     /\ UNCHANGED <<time, peers, isAdvertising, visiting, host, receiveQueue>>

-----------------------------------------------------------------------------
(* Callbacks of the connection, in the host task                           *)

(* The connection belongs to an attempt that waits no longer. *)
Late == ~(sender.at = "poll" /\ link.call = calls /\ link.attempt = sender.attempt)

(* History: a late callback interferes with the call that is running.      *)
Disturbing(late) ==
  disturbed' = IF late /\ sender # Idle THEN disturbed \cup {calls} ELSE disturbed

(* ble_gap_terminate: the connection is there until the event that ends it.*)
Terminate == link' = [link EXCEPT !.at = "ending"]

others == <<time, peers, isAdvertising, visiting, receiveQueue>>

(* BLE_GAP_EVENT_CONNECT: service discovery begins.  If it cannot be       *)
(* started the connection stays open.                                      *)
Connected(ok, started) ==
  /\ link.at = "connecting" /\ host = Free
  /\ link' = IF ~ok THEN NoLink
             ELSE [link EXCEPT !.at = IF started THEN "service" ELSE "open"]
  /\ scanning' = FALSE /\ advertising' = (advertising /\ ~ok)
  /\ UNCHANGED <<others, host, shared, sender, calls, sendHistory>>

(* ble_gattc_disc_svc_cb: on to the characteristic, or the end; a failed   *)
(* discovery leaves the size alone, one that could not be started does not.*)
ble_gattc_disc_svc_cb(ok, started) ==
  /\ link.at = "service" /\ host = Free
  /\ IF ok /\ started THEN link' = [link EXCEPT !.at = "characteristic"] ELSE Terminate
  /\ IF ok /\ ~started THEN cborSize' = "tooLarge" /\ Disturbing(Late)
                       ELSE UNCHANGED <<cborSize, disturbed>>
  /\ UNCHANGED <<others, scanning, advertising, host, cbor, transmissionComplete,
                 sender, calls, sent, written, lost>>

(* ble_gattc_disc_chrc_cb: the buffer is written to the peer, with the     *)
(* size it has now, and the size set to 0 before the peer has answered.    *)
(* The last callback of either discovery, with BLE_HS_EDONE, terminates    *)
(* the connection.  What is under way then, a discovery or the write, ends *)
(* as it may when a connection is lost, or before it; a connection on      *)
(* which the write was refused ends because of it (DiscoveryDone).         *)
ble_gattc_disc_chrc_cb(ok, accepted) ==
  /\ link.at = "characteristic" /\ host = Free
  /\ IF ~ok THEN Terminate /\ UNCHANGED <<cborSize, disturbed>>
     ELSE /\ link' = IF accepted
                     THEN [link EXCEPT !.at = "writing",
                                       !.data = IF cborSize = "zero" THEN 0 ELSE cbor]
                     ELSE [link EXCEPT !.at = "refused"]
          /\ cborSize' = IF accepted THEN "zero" ELSE "tooLarge"
          /\ Disturbing(Late)
  /\ UNCHANGED <<others, scanning, advertising, host, cbor, transmissionComplete,
                 sender, calls, sent, written, lost>>

DiscoveryDone ==
  /\ link.at = "refused" /\ host = Free
  /\ Terminate
  /\ UNCHANGED <<others, scanning, advertising, host, shared, sender, calls, sendHistory>>

(* write_callback: the peer has answered, or the write has failed.  Status *)
(* 7, BLE_HS_ENOTCONN, is taken for an answer: the peer ends a connection  *)
(* once it has the bundle, but this node ends it too, and so may the radio.*)
write_callback(status) ==
  /\ link.at = "writing" /\ host = Free
  /\ cborSize' = IF status = "failed" THEN "tooLarge" ELSE "zero"
  /\ written' = IF status = "answered" THEN written \cup ({link.data} \ {0}) ELSE written
  /\ lost' = IF status = "notConnected" THEN lost \cup ({link.data} \ {0}) ELSE lost
  /\ Disturbing(Late)
  /\ Terminate
  /\ host' = [Free EXCEPT !.at = "complete"]
  /\ UNCHANGED <<others, scanning, advertising, cbor, transmissionComplete, sender,
                 calls, sent>>

(* Its last assignment, which the sender may see later than the others.    *)
SetComplete ==
  /\ host.at = "complete"
  /\ transmissionComplete' = TRUE
  /\ Disturbing(Late)
  /\ host' = Free
  /\ UNCHANGED <<others, scanning, advertising, cborSize, cbor, sender, calls, link,
                 sent, written, lost>>

(* BLE_GAP_EVENT_DISCONNECT                                                *)
Disconnected(place) ==
  /\ link.at = place /\ host = Free
  /\ link' = NoLink
  /\ UNCHANGED <<others, scanning, advertising, host, shared, sender, calls, sendHistory>>

LinkCallback ==
  \/ \E ok, more \in BOOLEAN : \/ Connected(ok, more)
                               \/ ble_gattc_disc_svc_cb(ok, more)
                               \/ ble_gattc_disc_chrc_cb(ok, more)
  \/ \E status \in {"answered", "notConnected", "failed"} : write_callback(status)
  \/ DiscoveryDone
  \/ SetComplete
  \/ Disconnected("ending")

-----------------------------------------------------------------------------
(* Faulty: leaves the size as it is. *)
FaultySwitchScanAdvertise == SwitchRadio /\ UNCHANGED sendVars

(* switchScanAdvertiseTask waits a while for the size to become 0, then    *)
(* sets it to 0 whatever it is.                                            *)
switchScanAdvertise ==
  /\ SwitchRadio
  /\ cborSize' = "zero"
  /\ disturbed' = IF cborSize # "zero" /\ sender.at \notin {"idle", "await"}
                  THEN disturbed \cup {calls} ELSE disturbed
  /\ UNCHANGED <<cbor, transmissionComplete, sender, calls, link, sent, written,
                 lost>>

Next ==
  \/ Listen /\ UNCHANGED sendVars
  \/ (\E p \in Peers, large \in BOOLEAN : send(p, large)) /\ UNCHANGED peerVars
  \/ SendStep
  \/ LinkCallback
  \/ Disconnected("open")
  \/ switchScanAdvertise

(* The tasks run; NimBLE reports the end of every connection attempt,      *)
(* discovery and write, for which it has time-outs, and of a connection    *)
(* that was terminated.  A peer that has not written may stay for ever.    *)
Fairness ==
  /\ WF_vars(SendStep)
  /\ WF_vars(LinkCallback)
  /\ WF_vars(switchScanAdvertise)
  /\ WF_vars(QueueReceived /\ UNCHANGED sendVars)
  /\ WF_vars(~visitor.open /\ PeerLeaves /\ UNCHANGED sendVars)
  /\ WF_vars(bundleReceiver /\ UNCHANGED sendVars)

Spec == Init /\ [][Next]_vars /\ Fairness

-----------------------------------------------------------------------------
(* send returns true only if a write of this bundle was acknowledged, or   *)
(* under way when the connection was lost (whether or not the peer had the *)
(* bundle by then), unless the call was disturbed: by                      *)
(* switchScanAdvertiseTask, which set a size it was still using to 0, or   *)
(* by a callback that came when the attempt it belongs to had stopped      *)
(* waiting (for the same variables).                                       *)
TrueMeansWritten == sent \subseteq written \cup lost \cup disturbed

(* Every send returns, whatever the peers and the radio do, unless one of  *)
(* the connections that connect_to_peer waits for stays open for ever: the *)
(* one of this node on which discovery could not be started, or the one of *)
(* a peer that does not write.  It takes switchScanAdvertiseTask to free   *)
(* the size a refused connection leaves.                                   *)
SendEnds ==
  \/ <>[](link.at = "open")
  \/ <>[]visitor.open
  \/ sender # Idle ~> sender = Idle
=============================================================================
