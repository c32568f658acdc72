--------------------------- MODULE BLECLA_proofs ---------------------------
(***************************************************************************)
(* Proofs about BLECLA, for any peers, clock width, number of attempts and *)
(* of calls of send: what the result of send means although nothing        *)
(* protects the variables it shares with the callbacks of the host task    *)
(* and with switchScanAdvertiseTask, and which peers cleanPeersTask        *)
(* removes.                                                                *)
(***************************************************************************)
EXTENDS BLECLA, TLAPS

-----------------------------------------------------------------------------
(* Types: a caller is in send only after its call was counted.             *)

TypeInv == TypeOK /\ (sender = Idle \/ (sender.at # "idle" /\ calls # 0))

LEMMA TypeInit == Init => TypeInv
<1> SUFFICES ASSUME Init PROVE TypeInv
  OBVIOUS
<1>1. PeersTypeOK
  <2>1. /\ last_seen = [p \in Peers |-> 0] /\ seen = [p \in Peers |-> 0] /\ 0 \in 0 .. Wrap - 1
        /\ cleaning = [busy |-> FALSE, remove |-> {}] /\ refreshed = {}
        /\ visitor = [who |-> None, open |-> FALSE] /\ visits = 0 /\ time = 0
        /\ host = [at |-> "free", from |-> None] /\ receiveQueue = <<>> /\ currentPeers = {}
    BY PeersAssumption DEF Init, PeersInit, NotCleaning, NobodyHere, Free
  <2>2. last_seen \in [Peers -> 0 .. Wrap - 1] /\ seen \in [Peers -> Nat]
    BY <2>1
  <2>3. {scanning, advertising, isAdvertising} \subseteq BOOLEAN
    BY DEF Init, PeersInit
  <2>4. <<>> \in Seq(Peers \cup {None})
    OBVIOUS
  <2> QED BY <2>1, <2>2, <2>3, <2>4 DEF PeersTypeOK
<1>2. /\ sender = [at |-> "idle", attempt |-> 0, large |-> FALSE, dest |-> None]
      /\ link = [at |-> "none", data |-> 0, call |-> 0, attempt |-> 0]
      /\ 0 \in 0 .. MaxCalls /\ 0 \in 0 .. Attempts
  BY SendAssumption DEF Init, Idle, NoLink
<1>3. sender = Idle /\ cborSize = "zero" /\ cbor = 0 /\ calls = 0 /\ sent = {} /\ written = {} /\ lost = {}
      /\ disturbed = {}
      /\ transmissionComplete = FALSE
  BY DEF Init
<1>4. sender \in [at : {"idle", "await", "encoded", "connect", "poll", "result"},
                  attempt : 0 .. Attempts, large : BOOLEAN, dest : Peers \cup {None}]
  BY <1>2
<1>5. link \in [at : {"none", "connecting", "service", "characteristic", "writing", "refused",
                      "open", "ending"},
                data : 0 .. MaxCalls, call : 0 .. MaxCalls, attempt : 0 .. Attempts]
  BY <1>2
<1> QED BY <1>1, <1>2, <1>3, <1>4, <1>5 DEF TypeInv, TypeOK

LEMMA ListenTyped ==
  ASSUME PeersTypeOK, Listen
  PROVE  PeersTypeOK'
<1> USE DEF PeersTypeOK, peers, radio, visiting
<1>1. ASSUME NEW p \in Peers, Discovery(p) PROVE PeersTypeOK'
  <2>1. time % Wrap \in 0 .. Wrap - 1
    BY PeersAssumption
  <2> QED BY <1>1, <2>1 DEF Discovery, discoveredPeer
<1>2. ASSUME NEW p \in Peers, PeerConnects(p) PROVE PeersTypeOK'
  <2>1. {scanning, advertising, isAdvertising}' \subseteq BOOLEAN
    BY <1>2 DEF PeerConnects
  <2>2. /\ visitor' = [who |-> p, open |-> TRUE] /\ visits' = visits + 1
        /\ UNCHANGED <<time, peers, host, receiveQueue>>
    BY <1>2 DEF PeerConnects
  <2>3. visitor' \in [who : Peers \cup {None}, open : BOOLEAN]
    BY <2>2
  <2> QED BY <2>1, <2>2, <2>3
<1>3. CASE ListOldPeers
  BY <1>3 DEF ListOldPeers
<1>4. CASE EraseOldPeers
  BY <1>4 DEF EraseOldPeers, NotCleaning
<1>5. ASSUME NEW bundle \in BOOLEAN, ble_write_callback(bundle) PROVE PeersTypeOK'
  BY <1>5 DEF ble_write_callback, Free
<1>6. CASE QueueReceived
  BY <1>6 DEF QueueReceived, Free
<1>7. CASE PeerLeaves
  BY <1>7 DEF PeerLeaves, NobodyHere
<1>8. CASE bundleReceiver
  BY <1>8 DEF bundleReceiver
<1>9. CASE Tick
  BY <1>9 DEF Tick
<1> QED BY <1>1, <1>2, <1>3, <1>4, <1>5, <1>6, <1>7, <1>8, <1>9 DEF Listen

LEMMA NextAttemptTyped ==
  ASSUME TypeInv, sender # Idle, NextAttempt
  PROVE  /\ sender' \in [at : {"idle", "await"}, attempt : 0 .. Attempts,
                         large : BOOLEAN, dest : Peers \cup {None}]
         /\ sender' = Idle \/ sender'.at = "await"
<1>1. CASE sender.attempt + 1 < Attempts
  <2>1. sender' = [sender EXCEPT !.at = "await", !.attempt = @ + 1]
    BY <1>1 DEF NextAttempt
  <2>2. sender.attempt + 1 \in 0 .. Attempts
    BY <1>1, SendAssumption DEF TypeInv, TypeOK
  <2> QED BY <2>1, <2>2 DEF TypeInv, TypeOK
<1>2. CASE ~(sender.attempt + 1 < Attempts)
  <2>1. sender' = Idle
    BY <1>2 DEF NextAttempt
  <2> QED BY <2>1, SendAssumption DEF Idle
<1> QED BY <1>1, <1>2

LEMMA TypeNext == TypeInv /\ [Next]_vars => TypeInv'
<1> SUFFICES ASSUME TypeInv, [Next]_vars PROVE TypeInv'
  OBVIOUS
<1>0. /\ PeersTypeOK /\ TypeOK /\ calls \in 0 .. MaxCalls /\ MaxCalls \in Nat
      /\ (sender # Idle => sender.at # "idle" /\ calls \in 1 .. MaxCalls)
      /\ Attempts \in Nat \ {0}
  BY SendAssumption DEF TypeInv, TypeOK
<1>a. ASSUME PeersTypeOK', UNCHANGED sendVars PROVE TypeInv'
  BY <1>0, <1>a DEF TypeInv, TypeOK, sendVars, shared, sendHistory
<1>b. UNCHANGED peerVars => PeersTypeOK'
  BY <1>0 DEF PeersTypeOK, peerVars, peers, radio, visiting
<1>1. CASE Listen /\ UNCHANGED sendVars
  BY <1>0, <1>1, <1>a, ListenTyped
<1>2. ASSUME NEW p \in Peers, NEW large \in BOOLEAN, send(p, large), UNCHANGED peerVars
      PROVE  TypeInv'
  <2>1. /\ \/ sender' = Idle
           \/ sender' = [at |-> "await", attempt |-> 0, large |-> large, dest |-> p]
        /\ calls' = calls + 1 /\ calls' \in 1 .. MaxCalls
        /\ UNCHANGED <<shared, link, sendHistory>>
    BY <1>2, <1>0 DEF send
  <2>2. 0 \in 0 .. Attempts /\ calls' \in 0 .. MaxCalls /\ calls' # 0
    BY <1>0, <2>1
  <2>3. /\ sender' \in [at : {"idle", "await"}, attempt : 0 .. Attempts,
                        large : BOOLEAN, dest : Peers \cup {None}]
        /\ sender' = Idle \/ sender'.at = "await"
    <3>1. CASE sender' = Idle
      <4>1. Idle \in [at : {"idle", "await"}, attempt : 0 .. Attempts,
                      large : BOOLEAN, dest : Peers \cup {None}]
        BY <2>2 DEF Idle
      <4> QED BY <3>1, <4>1
    <3>2. CASE sender' = [at |-> "await", attempt |-> 0, large |-> large, dest |-> p]
      BY <2>2, <3>2
    <3> QED BY <2>1, <3>1, <3>2
  <2> QED BY <2>1, <2>2, <2>3, <1>0, <1>2, <1>b DEF TypeInv, TypeOK, shared, sendHistory
<1>3. CASE Encode /\ UNCHANGED peerVars
  <2>1. /\ sender.at = "await" /\ UNCHANGED <<cbor, transmissionComplete, calls, link, sendHistory>>
        /\ sender # Idle
    BY <1>3 DEF Encode, Idle
  <2>2. CASE sender.large
    <3>1. NextAttempt /\ cborSize' \in {"zero", "tooLarge"}
      BY <1>3, <2>2 DEF Encode
    <3> QED BY <1>0, <1>3, <1>b, <2>1, <3>1, NextAttemptTyped DEF TypeInv, TypeOK, sendHistory
  <2>3. CASE ~sender.large
    BY <1>0, <1>3, <1>b, <2>1, <2>3 DEF Encode, TypeInv, TypeOK, sendHistory, Idle
  <2> QED BY <2>2, <2>3
<1>4. CASE CopyToBuffer /\ UNCHANGED peerVars
  <2>1. /\ sender.at = "encoded" /\ sender # Idle /\ cbor' \in {cbor, calls}
        /\ sender' = [sender EXCEPT !.at = "connect"]
        /\ UNCHANGED <<cborSize, calls, link, sendHistory>>
    BY <1>4 DEF CopyToBuffer, Idle
  <2>2. transmissionComplete' \in BOOLEAN
    BY <1>4 DEF CopyToBuffer
  <2> QED BY <1>0, <1>4, <1>b, <2>1, <2>2 DEF TypeInv, TypeOK, sendHistory
<1>5. CASE AlreadyComplete /\ UNCHANGED peerVars
  BY <1>0, <1>5, <1>b DEF AlreadyComplete, TypeInv, TypeOK, shared, sendHistory, Idle
<1>6. CASE Result /\ UNCHANGED peerVars
  <2>1. /\ sender.at = "result" /\ sender # Idle /\ cborSize' = "zero"
        /\ UNCHANGED <<cbor, transmissionComplete, calls, link, written, lost, disturbed>>
    BY <1>6 DEF Result, Idle
  <2>2. CASE cborSize = "zero"
    <3>1. sender' = Idle /\ sent' = sent \cup {calls}
      BY <1>6, <2>2 DEF Result
    <3> QED BY <1>0, <1>6, <1>b, <2>1, <3>1 DEF TypeInv, TypeOK, Idle
  <2>3. CASE cborSize # "zero"
    <3>1. NextAttempt /\ sent' = sent
      BY <1>6, <2>3 DEF Result
    <3> QED BY <1>0, <1>6, <1>b, <2>1, <3>1, NextAttemptTyped DEF TypeInv, TypeOK
  <2> QED BY <2>2, <2>3
<1>7. ASSUME NEW timeout \in BOOLEAN, Poll(timeout), UNCHANGED peerVars PROVE TypeInv'
  BY <1>0, <1>7, <1>b DEF Poll, TypeInv, TypeOK, sendHistory, Idle
<1>8. ASSUME NEW accepted \in BOOLEAN, connect_to_peer(accepted),
             UNCHANGED <<time, peers, isAdvertising, visiting, host, receiveQueue>>
      PROVE  TypeInv'
  <2>1. /\ sender.at = "connect" /\ sender # Idle /\ scanning' = FALSE /\ advertising' = FALSE
        /\ UNCHANGED <<cbor, transmissionComplete, calls, sendHistory>>
    BY <1>8 DEF connect_to_peer, Idle
  <2>2. PeersTypeOK'
    BY <1>0, <1>8, <2>1 DEF PeersTypeOK, peers, visiting
  <2>3. CASE accepted
    <3>1. /\ link' = [at |-> "connecting", data |-> 0, call |-> calls, attempt |-> sender.attempt]
          /\ sender' = [sender EXCEPT !.at = "poll"] /\ UNCHANGED cborSize
      BY <1>8, <2>3 DEF connect_to_peer, NoLink
    <3> QED BY <1>0, <2>1, <2>2, <3>1 DEF TypeInv, TypeOK, sendHistory, Idle
  <2>4. CASE ~accepted
    <3>1. NextAttempt /\ cborSize' \in {"zero", cborSize} /\ UNCHANGED link
      BY <1>8, <2>4 DEF connect_to_peer
    <3> QED BY <1>0, <2>1, <2>2, <3>1, NextAttemptTyped DEF TypeInv, TypeOK, sendHistory
  <2> QED BY <2>3, <2>4
<1>c. ASSUME NEW late \in BOOLEAN, Disturbing(late) PROVE disturbed' \subseteq 1 .. MaxCalls
  BY <1>0, <1>c DEF Disturbing, TypeOK
<1>d. Late \in BOOLEAN
  BY DEF Late
<1>e. ASSUME NEW ok \in BOOLEAN, UNCHANGED others, host' \in {host, Free, [Free EXCEPT !.at = "complete"]},
             scanning' \in BOOLEAN, advertising' \in BOOLEAN
      PROVE  PeersTypeOK'
  BY <1>0, <1>e DEF others, PeersTypeOK, peers, visiting, Free
<1>f. scanning \in BOOLEAN /\ advertising \in BOOLEAN /\ isAdvertising \in BOOLEAN
  BY <1>0 DEF PeersTypeOK
<1>9. ASSUME NEW ok \in BOOLEAN, NEW more \in BOOLEAN, Connected(ok, more) PROVE TypeInv'
  <2>1. PeersTypeOK'
    BY <1>9, <1>e, <1>f DEF Connected
  <2>2. link' \in {NoLink, [link EXCEPT !.at = "service"], [link EXCEPT !.at = "open"]}
        /\ UNCHANGED <<shared, sender, calls, sendHistory>>
    BY <1>9 DEF Connected
  <2> QED BY <1>0, <2>1, <2>2, SendAssumption
          DEF TypeInv, TypeOK, shared, sendHistory, NoLink
<1>10. ASSUME NEW ok \in BOOLEAN, NEW more \in BOOLEAN, ble_gattc_disc_svc_cb(ok, more)
       PROVE  TypeInv'
  <2>1. PeersTypeOK'
    BY <1>10, <1>e, <1>f DEF ble_gattc_disc_svc_cb
  <2>2. /\ link' \in {[link EXCEPT !.at = "characteristic"], [link EXCEPT !.at = "ending"]}
        /\ cborSize' \in {cborSize, "tooLarge"}
        /\ UNCHANGED <<cbor, transmissionComplete, sender, calls, sent, written, lost>>
    BY <1>10 DEF ble_gattc_disc_svc_cb, Terminate
  <2>3. disturbed' \subseteq 1 .. MaxCalls
    BY <1>0, <1>10, <1>c, <1>d DEF ble_gattc_disc_svc_cb, TypeOK
  <2> QED BY <1>0, <2>1, <2>2, <2>3 DEF TypeInv, TypeOK
<1>11. ASSUME NEW ok \in BOOLEAN, NEW accepted \in BOOLEAN, ble_gattc_disc_chrc_cb(ok, accepted)
       PROVE  TypeInv'
  <2>1. PeersTypeOK'
    BY <1>11, <1>e, <1>f DEF ble_gattc_disc_chrc_cb
  <2>2. PICK n \in {0, cbor} :
          link' \in {[link EXCEPT !.at = "ending"], [link EXCEPT !.at = "refused"],
                     [link EXCEPT !.at = "writing", !.data = n]}
    BY <1>11 DEF ble_gattc_disc_chrc_cb, Terminate
  <2>3. /\ cborSize' \in {cborSize, "zero", "tooLarge"}
        /\ UNCHANGED <<cbor, transmissionComplete, sender, calls, sent, written, lost>>
    BY <1>11 DEF ble_gattc_disc_chrc_cb
  <2>4. disturbed' \subseteq 1 .. MaxCalls
    BY <1>0, <1>11, <1>c, <1>d DEF ble_gattc_disc_chrc_cb, TypeOK
  <2>5. n \in 0 .. MaxCalls
    BY <1>0 DEF TypeOK
  <2>6. link' \in [at : {"none", "connecting", "service", "characteristic", "writing", "refused",
                         "open", "ending"},
                   data : 0 .. MaxCalls, call : 0 .. MaxCalls, attempt : 0 .. Attempts]
    <3>1. CASE link' = [link EXCEPT !.at = "ending"]
      BY <1>0, <3>1 DEF TypeOK
    <3>2. CASE link' = [link EXCEPT !.at = "refused"]
      BY <1>0, <3>2 DEF TypeOK
    <3>3. CASE link' = [link EXCEPT !.at = "writing", !.data = n]
      BY <1>0, <2>5, <3>3 DEF TypeOK
    <3> QED BY <2>2, <3>1, <3>2, <3>3
  <2> QED BY <1>0, <2>1, <2>3, <2>4, <2>6 DEF TypeInv, TypeOK
<1>12. ASSUME NEW status \in {"answered", "notConnected", "failed"}, write_callback(status)
       PROVE  TypeInv'
  <2>1. PeersTypeOK'
    BY <1>12, <1>e, <1>f DEF write_callback
  <2>2. /\ link' = [link EXCEPT !.at = "ending"] /\ cborSize' \in {"zero", "tooLarge"}
        /\ written' \in {written, written \cup ({link.data} \ {0})}
        /\ lost' \in {lost, lost \cup ({link.data} \ {0})}
        /\ UNCHANGED <<cbor, transmissionComplete, sender, calls, sent>>
    BY <1>12 DEF write_callback, Terminate
  <2>3. disturbed' \subseteq 1 .. MaxCalls
    BY <1>12, <1>c, <1>d DEF write_callback
  <2>4. {link.data} \ {0} \subseteq 1 .. MaxCalls
    BY <1>0 DEF TypeOK
  <2>5. written' \subseteq 1 .. MaxCalls /\ lost' \subseteq 1 .. MaxCalls
    BY <1>0, <2>2, <2>4 DEF TypeOK
  <2> QED BY <1>0, <2>1, <2>2, <2>3, <2>5 DEF TypeInv, TypeOK
<1>13. CASE SetComplete
  <2>1. PeersTypeOK'
    BY <1>13, <1>e, <1>f DEF SetComplete
  <2>2. disturbed' \subseteq 1 .. MaxCalls
    BY <1>13, <1>c, <1>d DEF SetComplete
  <2> QED BY <1>0, <1>13, <2>1, <2>2 DEF SetComplete, TypeInv, TypeOK
<1>14. ASSUME NEW place, Disconnected(place) PROVE TypeInv'
  <2>1. PeersTypeOK'
    BY <1>14, <1>e, <1>f DEF Disconnected
  <2> QED BY <1>0, <1>14, <2>1, SendAssumption
          DEF Disconnected, TypeInv, TypeOK, shared, sendHistory, NoLink
<1>17. CASE DiscoveryDone
  <2>1. PeersTypeOK'
    BY <1>17, <1>e, <1>f DEF DiscoveryDone
  <2>2. /\ link' = [link EXCEPT !.at = "ending"]
        /\ UNCHANGED <<shared, sender, calls, sendHistory>>
    BY <1>17 DEF DiscoveryDone, Terminate
  <2> QED BY <1>0, <2>1, <2>2 DEF TypeInv, TypeOK, shared, sendHistory
<1>15. CASE switchScanAdvertise
  <2>1. PeersTypeOK'
    BY <1>0, <1>15 DEF switchScanAdvertise, SwitchRadio, start_ble_scan, ble_advertise,
       PeersTypeOK, peers, visiting
  <2>2. disturbed' \subseteq 1 .. MaxCalls
    BY <1>0, <1>15 DEF switchScanAdvertise, TypeOK, Idle
  <2> QED BY <1>0, <1>15, <2>1, <2>2 DEF switchScanAdvertise, TypeInv, TypeOK
<1>16. CASE UNCHANGED vars
  BY <1>16, <1>a, <1>b DEF vars
<1> QED BY <1>1, <1>2, <1>3, <1>4, <1>5, <1>6, <1>7, <1>8, <1>9, <1>10, <1>11, <1>12, <1>13,
           <1>14, <1>15, <1>16, <1>17 DEF Next, SendStep, LinkCallback

(* Every variable of the convergence layer keeps its type.                 *)
THEOREM TypeCorrect == Spec => []TypeOK
<1>1. TypeInv => TypeOK
  BY DEF TypeInv
<1> QED BY <1>1, TypeInit, TypeNext, PTL DEF Spec

-----------------------------------------------------------------------------
(* What the result of send means.  As long as nobody disturbs the call,    *)
(* the size says how the attempt went: it fits until the characteristic of *)
(* the peer is found, is 0 from then on while the write is under way and   *)
(* when it was acknowledged or lost its connection, and too large after    *)
(* any other failure; and the completion that send waits for is the one of *)
(* its own attempt.                                                        *)

(* The writes that were acknowledged or lost their connection. *)
Ended == written \cup lost

(* The connection of the attempt that runs. *)
Mine == link.call = calls /\ link.attempt = sender.attempt /\ link.at # "none"

Connecting == link.at \in {"connecting", "service", "characteristic"}

Polling ==
  /\ Mine /\ Connecting => cborSize = "fits" /\ cbor = calls
  /\ Mine /\ link.at = "writing" => cborSize = "zero" /\ link.data = calls
  /\ cborSize = "zero" => calls \in Ended \/ (Mine /\ link.at = "writing")
  /\ transmissionComplete \/ (host.at = "complete" /\ Mine)
       => cborSize = "tooLarge" \/ calls \in Ended

Progress ==
  /\ sender.at = "encoded" => cborSize = "fits"
  /\ sender.at = "connect" => cborSize = "fits" /\ cbor = calls /\ ~transmissionComplete
  /\ sender.at = "poll" => Polling
  /\ sender.at = "result" => (cborSize = "zero" => calls \in Ended)

SendInv ==
  /\ host.at = "complete" => link.at = "ending"
  /\ calls \notin disturbed => Progress
  /\ TrueMeansWritten

LEMMA SendInit == Init => SendInv
  BY DEF Init, PeersInit, Free, Idle, SendInv, Progress, TrueMeansWritten, Ended

(* NextAttempt leads out of every place where Progress says something.     *)
LEMMA NextAttemptRestarts ==
  ASSUME TypeInv, NextAttempt
  PROVE  sender'.at \in {"await", "idle"}
<1>1. sender.attempt + 1 < Attempts => sender' = [sender EXCEPT !.at = "await", !.attempt = @ + 1]
  BY DEF NextAttempt
<1>2. ~(sender.attempt + 1 < Attempts) => sender' = Idle
  BY DEF NextAttempt
<1>3. sender = [at |-> sender.at, attempt |-> sender.attempt, large |-> sender.large,
                dest |-> sender.dest]
  BY DEF TypeInv, TypeOK
<1>4. sender.attempt + 1 < Attempts => sender'.at = "await"
  BY <1>1, <1>3
<1>5. ~(sender.attempt + 1 < Attempts) => sender'.at = "idle"
  BY <1>2 DEF Idle
<1> QED BY <1>4, <1>5

LEMMA NoProgressNeeded ==
  ASSUME SendInv, sender'.at \in {"await", "idle"}, sent' \subseteq Ended' \cup disturbed',
         UNCHANGED <<host, link>>
  PROVE  SendInv'
  BY DEF SendInv, Progress, TrueMeansWritten, Ended

(* A late callback finds a call it disturbs, or one that is idle or waits  *)
(* for the buffer.                                                         *)
LEMMA LateDisturbs ==
  ASSUME TypeInv, Late, Disturbing(Late), calls' = calls, sender' = sender
  PROVE  calls' \notin disturbed' => Progress'
<1>1. sender # Idle => calls \in disturbed'
  BY DEF Disturbing
<1>2. sender = Idle => Progress'
  BY DEF Progress, Idle
<1> QED BY <1>1, <1>2

LEMMA DisturbingGrows ==
  ASSUME NEW late \in BOOLEAN, Disturbing(late)
  PROVE  disturbed \subseteq disturbed'
  BY DEF Disturbing

LEMMA SendNext == TypeInv /\ SendInv /\ [Next]_vars => SendInv'
<1> SUFFICES ASSUME TypeInv, SendInv, [Next]_vars PROVE SendInv'
  OBVIOUS
<1> USE DEF Ended
<1>0. /\ TypeOK /\ calls \in Nat /\ (sender.at # "idle" => sender # Idle /\ calls # 0)
      /\ sent \subseteq Ended \cup disturbed
      /\ (calls \notin disturbed => Progress)
      /\ (host.at = "complete" => link.at = "ending")
  BY SendAssumption DEF TypeInv, TypeOK, SendInv, TrueMeansWritten, Idle
<1>a. /\ sender = [at |-> sender.at, attempt |-> sender.attempt, large |-> sender.large,
                   dest |-> sender.dest]
      /\ link = [at |-> link.at, data |-> link.data, call |-> link.call, attempt |-> link.attempt]
      /\ Late \in BOOLEAN
  BY <1>0 DEF TypeOK, Late
<1>b. ASSUME UNCHANGED sendVars, host'.at = "complete" => host.at = "complete"
      PROVE  SendInv'
  BY <1>b, <1>0 DEF sendVars, shared, sendHistory, SendInv, Progress, Polling, Mine, Connecting,
     TrueMeansWritten
<1>1. CASE Listen /\ UNCHANGED sendVars
  <2>1. host'.at = "complete" => host.at = "complete"
    BY <1>1 DEF Listen, Discovery, discoveredPeer, PeerConnects, ListOldPeers, EraseOldPeers,
       ble_write_callback, QueueReceived, PeerLeaves, bundleReceiver, Tick, Free
  <2> QED BY <1>1, <1>b, <2>1
<1>2. ASSUME NEW p \in Peers, NEW large \in BOOLEAN, send(p, large), UNCHANGED peerVars
      PROVE  SendInv'
  <2>1. sender'.at \in {"await", "idle"} /\ UNCHANGED <<host, link, sent, Ended, disturbed>>
    BY <1>2 DEF send, peerVars, sendHistory, Idle
  <2> QED BY <1>0, <2>1, NoProgressNeeded
<1>3. CASE Encode /\ UNCHANGED peerVars
  <2>1. UNCHANGED <<host, link, sent, Ended, disturbed, calls>>
    BY <1>3 DEF Encode, peerVars, sendHistory
  <2>2. CASE sender.large
    BY <1>0, <1>3, <2>1, <2>2, NextAttemptRestarts, NoProgressNeeded DEF Encode
  <2>3. CASE ~sender.large
    <3>1. cborSize' = "fits" /\ sender'.at = "encoded"
      BY <1>3, <1>a, <2>3 DEF Encode
    <3> QED BY <1>0, <2>1, <3>1 DEF SendInv, Progress, TrueMeansWritten
  <2> QED BY <2>2, <2>3
<1>4. CASE CopyToBuffer /\ UNCHANGED peerVars
  <2>1. UNCHANGED <<host, link, sent, Ended, disturbed, calls, cborSize>>
    BY <1>4 DEF CopyToBuffer, peerVars, sendHistory
  <2>2. sender.at = "encoded" /\ sender'.at = "connect" /\ transmissionComplete' = FALSE
        /\ (cborSize = "fits" => cbor' = calls)
    BY <1>4, <1>a DEF CopyToBuffer
  <2> QED BY <1>0, <2>1, <2>2 DEF SendInv, Progress, TrueMeansWritten
<1>5. CASE AlreadyComplete /\ UNCHANGED peerVars
  <2>1. UNCHANGED <<host, link, sent, Ended, disturbed, calls>>
        /\ sender.at = "connect" /\ transmissionComplete
    BY <1>5 DEF AlreadyComplete, peerVars, sendHistory
  <2>2. calls \in disturbed
    BY <1>0, <2>1 DEF Progress
  <2> QED BY <1>0, <2>1, <2>2 DEF SendInv, TrueMeansWritten
<1>6. CASE Result /\ UNCHANGED peerVars
  <2>1. UNCHANGED <<host, link, Ended, disturbed, calls>> /\ sender.at = "result"
    BY <1>6 DEF Result, peerVars
  <2>2. CASE cborSize = "zero"
    <3>1. sender'.at = "idle" /\ sent' = sent \cup {calls}
      BY <1>6, <2>2 DEF Result, Idle
    <3>2. calls \in Ended \cup disturbed
      BY <1>0, <2>1, <2>2 DEF Progress
    <3> QED BY <1>0, <2>1, <3>1, <3>2, NoProgressNeeded
  <2>3. CASE cborSize # "zero"
    <3>1. NextAttempt /\ sent' = sent
      BY <1>6, <2>3 DEF Result
    <3> QED BY <1>0, <2>1, <3>1, NextAttemptRestarts, NoProgressNeeded
  <2> QED BY <2>2, <2>3
<1>7. ASSUME NEW timeout \in BOOLEAN, Poll(timeout), UNCHANGED peerVars PROVE SendInv'
  <2>1. UNCHANGED <<host, link, sent, Ended, disturbed, calls>> /\ sender.at = "poll"
        /\ sender'.at = "result"
        /\ (transmissionComplete \/ cborSize = "tooLarge" \/ timeout)
        /\ cborSize' = IF timeout THEN "tooLarge" ELSE cborSize
    BY <1>7, <1>a DEF Poll, peerVars, sendHistory
  <2>2. calls \notin disturbed => (cborSize' = "zero" => calls \in Ended)
    BY <1>0, <2>1 DEF Progress, Polling
  <2> QED BY <1>0, <2>1, <2>2 DEF SendInv, Progress, TrueMeansWritten
<1>8. ASSUME NEW accepted \in BOOLEAN, connect_to_peer(accepted),
             UNCHANGED <<time, peers, isAdvertising, visiting, host, receiveQueue>>
      PROVE  SendInv'
  <2>1. sender.at = "connect" /\ link.at \in {"none", "connecting"}
        /\ UNCHANGED <<cbor, transmissionComplete, calls, sent, Ended, disturbed, host>>
    BY <1>8 DEF connect_to_peer, sendHistory
  <2>2. CASE accepted
    <3>1. /\ link' = [at |-> "connecting", data |-> 0, call |-> calls, attempt |-> sender.attempt]
          /\ sender' = [sender EXCEPT !.at = "poll"] /\ UNCHANGED cborSize
      BY <1>8, <2>2 DEF connect_to_peer, NoLink
    <3>2. sender'.at = "poll" /\ link'.at = "connecting" /\ host'.at # "complete"
      BY <1>0, <1>a, <2>1, <3>1
    <3>3. calls \notin disturbed => Polling'
      BY <1>0, <2>1, <3>2, <3>1 DEF Progress, Polling, Mine, Connecting
    <3> QED BY <1>0, <2>1, <3>2, <3>3 DEF SendInv, Progress, TrueMeansWritten
  <2>3. CASE ~accepted
    <3>1. NextAttempt /\ UNCHANGED link
      BY <1>8, <2>3 DEF connect_to_peer
    <3> QED BY <1>0, <2>1, <3>1, NextAttemptRestarts, NoProgressNeeded
  <2> QED BY <2>2, <2>3
<1>9. ASSUME NEW ok \in BOOLEAN, NEW more \in BOOLEAN, Connected(ok, more) PROVE SendInv'
  <2>1. UNCHANGED <<host, shared, sender, calls, sendHistory>> /\ host.at = "free"
        /\ link.at = "connecting"
    BY <1>9 DEF Connected, Free
  <2>2. \/ link' = NoLink
        \/ link' = [link EXCEPT !.at = "service"]
        \/ link' = [link EXCEPT !.at = "open"]
    BY <1>9 DEF Connected
  <2>3. Polling => Polling'
    BY <1>a, <2>1, <2>2 DEF Polling, Mine, Connecting, NoLink, shared, sendHistory
  <2> QED BY <1>0, <2>1, <2>3 DEF SendInv, Progress, TrueMeansWritten, shared, sendHistory
<1>c. ASSUME Disturbing(Late) \/ disturbed' = disturbed, sent' = sent, Ended \subseteq Ended'
      PROVE  TrueMeansWritten' /\ disturbed \subseteq disturbed'
  BY <1>0, <1>a, <1>c, DisturbingGrows DEF TrueMeansWritten
<1>d. ASSUME Disturbing(Late), Late, calls' = calls, sender' = sender, sent' = sent,
             Ended \subseteq Ended', host'.at = "complete" => link'.at = "ending"
      PROVE  SendInv'
  BY <1>c, <1>d, LateDisturbs DEF SendInv
<1>10. ASSUME NEW ok \in BOOLEAN, NEW more \in BOOLEAN, ble_gattc_disc_svc_cb(ok, more)
       PROVE  SendInv'
  <2>1. UNCHANGED <<host, cbor, transmissionComplete, sender, calls, sent, Ended>>
        /\ host.at = "free" /\ link.at = "service"
    BY <1>10 DEF ble_gattc_disc_svc_cb, Free
  <2>2. \/ link' = [link EXCEPT !.at = "characteristic"] /\ UNCHANGED <<cborSize, disturbed>>
        \/ link' = [link EXCEPT !.at = "ending"] /\ UNCHANGED <<cborSize, disturbed>>
        \/ /\ link' = [link EXCEPT !.at = "ending"] /\ cborSize' = "tooLarge" /\ Disturbing(Late)
    BY <1>10 DEF ble_gattc_disc_svc_cb, Terminate
  <2>3. CASE UNCHANGED <<cborSize, disturbed>>
    <3>1. Polling => Polling'
      BY <1>a, <2>1, <2>2, <2>3 DEF Polling, Mine, Connecting
    <3> QED BY <1>0, <2>1, <2>3, <3>1 DEF SendInv, Progress, TrueMeansWritten
  <2>4. CASE link' = [link EXCEPT !.at = "ending"] /\ cborSize' = "tooLarge" /\ Disturbing(Late)
    <3>1. CASE Late
      BY <1>d, <2>1, <2>4, <3>1
    <3>2. CASE ~Late
      <4>1. sender'.at = "poll" /\ Polling'
        BY <1>a, <2>1, <2>4, <3>2 DEF Late, Polling, Mine, Connecting
      <4> QED BY <1>c, <2>1, <2>4, <4>1 DEF SendInv, Progress
    <3> QED BY <3>1, <3>2
  <2> QED BY <2>2, <2>3, <2>4
<1>11. ASSUME NEW ok \in BOOLEAN, NEW accepted \in BOOLEAN, ble_gattc_disc_chrc_cb(ok, accepted)
       PROVE  SendInv'
  <2>1. UNCHANGED <<host, cbor, transmissionComplete, sender, calls, sent, Ended>>
        /\ host.at = "free" /\ link.at = "characteristic"
    BY <1>11 DEF ble_gattc_disc_chrc_cb, Free
  <2>2. CASE ~ok
    <3>1. link' = [link EXCEPT !.at = "ending"] /\ UNCHANGED <<cborSize, disturbed>>
      BY <1>11, <2>2 DEF ble_gattc_disc_chrc_cb, Terminate
    <3>2. Polling => Polling'
      BY <1>a, <2>1, <3>1 DEF Polling, Mine, Connecting
    <3> QED BY <1>0, <2>1, <3>1, <3>2 DEF SendInv, Progress, TrueMeansWritten
  <2>3. CASE ok
    <3>1. /\ link' = IF accepted
                     THEN [link EXCEPT !.at = "writing",
                                       !.data = IF cborSize = "zero" THEN 0 ELSE cbor]
                     ELSE [link EXCEPT !.at = "refused"]
          /\ cborSize' = IF accepted THEN "zero" ELSE "tooLarge"
          /\ Disturbing(Late)
      BY <1>11, <2>3 DEF ble_gattc_disc_chrc_cb
    <3>2. CASE Late
      BY <1>d, <2>1, <3>1, <3>2
    <3>3. CASE ~Late
      <4>1. sender.at = "poll" /\ Mine
        BY <2>1, <3>3 DEF Late, Mine
      <4>2. calls \notin disturbed => Polling'
        <5>1. CASE accepted
          <6>1. calls \notin disturbed => cborSize = "fits" /\ cbor = calls
            BY <1>0, <2>1, <4>1 DEF Progress, Polling, Connecting
          <6>2. calls \notin disturbed => link' = [link EXCEPT !.at = "writing", !.data = calls]
            BY <3>1, <5>1, <6>1
          <6>3. calls \notin disturbed =>
                  link'.at = "writing" /\ link'.data = calls /\ link'.call = link.call
                  /\ link'.attempt = link.attempt
            BY <6>2, <1>a
          <6>4. calls \notin disturbed => (transmissionComplete => calls \in Ended)
            BY <1>0, <4>1, <6>1 DEF Progress, Polling
          <6>5. cborSize' = "zero"
            BY <3>1, <5>1
          <6> QED BY <2>1, <4>1, <6>3, <6>4, <6>5 DEF Polling, Mine, Connecting
        <5>2. CASE ~accepted
          <6>1. link' = [link EXCEPT !.at = "refused"] /\ cborSize' = "tooLarge"
            BY <3>1, <5>2
          <6> QED BY <1>a, <2>1, <6>1 DEF Polling, Mine, Connecting
        <5> QED BY <5>1, <5>2
      <4>3. TrueMeansWritten' /\ disturbed \subseteq disturbed'
        BY <1>c, <2>1, <3>1
      <4> QED BY <2>1, <4>1, <4>2, <4>3 DEF SendInv, Progress
    <3> QED BY <3>2, <3>3
  <2> QED BY <2>2, <2>3
<1>12. ASSUME NEW status \in {"answered", "notConnected", "failed"}, write_callback(status)
       PROVE  SendInv'
  <2>1. /\ link.at = "writing" /\ host.at = "free" /\ link' = [link EXCEPT !.at = "ending"]
        /\ cborSize' = IF status = "failed" THEN "tooLarge" ELSE "zero"
        /\ written \subseteq written' /\ lost \subseteq lost'
        /\ cborSize' = "zero" => {link.data} \ {0} \subseteq Ended'
        /\ Disturbing(Late)
        /\ UNCHANGED <<cbor, transmissionComplete, sender, calls, sent>>
    BY <1>12 DEF write_callback, Terminate, Free
  <2>2. link'.at = "ending" /\ link'.call = link.call /\ link'.attempt = link.attempt
    BY <1>a, <2>1
  <2>3. CASE Late
    BY <1>d, <2>1, <2>2, <2>3
  <2>4. CASE ~Late
    <3>1. sender.at = "poll" /\ Mine
      BY <2>1, <2>4 DEF Late, Mine
    <3>2. calls \notin disturbed => Polling'
      <4>1. calls \notin disturbed => link.data = calls
        BY <1>0, <2>1, <3>1 DEF Progress, Polling
      <4>2. calls \notin disturbed => (cborSize' = "zero" => calls \in Ended')
        BY <1>0, <2>1, <3>1, <4>1
      <4>3. Mine' /\ link'.at # "writing" /\ ~Connecting'
        BY <2>1, <2>2, <3>1 DEF Mine, Connecting
      <4> QED BY <2>1, <4>2, <4>3 DEF Polling
    <3>3. TrueMeansWritten' /\ disturbed \subseteq disturbed'
      BY <1>c, <2>1
    <3> QED BY <2>1, <2>2, <3>1, <3>2, <3>3 DEF SendInv, Progress
  <2> QED BY <2>3, <2>4
<1>13. CASE SetComplete
  <2>1. /\ host.at = "complete" /\ host'.at = "free" /\ transmissionComplete' = TRUE
        /\ Disturbing(Late)
        /\ UNCHANGED <<cborSize, cbor, sender, calls, link, sent, Ended>>
    BY <1>13 DEF SetComplete, Free
  <2>2. CASE Late
    BY <1>d, <2>1, <2>2
  <2>3. CASE ~Late
    <3>1. sender.at = "poll" /\ Mine /\ link.at = "ending"
      BY <1>0, <2>1, <2>3 DEF Late, Mine
    <3>2. calls \notin disturbed => Polling'
      <4>1. calls \notin disturbed => cborSize = "tooLarge" \/ calls \in Ended
        BY <1>0, <2>1, <3>1 DEF Progress, Polling
      <4> QED BY <2>1, <3>1, <4>1 DEF Polling, Mine, Connecting
    <3>3. TrueMeansWritten' /\ disturbed \subseteq disturbed'
      BY <1>c, <2>1
    <3> QED BY <2>1, <3>1, <3>2, <3>3 DEF SendInv, Progress
  <2> QED BY <2>2, <2>3
<1>14. ASSUME NEW place \in {"open", "ending"}, Disconnected(place) PROVE SendInv'
  <2>1. UNCHANGED <<host, shared, sender, calls, sendHistory>> /\ host.at = "free"
        /\ link.at \in {"open", "ending"} /\ link' = NoLink
    BY <1>14 DEF Disconnected, Free
  <2>2. Polling => Polling'
    BY <2>1 DEF Polling, Mine, Connecting, NoLink, shared, sendHistory
  <2> QED BY <1>0, <2>1, <2>2 DEF SendInv, Progress, TrueMeansWritten, shared, sendHistory
<1>17. CASE DiscoveryDone
  <2>1. UNCHANGED <<host, shared, sender, calls, sendHistory>> /\ host.at = "free"
        /\ link.at = "refused" /\ link' = [link EXCEPT !.at = "ending"]
    BY <1>17 DEF DiscoveryDone, Terminate, Free
  <2>2. Polling => Polling'
    BY <1>a, <2>1 DEF Polling, Mine, Connecting, shared, sendHistory
  <2> QED BY <1>0, <2>1, <2>2 DEF SendInv, Progress, TrueMeansWritten, shared, sendHistory
<1>15. CASE switchScanAdvertise
  <2>1. /\ UNCHANGED <<host, cbor, transmissionComplete, sender, calls, link, sent, Ended>>
        /\ cborSize' = "zero"
        /\ disturbed' = IF cborSize # "zero" /\ sender.at \notin {"idle", "await"}
                        THEN disturbed \cup {calls} ELSE disturbed
    BY <1>15 DEF switchScanAdvertise, SwitchRadio
  <2>2. CASE cborSize # "zero" /\ sender.at \notin {"idle", "await"}
    BY <1>0, <2>1, <2>2 DEF SendInv, TrueMeansWritten
  <2>3. CASE cborSize = "zero"
    BY <1>0, <2>1, <2>3 DEF SendInv, Progress, Polling, Mine, Connecting, TrueMeansWritten
  <2>4. CASE sender.at \in {"idle", "await"}
    BY <1>0, <2>1, <2>4 DEF SendInv, Progress, TrueMeansWritten
  <2> QED BY <2>2, <2>3, <2>4
<1>16. CASE UNCHANGED vars
  BY <1>16, <1>b DEF vars, peerVars
<1> QED BY <1>1, <1>2, <1>3, <1>4, <1>5, <1>6, <1>7, <1>8, <1>9, <1>10, <1>11, <1>12, <1>13,
           <1>14, <1>15, <1>16, <1>17 DEF Next, SendStep, LinkCallback

(* Whatever the callbacks, the peers and the radio do: if nobody disturbed *)
(* a call of send that returns true, the write of its bundle was           *)
(* acknowledged, or under way when the connection was lost.                *)
THEOREM TrueIsWritten == Spec => []TrueMeansWritten
<1>1. SendInv => TrueMeansWritten
  BY DEF SendInv
<1>2. Init => TypeInv /\ SendInv
  BY TypeInit, SendInit
<1>3. TypeInv /\ SendInv /\ [Next]_vars => (TypeInv /\ SendInv)'
  BY TypeNext, SendNext
<1> QED BY <1>1, <1>2, <1>3, PTL DEF Spec

-----------------------------------------------------------------------------
(* What cleanPeersTask removes.  An entry it listed was too old then, and  *)
(* is older now, unless it was entered anew or its time had been cut.      *)

PeerInv ==
  /\ ~cleaning.busy => cleaning.remove = {}
  /\ \A p \in Peers : seen[p] <= time /\ last_seen[p] = seen[p] % Wrap
  /\ \A p \in cleaning.remove \ refreshed : time - seen[p] > MaxAge \/ seen[p] >= Wrap

LEMMA PeerInit == Init => PeerInv
<1> SUFFICES ASSUME Init PROVE PeerInv
  OBVIOUS
<1>1. 0 % Wrap = 0
  BY PeersAssumption
<1> QED BY <1>1 DEF Init, PeersInit, NotCleaning, PeerInv

LEMMA PeerNext == TypeInv /\ PeerInv /\ [Next]_vars => PeerInv'
<1> SUFFICES ASSUME TypeInv, PeerInv, [Next]_vars PROVE PeerInv'
  OBVIOUS
<1>0. /\ time \in Nat /\ seen \in [Peers -> Nat] /\ last_seen \in [Peers -> 0 .. Wrap - 1]
      /\ currentPeers \subseteq Peers /\ cleaning.remove \subseteq Peers
      /\ Wrap \in Nat \ {0} /\ MaxAge \in Nat
  BY PeersAssumption DEF TypeInv, TypeOK, PeersTypeOK
<1>1. CASE UNCHANGED <<time, peers>>
  BY <1>1 DEF PeerInv, peers
<1>2. ASSUME NEW p \in Peers, discoveredPeer(p) PROVE PeerInv'
  <2>1. /\ last_seen' = [last_seen EXCEPT ![p] = time % Wrap]
        /\ seen' = [seen EXCEPT ![p] = time]
        /\ refreshed' = IF cleaning.busy THEN refreshed \cup {p} ELSE {}
        /\ UNCHANGED <<time, cleaning>>
    BY <1>2 DEF discoveredPeer
  <2>2. \A q \in Peers : seen'[q] <= time /\ last_seen'[q] = seen'[q] % Wrap
    BY <1>0, <2>1 DEF PeerInv
  <2>3. \A q \in cleaning.remove \ refreshed' : seen'[q] = seen[q] /\ q \notin refreshed
    BY <1>0, <2>1 DEF PeerInv
  <2> QED BY <2>1, <2>2, <2>3 DEF PeerInv
<1>3. CASE ListOldPeers
  <2>1. /\ cleaning' = [busy |-> TRUE,
                        remove |-> {p \in currentPeers : time - last_seen[p] > MaxAge}]
        /\ UNCHANGED <<time, last_seen, seen>>
    BY <1>3 DEF ListOldPeers
  <2>2. ASSUME NEW p \in cleaning'.remove PROVE time - seen[p] > MaxAge \/ seen[p] >= Wrap
    <3>1. p \in Peers /\ time - last_seen[p] > MaxAge /\ last_seen[p] = seen[p] % Wrap
      BY <1>0, <2>1, <2>2 DEF PeerInv
    <3>2. seen[p] \in Nat /\ (seen[p] < Wrap => seen[p] % Wrap = seen[p])
      BY <1>0, <3>1
    <3> QED BY <1>0, <3>1, <3>2
  <2> QED BY <2>1, <2>2 DEF PeerInv
<1>4. CASE EraseOldPeers
  BY <1>4 DEF EraseOldPeers, NotCleaning, PeerInv
<1>5. CASE Tick
  <2>1. time' = time + 1 /\ UNCHANGED peers
    BY <1>5 DEF Tick
  <2>2. \A p \in Peers : seen[p] \in Nat /\ (time - seen[p] > MaxAge => time' - seen[p] > MaxAge)
                         /\ (seen[p] <= time => seen[p] <= time')
    BY <1>0, <2>1
  <2> QED BY <1>0, <2>1, <2>2 DEF PeerInv, peers
<1>6. Listen => \/ UNCHANGED <<time, peers>> \/ ListOldPeers \/ EraseOldPeers \/ Tick
                \/ \E p \in Peers : discoveredPeer(p)
  BY DEF Listen, Discovery, PeerConnects, ble_write_callback, QueueReceived, PeerLeaves, bundleReceiver
<1>7. Listen \/ UNCHANGED <<time, peers>>
  BY DEF Next, SendStep, LinkCallback, Connected, ble_gattc_disc_svc_cb, ble_gattc_disc_chrc_cb,
     DiscoveryDone, write_callback, SetComplete, Disconnected, switchScanAdvertise, SwitchRadio, others,
     peerVars, vars
<1> QED BY <1>1, <1>2, <1>3, <1>4, <1>5, <1>6, <1>7

(* cleanPeersTask removes only peers that were not seen within the maximum *)
(* age, that were seen again between its check and its erase, or whose     *)
(* time had been cut to 32 bits.                                           *)
THEOREM FreshPeersAreKept == Spec => FreshPeersStay
<1>1. TypeInv /\ PeerInv /\ [Next]_vars
        => [\A p \in currentPeers \ currentPeers' :
              \/ time - seen[p] > MaxAge
              \/ p \in refreshed
              \/ seen[p] >= Wrap]_peerVars
  <2> SUFFICES ASSUME TypeInv, PeerInv, [Next]_vars
               PROVE  \A p \in currentPeers \ currentPeers' :
                        time - seen[p] > MaxAge \/ p \in refreshed \/ seen[p] >= Wrap
    OBVIOUS
  <2>1. currentPeers' = currentPeers \/ (\E p \in Peers : discoveredPeer(p)) \/ EraseOldPeers
    BY DEF Next, Listen, Discovery, PeerConnects, ble_write_callback, QueueReceived, PeerLeaves,
       bundleReceiver, ListOldPeers, Tick, SendStep, LinkCallback, Connected,
       ble_gattc_disc_svc_cb, ble_gattc_disc_chrc_cb, DiscoveryDone, write_callback, SetComplete, Disconnected,
       switchScanAdvertise, SwitchRadio, send, others, peerVars, peers, vars
  <2>2. CASE EraseOldPeers
    BY <2>2 DEF EraseOldPeers, PeerInv
  <2>3. CASE \E p \in Peers : discoveredPeer(p)
    BY <2>3 DEF discoveredPeer
  <2> QED BY <2>1, <2>2, <2>3
<1>2. Init => TypeInv /\ PeerInv
  BY TypeInit, PeerInit
<1>3. TypeInv /\ PeerInv /\ [Next]_vars => (TypeInv /\ PeerInv)'
  BY TypeNext, PeerNext
<1> QED BY <1>1, <1>2, <1>3, PTL DEF Spec, FreshPeersStay

=============================================================================
