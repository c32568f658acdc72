-------------------------- MODULE EndpointRegistry --------------------------
(***************************************************************************)
(* The endpoints registered with the Bundle Protocol Agent, what they      *)
(* buffer and whom they call.  bundleReceiver delivers bundles while an    *)
(* application task registers, unregisters and polls endpoints and changes *)
(* their callbacks; nothing here takes a mutex.                            *)
(*                                                                         *)
(* Both std::vectors are modelled as they are in memory, because two tasks *)
(* work on them at once: registeredEndpoints by its slots (its capacity)   *)
(* and its size, a bundleBuffer by its cells and its count.  An iterator   *)
(* is an index; it is of no use any more when the vector grew and moved.   *)
(***************************************************************************)
EXTENDS Naturals, Sequences, FiniteSets

CONSTANTS
  Endpoints,  \* endpoint objects of the application
  Uris,       \* URIs of endpoints and destinations of bundles
  Uri,        \* Uri[e]: localEID of e
  Valid,      \* the endpoints whose localEID is valid
  Changing,   \* endpoints that may have a callback, set and cleared at will
  Null,       \* a slot or cell that was never used
  MaxBundles, \* bound on the bundles delivered
  MaxChanges  \* bound on registrations and unregistrations

ASSUME RegistryAssumption ==
  /\ Uri \in [Endpoints -> Uris]
  /\ Valid \subseteq Endpoints /\ Changing \subseteq Endpoints
  /\ Null \notin Endpoints
  /\ MaxBundles \in Nat /\ MaxChanges \in Nat

VARIABLES
  slots, size,        \* registeredEndpoints: memory and number of elements
  BPA,                \* whether the BPA pointer of an endpoint is set
  hasCallback,        \* per endpoint
  onReceive,          \* per endpoint: "cb", "null" or "garbage"
  cells, count,       \* bundleBuffer of each endpoint: memory and elements
  receiver,           \* localBundleDelivery: where it is, its local variables
  app,                \* the application task: the call it is in
  bundles,            \* bundles handed to localBundleDelivery so far
  changes,            \* changes of the registry so far
  through,            \* history: registered since this delivery began
  erasures,           \* history: endpoints erased during this delivery
  got,                \* history: how often each endpoint got this bundle
  appended, polled,   \* history: bundles an endpoint buffered and gave out
  overlapped,         \* history: poll and delivery were in one buffer at once
  fault               \* the undefined behaviour the node ran into, if any

registry == <<slots, size, BPA, changes>>
callbacks == <<hasCallback, onReceive>>
buffers == <<cells, count>>
loopHistory == <<through, erasures, got>>
bufferHistory == <<appended, polled, overlapped>>
vars == <<registry, callbacks, buffers, receiver, app, bundles, loopHistory,
          bufferHistory, fault>>

Registered == {slots[i] : i \in 1 .. size}

Waiting == [at |-> "idle"]
Loop == [at : {"loop", "test", "call", "append", "grow"}, dest : Uris,
         index : Nat, last : Nat, ep : Endpoints \cup {Null}, count : Nat,
         freed : BOOLEAN]
Free == [op |-> "none"]
AppCall == [op : {"set", "clear", "poll", "shrink"}, ep : Endpoints, count : Nat]

TypeOK ==
  /\ slots \in Seq(Endpoints \cup {Null}) /\ size \in 0 .. Len(slots)
  /\ Null \notin Registered
  /\ BPA \in [Endpoints -> BOOLEAN]
  /\ hasCallback \in [Endpoints -> BOOLEAN]
  /\ onReceive \in [Endpoints -> {"cb", "null", "garbage"}]
  /\ cells \in [Endpoints -> Seq(1 .. MaxBundles)]
  /\ count \in [Endpoints -> Nat]
  /\ \A e \in Endpoints : count[e] <= Len(cells[e])
  /\ receiver \in Loop \cup {Waiting}
  /\ app \in AppCall \cup {Free}
  /\ bundles \in 0 .. MaxBundles /\ changes \in 0 .. MaxChanges
  /\ through \subseteq Endpoints /\ erasures \in 0 .. MaxChanges
  /\ got \in [Endpoints -> Nat]
  /\ fault \in {"none", "callback", "freed vector"}

(* Some endpoints are created with a callback, the others leave the        *)
(* pointer uninitialized.                                                  *)
Init ==
  /\ slots = <<>> /\ size = 0
  /\ BPA = [e \in Endpoints |-> FALSE]
  /\ hasCallback \in {f \in [Endpoints -> BOOLEAN] : \A e \in Endpoints : f[e] => e \in Changing}
  /\ onReceive = [e \in Endpoints |-> IF hasCallback[e] THEN "cb" ELSE "garbage"]
  /\ cells = [e \in Endpoints |-> <<>>]
  /\ count = [e \in Endpoints |-> 0]
  /\ receiver = Waiting /\ app = Free
  /\ bundles = 0 /\ changes = 0
  /\ through = {} /\ erasures = 0 /\ got = [e \in Endpoints |-> 0]
  /\ appended = [e \in Endpoints |-> <<>>] /\ polled = [e \in Endpoints |-> <<>>]
  /\ overlapped = {}
  /\ fault = "none"

(* After undefined behaviour nothing is known of the node. *)
NoFault == fault = "none" /\ UNCHANGED fault

-----------------------------------------------------------------------------
(* BundleProtocolAgent::localBundleDelivery, in bundleReceiver             *)

StartDelivery(dest) ==
  /\ receiver = Waiting
  /\ bundles < MaxBundles
  /\ bundles' = bundles + 1
  /\ receiver' = [at |-> "loop", dest |-> dest, index |-> 1, last |-> size,
                  ep |-> Null, count |-> 0, freed |-> FALSE]
  /\ through' = Registered
  /\ UNCHANGED <<registry, callbacks, buffers, app, erasures, got, bufferHistory>>
  /\ NoFault

(* Faulty: steps over a slot after a match. *)
FaultyNextEndpoint ==
  /\ receiver.at = "loop" /\ receiver.index <= receiver.last /\ ~receiver.freed
  /\ receiver' =
       IF Uri[slots[receiver.index]] = receiver.dest
       THEN [receiver EXCEPT !.at = "test", !.ep = slots[receiver.index],
                             !.index = @ + 2]
       ELSE [receiver EXCEPT !.index = @ + 1]
  /\ UNCHANGED <<registry, callbacks, buffers, app, bundles, loopHistory,
                 bufferHistory>>
  /\ NoFault

(* The loop goes on to the next slot, up to the last there was at first.   *)
NextEndpoint ==
  /\ receiver.at = "loop" /\ receiver.index <= receiver.last /\ ~receiver.freed
  /\ receiver' =
       IF Uri[slots[receiver.index]] = receiver.dest
       THEN [receiver EXCEPT !.at = "test", !.ep = slots[receiver.index],
                             !.index = @ + 1]
       ELSE [receiver EXCEPT !.index = @ + 1]
  /\ UNCHANGED <<registry, callbacks, buffers, app, bundles, loopHistory,
                 bufferHistory>>
  /\ NoFault

(* The vector moved to a larger block: what the loop reads is freed.       *)
ReadFreedVector ==
  /\ receiver.at = "loop" /\ receiver.index <= receiver.last /\ receiver.freed
  /\ fault = "none" /\ fault' = "freed vector"
  /\ UNCHANGED <<registry, callbacks, buffers, receiver, app, bundles,
                 loopHistory, bufferHistory>>

EndDelivery ==
  /\ receiver.at = "loop" /\ receiver.index > receiver.last
  /\ receiver' = Waiting
  /\ through' = {} /\ erasures' = 0 /\ got' = [e \in Endpoints |-> 0]
  /\ UNCHANGED <<registry, callbacks, buffers, app, bundles, bufferHistory>>
  /\ NoFault

(* Endpoint::localBundleDelivery: callback or buffer?                      *)
TestCallback ==
  /\ receiver.at = "test"
  /\ receiver' = [receiver EXCEPT
                    !.at = IF hasCallback[receiver.ep] THEN "call" ELSE "append"]
  /\ got' = [got EXCEPT ![receiver.ep] = @ + 1]
  /\ UNCHANGED <<registry, callbacks, buffers, app, bundles, through, erasures,
                 bufferHistory>>
  /\ NoFault

CallCallback ==
  /\ receiver.at = "call"
  /\ IF onReceive[receiver.ep] = "cb"
     THEN /\ receiver' = [receiver EXCEPT !.at = "loop", !.ep = Null]
          /\ UNCHANGED fault
     ELSE UNCHANGED receiver /\ fault' = "callback"
  /\ fault = "none"
  /\ UNCHANGED <<registry, callbacks, buffers, app, bundles, loopHistory, bufferHistory>>

(* The cell a vector with n elements writes next. *)
Put(s, n, b) == IF n < Len(s) THEN [s EXCEPT ![n + 1] = b] ELSE Append(s, b)

(* push_back writes the new element after the last one ...                 *)
AppendElement ==
  LET e == receiver.ep IN
  /\ receiver.at = "append"
  /\ cells' = [cells EXCEPT ![e] = Put(@, count[e], bundles)]
  /\ receiver' = [receiver EXCEPT !.at = "grow", !.count = count[e]]
  /\ appended' = [appended EXCEPT ![e] = Append(@, bundles)]
  /\ overlapped' = IF app.op = "shrink" /\ app.ep = e THEN overlapped \cup {e}
                   ELSE overlapped
  /\ UNCHANGED <<registry, callbacks, count, app, bundles, loopHistory, polled>>
  /\ NoFault

(* ... and then moves the end of the vector behind it.                     *)
AppendEnd ==
  LET e == receiver.ep IN
  /\ receiver.at = "grow"
  /\ count' = [count EXCEPT ![e] = receiver.count + 1]
  /\ receiver' = [receiver EXCEPT !.at = "loop", !.ep = Null, !.count = 0]
  /\ UNCHANGED <<registry, callbacks, cells, app, bundles, loopHistory,
                 bufferHistory>>
  /\ NoFault

Deliver ==
  \/ \E dest \in Uris : StartDelivery(dest)
  \/ NextEndpoint
  \/ ReadFreedVector
  \/ EndDelivery
  \/ TestCallback
  \/ CallCallback
  \/ AppendElement
  \/ AppendEnd

-----------------------------------------------------------------------------
(* BundleProtocolAgent::registerEndpoint.  An endpoint without a valid EID *)
(* gets the BPA pointer and nothing else; the same object is not entered   *)
(* twice.  A full vector moves to a block of twice the size.               *)
registerEndpoint(e) ==
  /\ app = Free /\ changes < MaxChanges
  /\ changes' = changes + 1
  /\ BPA' = [BPA EXCEPT ![e] = TRUE]
  /\ IF e \in Valid /\ e \notin Registered
     THEN /\ slots' = IF size < Len(slots) THEN [slots EXCEPT ![size + 1] = e]
                      ELSE slots \o <<e>> \o [i \in 1 .. size - 1 |-> Null]
          /\ size' = size + 1
          /\ receiver' = IF size = Len(slots) /\ receiver # Waiting
                         THEN [receiver EXCEPT !.freed = TRUE] ELSE receiver
     ELSE UNCHANGED <<slots, size, receiver>>
  /\ UNCHANGED <<callbacks, buffers, app, bundles, loopHistory, bufferHistory>>
  /\ NoFault

(* Faulty: takes the first endpoint, whatever its URI. *)
FaultyIsFirstWithUri(i, e) == i = 1

(* The first registered endpoint with the URI of e. *)
IsFirstWithUri(i, e) ==
  /\ Uri[slots[i]] = Uri[e]
  /\ \A j \in 1 .. i - 1 : Uri[slots[j]] # Uri[e]

(* erase moves the elements behind position i; the last slot keeps its     *)
(* value but is no longer part of the vector.                              *)
EraseSlot(i) ==
  /\ slots' = [j \in DOMAIN slots |-> IF j \in i .. size - 1 THEN slots[j + 1]
                                      ELSE slots[j]]
  /\ size' = size - 1
  /\ through' = through \ {slots[i]}
  /\ erasures' = IF receiver = Waiting THEN erasures ELSE erasures + 1

(* BundleProtocolAgent::unregisterEndpoint                                 *)
Unregister(e) ==
  /\ app = Free /\ changes < MaxChanges
  /\ changes' = changes + 1
  /\ \E i \in 1 .. size : IsFirstWithUri(i, e) /\ EraseSlot(i)
  /\ BPA' = [BPA EXCEPT ![e] = FALSE]
  /\ UNCHANGED <<callbacks, buffers, receiver, app, bundles, got, bufferHistory>>
  /\ NoFault

(* DTN7::unregisterEndpoint: by pointer, if its BPA pointer is set, or by  *)
(* URI, which is the first registered endpoint that has it.                *)
unregisterEndpoint(e) ==
  /\ BPA[e] \/ \E i \in 1 .. size : slots[i] = e /\ IsFirstWithUri(i, e)
  /\ Unregister(e)

-----------------------------------------------------------------------------
(* Endpoint::setCallback and clearCallback assign the flag first and the   *)
(* pointer in a second step.                                               *)
BeginCallbackChange(e, op) ==
  /\ app = Free
  /\ hasCallback' = [hasCallback EXCEPT ![e] = (op = "set")]
  /\ app' = [op |-> op, ep |-> e, count |-> 0]
  /\ UNCHANGED <<registry, onReceive, buffers, receiver, bundles, loopHistory,
                 bufferHistory>>
  /\ NoFault

EndCallbackChange ==
  /\ app.op \in {"set", "clear"}
  /\ onReceive' = [onReceive EXCEPT ![app.ep] = IF app.op = "set" THEN "cb" ELSE "null"]
  /\ app' = Free
  /\ UNCHANGED <<registry, hasCallback, buffers, receiver, bundles, loopHistory,
                 bufferHistory>>
  /\ NoFault

(* Faulty: gives out the newest bundle. *)
FaultyPollFront(e) ==
  /\ app = Free
  /\ ~hasCallback[e] /\ count[e] > 0
  /\ polled' = [polled EXCEPT ![e] = Append(@, cells[e][count[e]])]
  /\ app' = [op |-> "shrink", ep |-> e, count |-> count[e]]
  /\ UNCHANGED <<registry, callbacks, cells, count, receiver, bundles, loopHistory,
                 appended, overlapped>>
  /\ NoFault

(* Endpoint::poll: the first bundle is copied and moved over by the        *)
(* others ...                                                              *)
PollFront(e) ==
  /\ app = Free
  /\ ~hasCallback[e] /\ count[e] > 0
  /\ polled' = [polled EXCEPT ![e] = Append(@, cells[e][1])]
  /\ cells' = [cells EXCEPT ![e] = [i \in DOMAIN @ |-> IF i < count[e] THEN @[i + 1]
                                                       ELSE @[i]]]
  /\ app' = [op |-> "shrink", ep |-> e, count |-> count[e]]
  /\ overlapped' = IF receiver.at = "grow" /\ receiver.ep = e
                   THEN overlapped \cup {e} ELSE overlapped
  /\ UNCHANGED <<registry, callbacks, count, receiver, bundles, loopHistory,
                 appended>>
  /\ NoFault

(* ... and the end of the vector is moved back.                            *)
PollEnd ==
  /\ app.op = "shrink"
  /\ count' = [count EXCEPT ![app.ep] = app.count - 1]
  /\ app' = Free
  /\ UNCHANGED <<registry, callbacks, cells, receiver, bundles, loopHistory,
                 bufferHistory>>
  /\ NoFault

Application ==
  \/ \E e \in Endpoints : registerEndpoint(e) \/ unregisterEndpoint(e) \/ PollFront(e)
  \/ \E e \in Changing, op \in {"set", "clear"} : BeginCallbackChange(e, op)
  \/ EndCallbackChange
  \/ PollEnd

Next == Deliver \/ Application

Spec == Init /\ [][Next]_vars

-----------------------------------------------------------------------------
(* No endpoint is registered twice, and one whose URI no other endpoint    *)
(* has is registered exactly while its BPA pointer is set: it can send if  *)
(* and only if it can receive (registerEndpoint, unregisterEndpoint).      *)
RegistryConsistent ==
  /\ \A i, j \in 1 .. size : slots[i] = slots[j] => i = j
  /\ \A e \in Valid : (\A f \in Endpoints \ {e} : Uri[f] # Uri[e])
                        => (e \in Registered <=> BPA[e])

(* An endpoint that is unregistered while a bundle is being delivered      *)
(* makes the loop skip at most one other endpoint and visit at most one    *)
(* twice or too late; without that, every endpoint with the destination's  *)
(* URI that stays registered gets the bundle exactly once                  *)
(* (localBundleDelivery).                                                  *)
ErasureCostsOne ==
  LET meant == {e \in through : Uri[e] = receiver.dest}
      done == receiver.at = "loop" /\ receiver.index > receiver.last IN
  /\ \A e \in Endpoints : got[e] <= 1 + erasures
  /\ Cardinality({e \in Endpoints : got[e] > 1}) <= erasures
  /\ done => Cardinality({e \in meant : got[e] = 0}) <= erasures

(* Unless poll and a delivery worked on a buffer at the same time, an      *)
(* endpoint hands out the bundles it buffered once each and in order, also *)
(* across times in which it has a callback (poll, setCallback).            *)
Kept(e) == SubSeq(cells[e], 1, count[e])
BuffersInOrder ==
  \A e \in Endpoints \ overlapped :
    LET settled == ~(receiver.at = "grow" /\ receiver.ep = e)
                     /\ ~(app.op = "shrink" /\ app.ep = e) IN
    settled => appended[e] = polled[e] \o Kept(e)

=============================================================================
