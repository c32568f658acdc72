---------------------------- MODULE BundleAgent ----------------------------
(***************************************************************************)
(* The Bundle Protocol Agent of one node: the tasks bundleReceiver,        *)
(* bundleForwarder and retryBundles, the two FreeRTOS queues between them, *)
(* and the InMemoryStorage they share.                                     *)
(*                                                                         *)
(*   CLAs, Endpoint::send --> receiveQueue --> bundleReceiver              *)
(*        --> forwardQueue --> bundleForwarder --> storage                 *)
(*        --> retryBundles --> forwardQueue                                *)
(*                                                                         *)
(* Every xQueueSend waits without a limit (portMAX_DELAY): it is an action *)
(* whose guard is a free slot.  The decisions the agent takes from the     *)
(* contents of a bundle (hop limit, lifetime, unsupported block) and from  *)
(* the router are nondeterministic here.  The peer table, which            *)
(* bundleReceiver and retryBundles also maintain, is not part of this      *)
(* module.                                                                 *)
(***************************************************************************)
EXTENDS InMemoryStorage

CONSTANTS
  Local,        \* bundles whose destination is a registered endpoint
  Reply,        \* Reply[b]: the bundle the callback for b sends, if it does
  Expiring,     \* bundles whose lifetime may run out while the node has them
  Cancellable,  \* bundles the application may cancel
  RecvCap,      \* CONFIG_ReceiveQueueSize
  FwdCap,       \* CONFIG_ForwardQueueSize
  MaxArrivals   \* bound: how many bundles CLAs and applications hand over

ASSUME AgentAssumption ==
  /\ Local \subseteq Bundles
  /\ DOMAIN Reply \subseteq Local
  /\ \A b \in DOMAIN Reply : Reply[b] \in Bundles
  /\ Expiring \subseteq Bundles
  /\ Cancellable \subseteq Bundles
  /\ RecvCap \in Nat \ {0}
  /\ FwdCap \in Nat \ {0}
  /\ MaxArrivals \in Nat

VARIABLES
  arrivals,      \* bundles handed over so far
  receiveQueue,  \* ReceivedBundle* waiting for bundleReceiver
  receiverAt,    \* where bundleReceiver is in handling a bundle
  receiving,     \* the bundle it handles, as a sequence of at most one
  forwardQueue,  \* BundleInfo* waiting for bundleForwarder
  forwarderAt,   \* where bundleForwarder is in handling a bundle
  forwarding,    \* the bundle it handles, as a sequence of at most one
  retrierAt,     \* whether retryBundles is inside a retry cycle
  retrying,      \* the rest of the batch it works on (toRetry)
  delivered,     \* history: how often a bundle was delivered locally
  outcome,       \* history: why the node no longer has a bundle
  cycleRest,     \* history: stored when the cycle began, still due in it
  fault          \* the undefined behaviour the node ran into, if any

receiverVars == <<receiverAt, receiving>>
forwarderVars == <<forwarderAt, forwarding>>
retrierVars == <<retrierAt, retrying>>
agentVars == <<arrivals, receiveQueue, forwardQueue, receiverVars, forwarderVars,
               retrierVars>>
historyVars == <<delivered, outcome, cycleRest>>
vars == <<storageVars, agentVars, historyVars, fault>>

Outcomes == {"none", "refused", "forwarded", "expired", "depleted", "cancelled"}

Faults == {"none", "getBundlesRetry on empty list", "deleteOldest on empty list"}

QueueTypeOK ==
  /\ arrivals \in 0 .. MaxArrivals
  /\ receiveQueue \in Seq(Entry) /\ Len(receiveQueue) <= RecvCap
  /\ forwardQueue \in Seq(Entry) /\ Len(forwardQueue) <= FwdCap

ReceiverTypeOK ==
  /\ receiverAt \in {"idle", "deliver", "reply", "dispatch"}
  /\ receiving \in Seq(Entry)
  /\ Len(receiving) = IF receiverAt = "idle" THEN 0 ELSE 1
  /\ receiverAt = "reply" => receiving[1].id \in DOMAIN Reply

ForwarderTypeOK ==
  /\ forwarderAt \in {"idle", "route", "evict", "insert"}
  /\ forwarding \in Seq(Entry)
  /\ Len(forwarding) = IF forwarderAt = "idle" THEN 0 ELSE 1

RetrierTypeOK ==
  /\ retrierAt \in {"sleep", "cycle"}
  /\ retrying \in Seq(Entry) /\ Len(retrying) <= BatchSize
  /\ retrying # <<>> => retrierAt = "cycle"

HistoryTypeOK ==
  /\ delivered \in [Bundles -> Nat]
  /\ outcome \in [Bundles -> Outcomes]
  /\ cycleRest \subseteq Bundles
  /\ fault \in Faults

TypeOK ==
  /\ StorageTypeOK
  /\ QueueTypeOK
  /\ ReceiverTypeOK
  /\ ForwarderTypeOK
  /\ RetrierTypeOK
  /\ HistoryTypeOK

Init ==
  /\ StorageInit
  /\ arrivals = 0
  /\ receiveQueue = <<>> /\ receiverAt = "idle" /\ receiving = <<>>
  /\ forwardQueue = <<>> /\ forwarderAt = "idle" /\ forwarding = <<>>
  /\ retrierAt = "sleep" /\ retrying = <<>>
  /\ delivered = [b \in Bundles |-> 0]
  /\ outcome = [b \in Bundles |-> "none"]
  /\ cycleRest = {}
  /\ fault = "none"

(* After undefined behaviour nothing is known of the node: no action is    *)
(* possible any more.                                                      *)
NoFault == fault = "none" /\ UNCHANGED fault

(* bundleDeletion and the deletion after success: the node lets go of b. *)
bundleDeletion(b, reason) == outcome' = [outcome EXCEPT ![b] = reason]

-----------------------------------------------------------------------------
(* Producers: a CLA task (LoRa, BLE, pollClas) or an application calling   *)
(* Endpoint::send puts a bundle into the receiveQueue.  The same bundle    *)
(* may arrive again and again.  receivedAt is set when the bundle object   *)
(* is built, any time before it enters the queue.                          *)

Arrive(e) ==
  /\ arrivals < MaxArrivals
  /\ Len(receiveQueue) < RecvCap
  /\ arrivals' = arrivals + 1
  /\ receiveQueue' = Append(receiveQueue, e)
  /\ UNCHANGED <<storageVars, receiverVars, forwardQueue, forwarderVars,
                 retrierVars, historyVars>>
  /\ NoFault

-----------------------------------------------------------------------------
(* The bundleReceiver task.                                                *)

TakeReceived ==
  /\ receiverAt = "idle"
  /\ receiveQueue # <<>>
  /\ receiveQueue' = Tail(receiveQueue)

(* A bundle ID seen before: the bundle is deleted as a duplicate. *)
DiscardDuplicate ==
  /\ TakeReceived
  /\ checkSeen(Head(receiveQueue).id)
  /\ UNCHANGED <<storageVars, arrivals, receiverVars, forwardQueue,
                 forwarderVars, retrierVars, historyVars>>
  /\ NoFault

(* bundleReception deletes the bundle: unsupported block, hop limit, age. *)
RefuseBundle ==
  LET b == Head(receiveQueue).id IN
  /\ TakeReceived
  /\ ~checkSeen(b)
  /\ storeSeen(b)
  /\ bundleDeletion(b, "refused")
  /\ UNCHANGED <<bundles, bundlesToReturn, arrivals, receiverVars,
                 forwardQueue, forwarderVars, retrierVars, delivered,
                 cycleRest>>
  /\ NoFault

(* bundleReception finds nothing wrong and goes on to bundleDispatching. *)
AcceptBundle ==
  LET e == Head(receiveQueue) IN
  /\ TakeReceived
  /\ ~checkSeen(e.id)
  /\ storeSeen(e.id)
  /\ receiving' = <<e>>
  /\ receiverAt' = "deliver"
  /\ UNCHANGED <<bundles, bundlesToReturn, arrivals, forwardQueue,
                 forwarderVars, retrierVars, historyVars>>
  /\ NoFault

(* localBundleDelivery: the callback of the endpoint runs in this task and *)
(* may send a bundle of its own.                                           *)
DeliverLocally ==
  LET b == receiving[1].id IN
  /\ receiverAt = "deliver"
  /\ receiverAt' = IF b \in DOMAIN Reply THEN "reply" ELSE "dispatch"
  /\ delivered' = IF b \in Local THEN [delivered EXCEPT ![b] = @ + 1] ELSE delivered
  /\ UNCHANGED <<storageVars, arrivals, receiveQueue, receiving, forwardQueue,
                 forwarderVars, retrierVars, outcome, cycleRest>>
  /\ NoFault

(* Endpoint::send called from the callback: bundleTransmission waits for a *)
(* slot of the receiveQueue, of which this very task is the only consumer. *)
SendReply ==
  /\ receiverAt = "reply"
  /\ Len(receiveQueue) < RecvCap
  /\ \E t \in Times :
       receiveQueue' = Append(receiveQueue,
                              [id |-> Reply[receiving[1].id], receivedAt |-> t])
  /\ receiverAt' = "dispatch"
  /\ UNCHANGED <<storageVars, arrivals, receiving, forwardQueue,
                 forwarderVars, retrierVars, historyVars>>
  /\ NoFault

FaultyDispatch ==
  /\ receiverAt = "dispatch"
  /\ forwardQueue' = IF Len(forwardQueue) < FwdCap
                     THEN forwardQueue \o receiving
                     ELSE forwardQueue
  /\ receiving' = <<>>
  /\ receiverAt' = "idle"
  /\ UNCHANGED <<storageVars, arrivals, receiveQueue, forwarderVars,
                 retrierVars, historyVars>>
  /\ NoFault

(* bundleDispatching: delivered or not, the bundle goes to the forwardQueue. *)
Dispatch ==
  /\ receiverAt = "dispatch"
  /\ Len(forwardQueue) < FwdCap
  /\ forwardQueue' = Append(forwardQueue, receiving[1])
  /\ receiving' = <<>>
  /\ receiverAt' = "idle"
  /\ UNCHANGED <<storageVars, arrivals, receiveQueue, forwarderVars,
                 retrierVars, historyVars>>
  /\ NoFault

Receiver ==
  \/ DiscardDuplicate
  \/ RefuseBundle
  \/ AcceptBundle
  \/ DeliverLocally
  \/ SendReply
  \/ Dispatch

-----------------------------------------------------------------------------
(* The bundleForwarder task.                                               *)

TakeForForwarding ==
  /\ forwarderAt = "idle"
  /\ forwardQueue # <<>>
  /\ forwarding' = <<Head(forwardQueue)>>
  /\ forwardQueue' = Tail(forwardQueue)
  /\ forwarderAt' = "route"
  /\ UNCHANGED <<storageVars, arrivals, receiveQueue, receiverVars,
                 retrierVars, historyVars>>
  /\ NoFault

(* handleForwarding reports success: the node is done with the bundle. *)
ForwardingSuccess ==
  /\ forwarderAt = "route"
  /\ bundleDeletion(forwarding[1].id, "forwarded")
  /\ forwarding' = <<>>
  /\ forwarderAt' = "idle"
  /\ UNCHANGED <<storageVars, arrivals, receiveQueue, receiverVars,
                 forwardQueue, retrierVars, delivered, cycleRest>>
  /\ NoFault

(* handleForwarding reports no success.  checkNoFailure is true of every    *)
(* reason code, so that the bundle is delayed: stored at once if there is  *)
(* room ...                                                                *)
DelayBundle ==
  /\ forwarderAt = "route"
  /\ HasRoom
  /\ Insert(forwarding[1])
  /\ forwarding' = <<>>
  /\ forwarderAt' = "idle"
  /\ UNCHANGED <<bundlesToReturn, bundle_ids, arrivals, receiveQueue,
                 receiverVars, forwardQueue, retrierVars, historyVars>>
  /\ NoFault

(* ... and otherwise after deleteOldest made room; the mutex is given back *)
(* in between.                                                             *)
DelayBundleFull ==
  /\ forwarderAt = "route"
  /\ ~HasRoom
  /\ forwarderAt' = "evict"
  /\ UNCHANGED <<storageVars, arrivals, receiveQueue, receiverVars,
                 forwardQueue, forwarding, retrierVars, historyVars>>
  /\ NoFault

(* deleteOldest, and bundleDeletion of what it removed. *)
EvictOldest ==
  /\ forwarderAt = "evict"
  /\ \E i \in DOMAIN bundles :
       /\ IsOldest(i)
       /\ RemoveEntry(i)
       /\ bundleDeletion(bundles[i].id, "depleted")
       /\ cycleRest' = cycleRest \ {bundles[i].id}
  /\ forwarderAt' = "insert"
  /\ UNCHANGED <<bundlesToReturn, bundle_ids, arrivals, receiveQueue,
                 receiverVars, forwardQueue, forwarding, retrierVars,
                 delivered>>
  /\ NoFault

(* deleteOldest dereferences bundles.begin() without looking at the size. *)
EvictFromEmptyList ==
  /\ forwarderAt = "evict"
  /\ bundles = <<>>
  /\ fault = "none"
  /\ fault' = "deleteOldest on empty list"
  /\ UNCHANGED <<storageVars, agentVars, historyVars>>

InsertDelayed ==
  /\ forwarderAt = "insert"
  /\ Insert(forwarding[1])
  /\ forwarding' = <<>>
  /\ forwarderAt' = "idle"
  /\ UNCHANGED <<bundlesToReturn, bundle_ids, arrivals, receiveQueue,
                 receiverVars, forwardQueue, retrierVars, historyVars>>
  /\ NoFault

Forwarder ==
  \/ TakeForForwarding
  \/ ForwardingSuccess
  \/ DelayBundle
  \/ DelayBundleFull
  \/ EvictOldest
  \/ EvictFromEmptyList
  \/ InsertDelayed

-----------------------------------------------------------------------------
(* The retryBundles task.                                                  *)

(* Woken by its timer or by a notification. *)
StartCycle ==
  /\ retrierAt = "sleep"
  /\ beginRetryCycle
  /\ cycleRest' = Ids(bundles)
  /\ retrierAt' = "cycle"
  /\ UNCHANGED <<bundles, bundle_ids, arrivals, receiveQueue, receiverVars,
                 forwardQueue, forwarderVars, retrying, delivered, outcome>>
  /\ NoFault

(* getBundlesRetry: the batch leaves the store. *)
GetBundlesRetry ==
  /\ retrierAt = "cycle"
  /\ retrying = <<>>
  /\ hasBundlesToRetry
  /\ BatchLength <= Len(bundles)
  /\ retrying' = Batch
  /\ PopBatch
  /\ cycleRest' = cycleRest \ Ids(Batch)
  /\ UNCHANGED <<bundle_ids, arrivals, receiveQueue, receiverVars,
                 forwardQueue, forwarderVars, retrierAt, delivered, outcome>>
  /\ NoFault

(* front() and pop_front() run past the end of the list. *)
GetFromEmptyList ==
  /\ retrierAt = "cycle"
  /\ retrying = <<>>
  /\ hasBundlesToRetry
  /\ BatchLength > Len(bundles)
  /\ fault = "none"
  /\ fault' = "getBundlesRetry on empty list"
  /\ UNCHANGED <<storageVars, agentVars, historyVars>>

(* checkExpiration finds the next bundle of the batch alive. *)
RetryBundle ==
  /\ retrying # <<>>
  /\ Len(forwardQueue) < FwdCap
  /\ forwardQueue' = Append(forwardQueue, Head(retrying))
  /\ retrying' = Tail(retrying)
  /\ UNCHANGED <<storageVars, arrivals, receiveQueue, receiverVars,
                 forwarderVars, retrierAt, historyVars>>
  /\ NoFault

(* checkExpiration finds it expired: no copy of it is left. *)
DropExpired ==
  /\ retrying # <<>>
  /\ Head(retrying).id \in Expiring
  /\ bundleDeletion(Head(retrying).id, "expired")
  /\ retrying' = Tail(retrying)
  /\ UNCHANGED <<storageVars, arrivals, receiveQueue, receiverVars,
                 forwardQueue, forwarderVars, retrierAt, delivered, cycleRest>>
  /\ NoFault

EndRetryCycle ==
  /\ retrierAt = "cycle"
  /\ retrying = <<>>
  /\ ~hasBundlesToRetry
  /\ retrierAt' = "sleep"
  /\ UNCHANGED <<storageVars, arrivals, receiveQueue, receiverVars,
                 forwardQueue, forwarderVars, retrying, historyVars>>
  /\ NoFault

Retrier ==
  \/ StartCycle
  \/ GetBundlesRetry
  \/ GetFromEmptyList
  \/ RetryBundle
  \/ DropExpired
  \/ EndRetryCycle

-----------------------------------------------------------------------------
(* cancelTransmission, called from any application task at any time.  A    *)
(* bundle that is not in the store at that moment is not affected.         *)

CancelStored(b) ==
  /\ \E i \in DOMAIN bundles : IsFirstWithId(i, b) /\ RemoveEntry(i)
  /\ bundleDeletion(b, "cancelled")
  /\ cycleRest' = cycleRest \ {b}
  /\ UNCHANGED <<bundlesToReturn, bundle_ids, agentVars, delivered>>
  /\ NoFault

-----------------------------------------------------------------------------
Next ==
  \/ \E e \in Entry : Arrive(e)
  \/ Receiver
  \/ Forwarder
  \/ Retrier
  \/ \E b \in Cancellable : CancelStored(b)

Spec == Init /\ [][Next]_vars

(* Every one of the three tasks sleeps (vTaskDelay) in each round of its   *)
(* loop, so none keeps another from running.  bundleReceiver and           *)
(* retryBundles compete for the slots of the forwardQueue: a task that     *)
(* waits in xQueueSend is in the queue's list of waiting senders, and      *)
(* retryBundles sleeps after each bundle, so a waiting sender gets a slot  *)
(* if slots become free again and again; hence strong fairness there.      *)
(* Producers, applications and the router owe nothing.                     *)
Fairness ==
  /\ WF_vars(Receiver) /\ SF_vars(Dispatch)
  /\ WF_vars(Forwarder)
  /\ WF_vars(Retrier) /\ SF_vars(RetryBundle)

FairSpec == Spec /\ Fairness

-----------------------------------------------------------------------------
(* Properties.                                                             *)

(* The places where a bundle the node has accepted can be. *)
HeldBy ==
  [receiver |-> receiving, forwardQueue |-> forwardQueue, forwarder |-> forwarding,
   storage |-> bundles, retrier |-> retrying]

HeldIds ==
  Ids(receiving) \cup Ids(forwardQueue) \cup Ids(forwarding) \cup Ids(bundles)
  \cup Ids(retrying)

(* A node never holds two copies of a bundle: not in two tasks, queues or  *)
(* the storage at once, and not twice in one of them.  Each hand-over (to  *)
(* the forwardQueue, to the storage, out of it in batches, back to the     *)
(* forwardQueue) moves the bundle while other tasks work on the same lists.*)
SingleCopy ==
  \A p, q \in DOMAIN HeldBy :
    \A i \in DOMAIN HeldBy[p], j \in DOMAIN HeldBy[q] :
      HeldBy[p][i].id = HeldBy[q][j].id => p = q /\ i = j

(* A bundle that was accepted is somewhere in the node until one of the    *)
(* reasons to let go of it applies, and is nowhere afterwards: no task     *)
(* drops a bundle in passing, and none brings a finished one back.         *)
NothingLost ==
  \A b \in Bundles :
    /\ b \in HeldIds <=> (b \in bundle_ids /\ outcome[b] = "none")
    /\ outcome[b] # "none" => b \in bundle_ids

(* A bundle for a local endpoint is delivered exactly once, however often  *)
(* it arrives and however often it is retried: bundle_ids stops later      *)
(* copies, and only bundleDispatching, which each bundle passes once,      *)
(* delivers.                                                               *)
DeliveredExactlyOnce ==
  \A b \in Bundles :
    delivered[b] = IF /\ b \in Local \cap bundle_ids
                      /\ outcome[b] # "refused"
                      /\ ~(receiverAt = "deliver" /\ receiving[1].id = b)
                   THEN 1 ELSE 0

(* delayBundle checks the size in one critical section and inserts in      *)
(* another one, and still the store never exceeds maxStoredBundles.        *)
StorageBounded == Len(bundles) <= MaxStored

(* A retry cycle leaves no bundle out: what was in the store when the      *)
(* cycle began, and has not been returned, evicted or cancelled since, is  *)
(* still within the first bundlesToReturn entries, although evictions and  *)
(* cancellations shift the list without adjusting that counter.            *)
CycleCovers ==
  \A b \in cycleRest :
    \E i \in DOMAIN bundles : bundles[i].id = b /\ i <= bundlesToReturn

(* Neither getBundlesRetry nor deleteOldest ever works on a list that is   *)
(* too short for it: both take front() or begin() without a check, and     *)
(* rely on a counter or a size read in an earlier critical section.        *)
NoEmptyAccess == fault = "none"

(* A callback replies while the receiveQueue is full, which only the task  *)
(* it runs in empties: that task hangs for good.                           *)
WaitsForItself == receiverAt = "reply" /\ Len(receiveQueue) = RecvCap

(* Nothing sticks in a queue or a task: a bundle the node holds is, again  *)
(* and again, either at rest in the store or finished.  The receiver and   *)
(* the retrier both wait for room in the forwardQueue, which only the      *)
(* forwarder makes.  There is one exception, the bundle of a callback that *)
(* waits for its own task (examples/README.md offers replies from a        *)
(* callback); the other tasks then go on with all bundles they have.       *)
HeldSettles ==
  \A b \in Bundles :
    b \in HeldIds ~> \/ b \in Ids(bundles) \/ outcome[b] # "none"
                     \/ b \in Ids(receiving) /\ WaitsForItself

(* No bundle is forgotten in the store: each one is taken out again, by a  *)
(* retry cycle unless it is evicted or cancelled first.                    *)
StoredIsRetried ==
  \A b \in Bundles : b \in Ids(bundles) ~> b \notin Ids(bundles)

(* Every retry cycle ends, although the bundles it takes out are stored    *)
(* again behind the ones it still has to return.                           *)
RetryCycleEnds == retrierAt = "cycle" ~> retrierAt = "sleep"

(* The agent keeps the promises of BundleCustody: custody is being in one  *)
(* of the agent's tasks, queues or the store.                              *)
Custody == INSTANCE BundleCustody WITH known <- bundle_ids, held <- HeldIds

ImplementsCustody == Custody!CustodySpec

=============================================================================
