----------------------------- MODULE FlashAgent -----------------------------
(***************************************************************************)
(* FlashStorage in use: bundleForwarder calls delayBundle and through it   *)
(* deleteOldest, retryBundles calls beginRetryCycle and getBundlesRetry,   *)
(* and the forwardQueue leads from the one back to the other.              *)
(*                                                                         *)
(* delayBundle and getBundlesRetry hold bundlesMutex, but deleteOldest     *)
(* takes no mutex: its NVS calls and its assignment to oldestKey fall      *)
(* between those of getBundlesRetry.  Every NVS call is an action here.    *)
(*                                                                         *)
(* bundleReceiver is only a producer in this module: BundleAgent has its   *)
(* checks.  Bundles come in the order of their numbers, each one once.     *)
(*                                                                         *)
(* This is the build that erases the flash at every start.  The other one, *)
(* with CONFIG_KeepBetweenRestart, never comes to its first bundle: its    *)
(* constructor reads the three keys before it opens the namespace, and     *)
(* what the last of the three reads returns, an error, goes into           *)
(* ESP_ERROR_CHECK.                                                        *)
(*                                                                         *)
(* As in InMemoryStorage, an operator named Faulty... is a slip that only  *)
(* mutation runs put in the place of the operator that follows it.         *)
(***************************************************************************)
EXTENDS FlashStorage, Sequences

CONSTANTS
  Routable,            \* bundles the router may forward with success
  Expiring,            \* bundles whose lifetime may run out in the node
  FwdCap,              \* CONFIG_ForwardQueueSize
  MaxRestarts,         \* bound: how often the node restarts
  MaxKey               \* bound: keys handed out; after that all forwarding succeeds

ASSUME FlashAgentAssumption ==
  /\ Routable \subseteq Bundles
  /\ Expiring \subseteq Bundles
  /\ FwdCap \in Nat \ {0}
  /\ MaxRestarts \in Nat
  /\ MaxKey \in Nat

VARIABLES
  arrived,       \* bundles handed to the forwardQueue by bundleReceiver
  forwardQueue,  \* BundleInfo* waiting for bundleForwarder
  forwarderAt,   \* where bundleForwarder is
  forwarding,    \* the bundle it handles, as a sequence of at most one
  victim,        \* deleteOldest: the bundle it read into its buffer
  retrierAt,     \* where retryBundles is
  popped,        \* getBundlesRetry: the bundle it read into its buffer
  retrying,      \* getBundlesRetry's result, then the rest of toRetry
  restarts,      \* how often the node has restarted
  finished,      \* history: bundles forwarded with success, or expired
  forgotten,     \* history: bundles a restart took away
  erased,        \* history: bundles deleteOldest has erased
  cycleRest      \* history: stored when the cycle began, still due in it

forwarderVars == <<forwarderAt, forwarding, victim>>
retrierVars == <<retrierAt, popped, retrying>>
historyVars == <<finished, forgotten, erased, cycleRest>>
vars == <<flashVars, arrived, forwardQueue, forwarderVars, retrierVars, restarts,
          historyVars>>

AnyBundle == Bundles \cup {Garbage}

TypeOK ==
  /\ FlashTypeOK
  /\ arrived \subseteq Bundles
  /\ forwardQueue \in Seq(AnyBundle) /\ Len(forwardQueue) <= FwdCap
  /\ forwarderAt \in {"idle", "route", "delay", "lookup", "read", "erase", "advance"}
  /\ forwarding \in Seq(AnyBundle)
  /\ Len(forwarding) = IF forwarderAt = "idle" THEN 0 ELSE 1
  /\ victim \in AnyBundle
  /\ retrierAt \in {"sleep", "cycle", "batch", "read", "erase", "advance"}
  /\ popped \in AnyBundle
  /\ retrying \in Seq(AnyBundle) /\ Len(retrying) <= BatchSize
  /\ restarts \in 0 .. MaxRestarts
  /\ finished \subseteq AnyBundle
  /\ forgotten \subseteq AnyBundle
  /\ erased \subseteq Bundles
  /\ cycleRest \subseteq Bundles

(* What a start leaves of the tasks. *)
TasksInit ==
  /\ forwardQueue = <<>>
  /\ forwarderAt = "idle" /\ forwarding = <<>> /\ victim = Garbage
  /\ retrierAt = "sleep" /\ popped = Garbage /\ retrying = <<>>

Init ==
  /\ FlashInit
  /\ TasksInit
  /\ arrived = {}
  /\ restarts = 0
  /\ finished = {} /\ forgotten = {} /\ erased = {} /\ cycleRest = {}

(* getBundlesRetry holds bundlesMutex. *)
MutexFree == retrierAt \notin {"batch", "read", "erase", "advance"}

-----------------------------------------------------------------------------
(* bundleReceiver dispatches the next new bundle. *)
Arrive(b) ==
  /\ b \notin arrived
  /\ \A c \in Bundles : c < b => c \in arrived
  /\ Len(forwardQueue) < FwdCap
  /\ forwardQueue' = Append(forwardQueue, b)
  /\ arrived' = arrived \cup {b}
  /\ UNCHANGED <<flashVars, forwarderVars, retrierVars, restarts, historyVars>>

-----------------------------------------------------------------------------
(* The bundleForwarder task.                                               *)

TakeForForwarding ==
  /\ forwarderAt = "idle"
  /\ forwardQueue # <<>>
  /\ forwarding' = <<Head(forwardQueue)>>
  /\ forwardQueue' = Tail(forwardQueue)
  /\ forwarderAt' = "route"
  /\ UNCHANGED <<flashVars, arrived, victim, retrierVars, restarts, historyVars>>

ForwardingSuccess ==
  /\ forwarderAt = "route"
  /\ forwarding[1] \in Routable \/ highestUsedKey >= MaxKey
  /\ finished' = finished \cup {forwarding[1]}
  /\ forwarding' = <<>>
  /\ forwarderAt' = "idle"
  /\ UNCHANGED <<flashVars, arrived, forwardQueue, victim, retrierVars,
                 restarts, forgotten, erased, cycleRest>>

(* No success: delayBundle is called. *)
ForwardingDelayed ==
  /\ forwarderAt = "route"
  /\ highestUsedKey < MaxKey
  /\ forwarderAt' = "delay"
  /\ UNCHANGED <<flashVars, arrived, forwardQueue, forwarding, victim, retrierVars,
                 restarts, historyVars>>

(* With the mutex: there is space, the bundle is written. *)
StoreBundle ==
  /\ forwarderAt = "delay"
  /\ MutexFree
  /\ HasSpace
  /\ Insert(forwarding[1])
  /\ forwarding' = <<>>
  /\ forwarderAt' = "idle"
  /\ UNCHANGED <<arrived, forwardQueue, victim, retrierVars, restarts,
                 historyVars>>

(* With the mutex: too little space.  The mutex is given back, and         *)
(* deleteOldest is called.                                                 *)
StartEviction ==
  /\ forwarderAt = "delay"
  /\ MutexFree
  /\ ~HasSpace
  /\ forwarderAt' = "lookup"
  /\ UNCHANGED <<flashVars, arrived, forwardQueue, forwarding, victim, retrierVars,
                 restarts, historyVars>>

(* deleteOldest asks for the size of the blob under oldestKey; without one *)
(* it goes straight to choosing the next oldestKey and will return an      *)
(* empty BundleInfo.                                                       *)
LookUpOldest ==
  /\ forwarderAt = "lookup"
  /\ forwarderAt' = IF HasBlob(oldestKey) THEN "read" ELSE "advance"
  /\ UNCHANGED <<flashVars, arrived, forwardQueue, forwarding, victim, retrierVars,
                 restarts, historyVars>>

ReadOldest ==
  /\ forwarderAt = "read"
  /\ victim' = GetBlob(oldestKey)
  /\ forwarderAt' = "erase"
  /\ UNCHANGED <<flashVars, arrived, forwardQueue, forwarding, retrierVars,
                 restarts, historyVars>>

EraseOldest ==
  /\ forwarderAt = "erase"
  /\ EraseKey(oldestKey)
  /\ erased' = erased \cup ({GetBlob(oldestKey)} \ {Garbage})
  /\ cycleRest' = cycleRest \ {GetBlob(oldestKey)}
  /\ forwarderAt' = "advance"
  /\ UNCHANGED <<keyVars, arrived, forwardQueue, forwarding, victim, retrierVars,
                 restarts, finished, forgotten>>

(* deleteOldest returns the victim, and delayBundle looks at the space     *)
(* again.  Beyond every key in use the value of oldestKey no longer makes  *)
(* a difference: it is bounded there.                                      *)
AdvanceOldest ==
  /\ forwarderAt = "advance"
  /\ oldestKey' = IF NextOldestKey <= MaxKey + 2 THEN NextOldestKey ELSE MaxKey + 2
  /\ victim' = Garbage
  /\ forwarderAt' = "delay"
  /\ UNCHANGED <<blobs, highestUsedKey, lowestUsedKey, bundlesToReturn, arrived,
                 forwardQueue, forwarding, retrierVars, restarts, historyVars>>

Forwarder ==
  \/ TakeForForwarding
  \/ ForwardingSuccess
  \/ ForwardingDelayed
  \/ StoreBundle
  \/ StartEviction
  \/ LookUpOldest
  \/ ReadOldest
  \/ EraseOldest
  \/ AdvanceOldest

-----------------------------------------------------------------------------
(* The retryBundles task.                                                  *)

StartCycle ==
  /\ retrierAt = "sleep"
  /\ beginRetryCycle
  /\ cycleRest' = Stored \ {Garbage}
  /\ retrierAt' = "cycle"
  /\ UNCHANGED <<arrived, forwardQueue, forwarderVars, popped, retrying, restarts,
                 finished, forgotten, erased>>

(* hasBundlesToRetry, then getBundlesRetry takes the mutex. *)
StartBatch ==
  /\ retrierAt = "cycle"
  /\ retrying = <<>>
  /\ hasBundlesToRetry
  /\ retrierAt' = "batch"
  /\ UNCHANGED <<flashVars, arrived, forwardQueue, forwarderVars, popped, retrying,
                 restarts, historyVars>>

EndCycle ==
  /\ retrierAt = "cycle"
  /\ retrying = <<>>
  /\ ~hasBundlesToRetry
  /\ retrierAt' = "sleep"
  /\ UNCHANGED <<flashVars, arrived, forwardQueue, forwarderVars, popped, retrying,
                 restarts, historyVars>>

BatchDone == Len(retrying) = BatchSize \/ ~hasBundlesToRetry

(* One round of its loop begins with the size of the blob. *)
LookUpLowest ==
  /\ retrierAt = "batch"
  /\ ~BatchDone
  /\ retrierAt' = IF HasBlob(lowestUsedKey) THEN "read" ELSE "advance"
  /\ UNCHANGED <<flashVars, arrived, forwardQueue, forwarderVars, popped, retrying,
                 restarts, historyVars>>

ReadLowest ==
  /\ retrierAt = "read"
  /\ popped' = GetBlob(lowestUsedKey)
  /\ retrierAt' = "erase"
  /\ UNCHANGED <<flashVars, arrived, forwardQueue, forwarderVars, retrying, restarts,
                 historyVars>>

FaultyEraseLowest ==
  /\ retrierAt = "erase"
  /\ retrying' = Append(retrying, popped)
  /\ popped' = Garbage
  /\ cycleRest' = cycleRest \ {popped}
  /\ retrierAt' = "advance"
  /\ UNCHANGED <<blobs, keyVars, arrived, forwardQueue, forwarderVars, restarts,
                 finished, forgotten, erased>>

EraseLowest ==
  /\ retrierAt = "erase"
  /\ EraseKey(lowestUsedKey)
  /\ retrying' = Append(retrying, popped)
  /\ popped' = Garbage
  /\ cycleRest' = cycleRest \ {popped}
  /\ retrierAt' = "advance"
  /\ UNCHANGED <<keyVars, arrived, forwardQueue, forwarderVars, restarts, finished,
                 forgotten, erased>>

AdvanceInBatch ==
  /\ retrierAt = "advance"
  /\ AdvanceLowest
  /\ retrierAt' = "batch"
  /\ UNCHANGED <<arrived, forwardQueue, forwarderVars, popped, retrying, restarts,
                 historyVars>>

EndBatch ==
  /\ retrierAt = "batch"
  /\ BatchDone
  /\ retrierAt' = "cycle"
  /\ UNCHANGED <<flashVars, arrived, forwardQueue, forwarderVars, popped, retrying,
                 restarts, historyVars>>

FaultyRetryBundle ==
  /\ retrierAt = "cycle"
  /\ retrying # <<>>
  /\ forwardQueue' = IF Len(forwardQueue) < FwdCap
                     THEN Append(forwardQueue, Head(retrying))
                     ELSE forwardQueue
  /\ retrying' = Tail(retrying)
  /\ UNCHANGED <<flashVars, arrived, forwarderVars, retrierAt, popped, restarts,
                 historyVars>>

RetryBundle ==
  /\ retrierAt = "cycle"
  /\ retrying # <<>>
  /\ Len(forwardQueue) < FwdCap
  /\ forwardQueue' = Append(forwardQueue, Head(retrying))
  /\ retrying' = Tail(retrying)
  /\ UNCHANGED <<flashVars, arrived, forwarderVars, retrierAt, popped, restarts,
                 historyVars>>

(* checkExpiration finds the bundle expired: no copy of it is left. *)
DropExpired ==
  /\ retrierAt = "cycle"
  /\ retrying # <<>>
  /\ Head(retrying) \in Expiring
  /\ finished' = finished \cup {Head(retrying)}
  /\ retrying' = Tail(retrying)
  /\ UNCHANGED <<flashVars, arrived, forwardQueue, forwarderVars, retrierAt, popped,
                 restarts, forgotten, erased, cycleRest>>

Retrier ==
  \/ StartCycle
  \/ StartBatch
  \/ EndCycle
  \/ LookUpLowest
  \/ ReadLowest
  \/ EraseLowest
  \/ AdvanceInBatch
  \/ EndBatch
  \/ RetryBundle
  \/ DropExpired

-----------------------------------------------------------------------------
(* Power loss or reset at any time: what is in RAM is gone.  The set of    *)
(* seen bundles is gone, too; that bundles may then come again is not part *)
(* of this module.                                                         *)

QueueIds(s) == {s[i] : i \in DOMAIN s}

InRam == QueueIds(forwardQueue) \cup QueueIds(forwarding) \cup QueueIds(retrying)

(* The constructor erases the flash.                                       *)
Restart ==
  /\ restarts < MaxRestarts
  /\ restarts' = restarts + 1
  /\ forgotten' = forgotten \cup InRam \cup Stored
  /\ blobs' = NoBlobs
  /\ highestUsedKey' = 0 /\ lowestUsedKey' = 0 /\ oldestKey' = 0
  /\ bundlesToReturn' = 0
  /\ forwardQueue' = <<>>
  /\ forwarderAt' = "idle" /\ forwarding' = <<>> /\ victim' = Garbage
  /\ retrierAt' = "sleep" /\ popped' = Garbage /\ retrying' = <<>>
  /\ cycleRest' = {}
  /\ UNCHANGED <<arrived, finished, erased>>

-----------------------------------------------------------------------------
Next ==
  \/ \E b \in Bundles : Arrive(b)
  \/ Forwarder
  \/ Retrier
  \/ Restart

Spec == Init /\ [][Next]_vars

(* As in BundleAgent: no task keeps another from running, and a sender     *)
(* that waits for the forwardQueue gets a slot if slots become free again  *)
(* and again.  A task that waits for bundlesMutex gets it in turn, since   *)
(* each holder gives it back.                                              *)
Fairness ==
  /\ WF_vars(Forwarder) /\ SF_vars(StoreBundle \/ StartEviction)
  /\ WF_vars(Retrier) /\ SF_vars(RetryBundle)

FairSpec == Spec /\ Fairness

-----------------------------------------------------------------------------
(* Properties.                                                             *)

Held == InRam \cup Stored

(* No bundle in the flash is out of reach: every key in use lies between   *)
(* lowestUsedKey, where getBundlesRetry continues, and highestUsedKey,     *)
(* where it ends, although deleteOldest works inside that range without    *)
(* the mutex.                                                              *)
KeysReachable ==
  \A k \in DOMAIN blobs : lowestUsedKey <= k /\ k <= highestUsedKey

(* No bundle disappears: each one the node accepted is in the flash, in a  *)
(* task or in the forwardQueue unless it was forwarded, has expired, was   *)
(* evicted, or was there when the node restarted.                          *)
NothingLost == arrived \subseteq Held \cup finished \cup erased \cup forgotten

HeldBy == [queue |-> forwardQueue, forwarder |-> forwarding, retrier |-> retrying]

(* A bundle is never in two places, or under two keys: neither the flash   *)
(* and the tasks nor two tasks have the same one, although deleteOldest    *)
(* and getBundlesRetry read and erase in separate NVS calls.               *)
SingleCopy ==
  /\ \A j, k \in DOMAIN blobs : blobs[j] = blobs[k] /\ blobs[k] # Garbage => j = k
  /\ \A p, q \in DOMAIN HeldBy : \A i \in DOMAIN HeldBy[p], j \in DOMAIN HeldBy[q] :
       HeldBy[p][i] = HeldBy[q][j] /\ HeldBy[q][j] # Garbage => p = q /\ i = j
  /\ InRam \cap Stored \subseteq {Garbage}

(* A retry cycle leaves no bundle out: those stored when it began, and not *)
(* evicted since, are under the next bundlesToReturn keys.                 *)
CycleCovers ==
  \A b \in cycleRest :
    \E k \in DOMAIN blobs : blobs[k] = b /\ k < lowestUsedKey + bundlesToReturn

(* getBundlesRetry never looks for keys that have not been given out: if   *)
(* it did, lowestUsedKey would pass by bundles stored later.               *)
CycleWithinKeys == lowestUsedKey + bundlesToReturn <= highestUsedKey + 1

(* FlashStorage.cpp on delayBundle: "as long as not enough space is        *)
(* available, we remove the oldest bundle".  So there is some, in the end. *)
DelayEnds == (forwarderAt = "delay") ~> (forwarderAt = "idle")

=============================================================================
