# DTN7-ESP in TLA+

DTN7-ESP is an implementation of the Bundle Protocol (version 7, RFC 9171) for
ESP32 microcontrollers: C++ on FreeRTOS, with a handful of tasks, two queues,
interchangeable storages and routers, and convergence layer adapters (CLAs) for
LoRa, BLE and serial lines.  This directory holds a model of it: TLA+ modules,
the TLC configurations that check them, and proofs for TLAPS.

Contents: 1 the system, 2 the modules, 3 the runs, 4 fairness, 5 the proofs,
6 disagreements found, 7 what is not modelled, 8 the plan.

## 1  The system

Paths are relative to `src/dtn7-esp/`.

| component | state it keeps | operations | interacts with |
|---|---|---|---|
| Bundle Protocol Agent (`src/BundleProtocolAgent.cpp`) | registeredEndpoints, the two queue handles | bundleTransmission, cancelTransmission, bundleReception, bundleDispatching, localBundleDelivery, bundleForwarding, bundleDeletion, registerEndpoint, unregisterEndpoint | called by the tasks and by Endpoint; calls storage, router, endpoints |
| tasks and queues (`src/dtn7-esp.cpp`) | receiveQueue, forwardQueue, local node | bundleReceiver, bundleForwarder, retryBundles, clearOldPeers, pollClas, checkExpiration, setup, deinitializeBPA | the queues couple the tasks; all senders wait without limit |
| InMemoryStorage (`src/Storage/InMemoryStorage.cpp`) | list of bundles, seen IDs, table of nodes, bundlesToReturn; a mutex for each of the first three | delayBundle, getBundlesRetry, deleteOldest, removeBundle, beginRetryCycle, hasBundlesToRetry, checkSeen, storeSeen, node operations | called by forwarder, retrier, receiver and applications at once |
| FlashStorage (`src/Storage/FlashStorage.cpp`) | NVS blobs under ascending keys; highestUsedKey, lowestUsedKey, oldestKey, bundlesToReturn | as above, without removeBundle | as above; erased at every start (the build that is to keep it aborts as it starts) |
| serialized storages (`src/Storage/StorageSerialized.cpp`) | lists of serialized bundles; bundlesToReturn | as above; delayBundle looks at the free heap | as above, and all that uses the heap |
| peer table (in the storages; `src/Data.cpp`) | nodes with URI, identifier, lastSeen | addNode, removeNode, getNode, getNodes | receiver, retrier (clearOldPeers), CLAs, routers |
| endpoints (`src/Endpoint.cpp`) | sequenceNum, lastCreationTime, bundleBuffer, callback, BPA pointer | send, poll, localBundleDelivery, setCallback, clearCallback | applications and bundleReceiver, without a mutex |
| GPS time (`include/Misc/gps.h`) | the clock of the node, clockSynced | gpsUpdater | everything that reads the time: send, reception, expiry, prepareForSend |
| routers (`src/Routing/`) | forwardedTo lists inside bundles, the CLAs | handleForwarding, checkForwardedTo, prepareForSend | called by bundleForwarding; call the CLAs |
| LoRa CLA (`src/CLAs/LoRaCLA.cpp`, `include/CLAs/LoRa/bpolProtobuf.h`) | duty-cycle budget, received hashes, radio buffer | send, transmitData, advertiseTask, receivedHandler, loraRecTask, readData | interrupt, receiveQueue, peer table |
| BLE CLA (`src/CLAs/BLE/`) | current peers; buffer, size and flags shared with callbacks | send, internSend, GATT and GAP callbacks, switchScanAdvertiseTask, cleanUpBlePeers | NimBLE host task, receiveQueue |
| Serial CLA (`src/CLAs/SerialCLA.cpp`) | the driver's receive buffer, bytes sent in this cycle | send, getNewBundles | pollClas |
| records (`src/Data.cpp`) | none | serialize of Node and BundleInfo, the constructors that read it | FlashStorage, the serialized storages |
| bundle format (`../dtn7-bundle`) | none | EIDs, blocks, bundles; CBOR encoding and decoding | everything |

What is hard here:

* **Concurrency.** Three permanent tasks, CLA tasks, callbacks, an interrupt and application
  tasks work on the same data.  Storage operations take a mutex each, but what
  the agent does consists of several of them: check for space, evict, insert;
  begin a cycle, ask whether there is more, take a batch.  Endpoints, the registry of
  endpoints, the duty-cycle budget, the set of received hashes and all that BLE shares with
  its callbacks have no mutex at all.
* **Waiting.** Every `xQueueSend` waits without limit; a callback runs inside
  the task that empties the queue it may send to; BLE polls a size that somebody has to reset.
* **Counters instead of references.** A retry cycle is a number
  (`bundlesToReturn`), counted once and used while the list changes under it;
  FlashStorage finds bundles by arithmetic on keys; sequence numbers begin anew at restart.
* **Time.** A clock that starts at 0 with each boot and jumps once when it is set;
  ages in differences of 64 bits without sign, peers' ages in 32.
* **Failures.** Restarts at any moment; duplicates of bundles
  from several CLAs and retries; lost, damaged and cut bytes on a serial line; connections lost while
  a write is under way.

What makes the parts correct:

* agent and storages: no bundle is lost, doubled or delivered twice; no access to an
  empty list; retry cycles leave no bundle out and end; nothing sticks in a queue;
  no more is evicted than need be;
* FlashStorage: the same, and each blob stays within the range of keys the
  class looks at; delayBundle ends;
* endpoints: bundle IDs are unique, each bundle for an endpoint reaches it once and in
  order, an endpoint can send if and only if it can receive;
* time: a bundle ages at the true pace and expires when it is too old, by whichever clock its times are;
* peer table: a peer that is not heard for too long goes, each peer is in it once;
* routers: no peer is left out, sent a bundle twice, or counted without having been
  reached; a bundle is done with only when enough nodes have it, and it is known how often one may count;
* LoRa: the duty cycle is kept, no packet sleeps in the radio, no received hash is lost before
  it is advertised;
* BLE: success is reported only if the bundle was written or its connection lost meanwhile, each send
  returns, peers age correctly;
* format, records, serial line: a bundle arrives as it was sent, however it was stored and
  split on the way, and counts its hops and its age truly.

`PROJECT.json` lists every component and, under "hazards", the places where
these properties are at risk.

## 2  The modules

| module | models |
|---|---|
| `InMemoryStorage` | state and critical sections of InMemoryStorage, as operators |
| `BundleAgent` | the agent of one node: the tasks, both queues, InMemoryStorage |
| `BundleCustody` | abstract: what a node promises about custody of bundles |
| `FlashStorage` | blobs, keys, and what single NVS calls and assignments do |
| `FlashAgent` | forwarder and retrier on top of FlashStorage, NVS call by NVS call, with restarts |
| `SerializedStorage` | both serialized storages on a heap that other tasks use |
| `PeerTable` | the nodes a storage knows, filed by URI (FlashStorage, InMemoryStorageSerialized) or by identifier (InMemoryStorage, the Idle/Active storage) |
| `Routing` | both routers at work on one bundle, on a table of peers that three receiving tasks, an application and clearOldPeers change |
| `GpsUpdater` | the task gpsUpdater and the clock it sets |
| `Timestamps` | on top of it: Endpoint::send line by line in several tasks, and what reception and expiry make of times and ages; restarts |
| `EndpointRegistry` | the vector of endpoints and the buffers of each, while bundles are delivered and an application changes both |
| `LoRaCLA` | senders and advertiser on one radio and one budget; interrupt, receive task, receiveQueue, received hashes |
| `BLEPeers` | scanning, advertising, the table of BLE peers and its cleaning, peers that connect and write |
| `BLECLA` | on top of it: send with its attempts, the connection it makes, the callbacks and switchScanAdvertiseTask |
| `BundleFormat` | EIDs, blocks and bundles; toCbor, fromCbor and the operations on blocks, as operators |
| `Records` | the records of nodes and bundles, on top of BundleFormat |
| `SerialCLA` | one direction of a serial line: send, the bytes, getNewBundles |
| `BundleJourney` | one bundle along a line of nodes: the composition of the three, with prepareForSend, the loop of bundleReception, expiry and storing |
| `GoodBundles` | no part of the system: the bundles, neighbours and noise the theorems about BundleJourney are about |
| `..._proofs` | theorems about the module of that name; those about SerializedStorage are in `Routing_proofs` |
| `MC...` | values for the constants |

**State.** A list or queue of bundles is a sequence; a bundle in InMemoryStorage
is a record of its ID and of the time it was received (`receivedAt`), all of it
that the storage looks at.  In FlashStorage a bundle is a number, since all that
matters is which key it is under.  Each task has a variable for the place it
is at and one for what it has in its hands, so that "no bundle is lost" can be said
of every state.  In EndpointRegistry a `std::vector` is what it is in memory, cells and a
count, because two tasks are in it at once.  Variables called history in the modules
serve properties only: no guard reads them, except that `Arrive` of FlashAgent uses
`arrived` to bring bundles in order.

**Actions.** One per step another task can observe.  In BundleAgent that is a
critical section or an `xQueueSend`: delayBundle is
`DelayBundle`/`DelayBundleFull` (the check), `EvictOldest` and `InsertDelayed`,
because the code gives the mutex back between them.  In FlashAgent, where
deleteOldest takes no mutex, it is a single NVS call (`LookUpOldest`, `ReadOldest`,
`EraseOldest`) and the assignment to the key (`AdvanceOldest`); the same holds
for the loop of getBundlesRetry.  Where nothing takes a mutex it is one access to a shared
variable: the reads and increments of sequenceNum in `Timestamps`, flag and pointer of a
callback and element and end of a vector in `EndpointRegistry`, time, check and charge of the
budget in `LoRaCLA`, size, buffer and flag in `BLECLA`.  In Routing, each task that hears of a
node has one step for getNode, with what it makes of the copy, and one for addNode;
clearOldPeers and the routers have one for getNodes and further ones for each
node or CLA they then deal with.  In BundleJourney an encoding, a decoding and a record is
computed in one step: they are pure, and the task that does them shares nothing meanwhile.

**Composition.** BundleAgent contains InMemoryStorage, FlashAgent FlashStorage, Routing
PeerTable, Timestamps GpsUpdater, BLECLA BLEPeers, BundleJourney the line, the records and the
format.  Storage and table of nodes have different mutexes and
the routers touch only the table, so Routing is a model beside BundleAgent, which
takes the answer of the router as nondeterministic, and not on top of it; in the same way
a CLA is to Routing something that succeeds or fails.

**Undefined behaviour.** `front()` and `begin()` of an empty list, a call of an unset
callback and an iterator into a vector that has moved stop the model
in a state with `fault` set; the properties are about runs before
that, or about the fault itself (`NoEmptyAccess`, `EmptyNeedsFew`, `CycleDebt`).  The
uninitialised buffer of FlashStorage is the value `Garbage`, which goes on as if it were a
bundle.  A lost update of `sequenceNum++` is a choice between the value now and the value
read before.  An encoder that runs out of its buffer ends the journey of the bundle.

**Builds.** What menuconfig selects is a variable that Init sets to any of the builds
listed: `config` in Routing (router, CLAs, and whether the storage files nodes by URI), `variant` in
SerializedStorage.  FlashAgent is the build that erases the flash at every start: the other one reads its keys
from a handle that is not open yet, and hands the error to ESP_ERROR_CHECK (section 6).

**Abstractions.**

* *Routing:* a peer that is sent the bundle by a CLA is an entry in `sentTo`; one
  known to a router that broadcasts is an entry in `covered`, since that is all the
  node can know.  The reason codes of the routers are left out: checkNoFailure is true of
  all of them.  The experimental set of received hashes is off there (`LoRaCLA` has it).
* *BundleAgent, FlashAgent:* the contents of a bundle are decisions: refused or not,
  expired or not, router successful or not, each nondeterministic.  Expiry is
  possible for the bundles in `Expiring` only, so that liveness can be stated of
  others.  All bundles take the same space in the flash.  `oldestReceivedTime` of
  FlashStorage is left out: it starts as 0 and is compared with `<`.
* *SerializedStorage:* bundles have sizes in the list, as have the copy of a removed one and the buffer
  (`Serialized`) delayBundle holds the new one in while it looks at the heap; what
  else happens on the heap is `other`.  The serialization itself is in Records.
* *Timestamps:* the true time is a variable the node does not see; the node reads it with an
  offset, which gpsUpdater sets to that of a clock which counts from 1940.  Bundles of other nodes bring a true
  age or a creation time or both, the time in the epoch this program sets (from another node that runs it) or in
  DTN time.
* *LoRaCLA:* sizes and airtimes are functions; floating point is left out, the comparison with
  `CONFIG_LoRa_DutyCycle` is one with `Limit`.  A hash stands for the bundle, so that collisions do
  not happen.
* *BLECLA:* a bundle is the number of the call of send it was given to, and either fits the buffer
  or does not.  The stack answers every request, with success or without; when it refuses one,
  is a choice.  A write ends as answered, as failed, or with BLE_HS_ENOTCONN, which the code takes for an answer.
  The callback with which a discovery ends terminates the connection, over which the next discovery or the write may
  be under way by then: these end in any of their ways.
* *BundleFormat:* an encoded bundle is a sequence of items, one for the byte that begins it, one per block
  with the number of elements, the fields and the CRC, one for the byte that ends it.
  A CRC is perfect: it is the very thing it was computed from.
* *SerialCLA, BundleJourney:* each item and the UART's break is a byte on the line.  Any block may hold
  0x9f or 0xff, in data, times or CRC (`HoldsBegin`, `HoldsEnd`); what begins in the middle of a block does not
  decode.  Reading on beyond the array, which a negative length makes the code do, finds nothing.  A poll may
  begin at any time and consists of two steps: the read, and the flush, which throws away what has arrived in
  between.  Noise changes at most one block per node and no byte of framing.  Only the first copy a node takes is
  followed.  Time on the line is not counted in the age of a bundle, as the code does not measure it.
* *bundleReception:* its loop over the extension blocks removes from the vector it iterates over.  It is modelled
  as what the generated code does: the block behind a removed one moves into its place and is passed over, and
  each removal adds a turn behind the new end, at memory that holds the destroyed last block or an empty one
  (`Ghosts`, a choice).

Operators named `Faulty...` (and the `Endless...` one of GpsUpdater) are small slips, used by
mutation runs only: each replaces the operator it precedes, and the property named in
`PROJECT.json` then fails.

## 3  The runs

All runs terminate with the whole state space explored (violations at the first
counterexample), with the invariants and properties listed in `PROJECT.json`.

| run | instance | what it shows |
|---|---|---|
| `agent_safety` | 3 bundles with 2 receive times, 2 local, 1 answered by a callback, 1 expiring, 2 cancellable; store 2, batch 2, queues 2 and 1; 4 arrivals | no loss, no copies, exactly one delivery, complete cycles; the agent implements BundleCustody |
| `agent_liveness` | 4 bundles, 1 answered by a callback, receive queue 1, forward queue 1, store 3 > forward queue + batch 1 | no access to an empty list if the store is large enough and nothing is cancelled or expires; bundles settle, but for the one whose callback sends a reply into a full receive queue; stored ones are retried, cycles end |
| `flash_safety` | 4 bundles, flash for 2, batch 1, queue 1, two restarts | nothing is doubled or lost, blobs stay reachable, getBundlesRetry stays within the keys and cycles are complete, with the race of deleteOldest |
| `flash_spin` | 7 bundles, flash for 2 | section 6 |
| `routing` | broadcast router with Serial and BLE, epidemic router with Serial, with Serial and BLE, and with LoRa and nodes filed by identifier; one mobile and one static peer, 2 instants of time, MaxPeerAge 0 | no peer is sent a bundle twice or counted without having been reached, done means enough (each node as often as the build may count it), old peers go, no peer is left out |
| `timestamps` | 2 endpoints, 2 sending tasks, 2 bundles, 2 ticks, one restart, the clock set at any time, creation times in two epochs | which bundles can share an ID; when ages are true, and what expires too early; when a round of gpsUpdater ends |
| `endpoint_registry` | 4 endpoints (one URI of its own, two that share one, one invalid), one that changes its callback, 2 bundles, 4 changes of the registry | what the registry, the loop over it and the buffers keep without a mutex |
| `serialized` | both variants; 4 bundles of 2 sizes, with buffers of 2 sizes, 5 calls of delayBundle, heap 12 with up to 4 used by others | what it costs that the heap is read before an eviction and the buffer counted twice; when an empty list is accessed; what the retry counter counts |
| `lora` | a sender, the advertiser, 2 packets, 2 sends, budget for one bundle per interval, one tick | the duty cycle where nothing raced; no lost wake-up; the fate of each hash; the radio is always given back |
| `ble` | one peer, which may stay connected, one call of send with 2 attempts, 2 events from outside, 32 bits cut to 1 | when a reported success is one; which peers are removed; when send returns |
| `journey` | 8 bundles: 5 as an endpoint sends them (payload small, with 0xff, or too long; an age that holds 0xff with a CRC; CRCs, ages and hop limits on and off) and 3 fragments of another program with unknown blocks, to be discarded or to delete the bundle; 3 nodes, 2 sends each, a disturbance each, receive buffer of 9 items | the bundle, its counts and its records stay right; a poll takes a whole copy it has read; whose flags a node does not heed |
| `journey_anonymous` | bundles sent anonymously | section 6 |

Type correctness is proved of every module with proofs (of SerializedStorage and EndpointRegistry
as parts of their invariants), and was checked with TLC for every module; it is no property of a run.

**Why the bounds are enough.**

* *Agent and flash.* The races need a full store, one bundle more in
  the forwarder, one in the queue and one in the retrier: a store of 2 with three
  or four bundles has all of them at once.  `MaxArrivals` lets one bundle
  arrive twice.  In `agent_liveness` the receive queue has one slot, so that a callback can find it full when
  it replies.  Two receive times let the oldest bundle be another one than the
  first of the list.  In the flash runs, keys are the unbounded part: `MaxKey`
  bounds those given out, and once it is reached every forwarding succeeds, so
  that runs drain instead of stopping in the middle; `AdvanceOldest` bounds
  `oldestKey` where larger values make no difference any more.  Keys up to 5 or 6
  with a flash of 2 give three generations of each slot, and two restarts let a start erase what the one before it
  left.
* *Routing.* Time is what is bounded: with `MaxTime` 2 and `MaxPeerAge` 0 a peer
  heard in the first instant is old in the second, and may be heard again by one task
  while another holds an older copy.  The builds have each way to enter a node: by a broadcast, by
  sending after a broadcast of the same round, and under two identifiers.  The peer that is heard and the peer that is
  added by the application are two, with two forwardings (`MinForwards`, for the
  default of 5) or two broadcasts to be done with the bundle, so that it takes several
  rounds of a router with different tables.
* *Timestamps.* What can go wrong with an ID takes two bundles and two tasks, or one task and a
  restart; with an age it takes one bundle and a clock set between two ticks.
  `MaxBundles` 2 and `MaxBoots` 1 have both at once.  `ReadLimit` is 1 for the 10 of the code, `Wrap`
  stands for 2^64 and is larger than any sum of times; `UnixTime` 6 and `From1970To2000` 2 put the two epochs
  further apart than a lifetime, as they are.
* *EndpointRegistry.* Three endpoints in a vector that grows from 1 to 2 to 4 slots; `MaxChanges` 4
  lets all three be registered and one leave while the first bundle is under way or between the two.
* *SerializedStorage.* `MaxStores` 5 with `MaxRemoved` 3: the list is filled, emptied by a retry and
  filled again, and a large bundle has to evict three small ones.  Its buffer is large enough
  to make delayBundle evict one for room that is there.
* *LoRaCLA.* Two tasks in the budget at once, a clock that ticks between their reading of the time
  and the charge, two packets so that one can overwrite the other in the radio; `MaxSends` 2, as many as there
  are tasks.  An advertisement takes half of the budget, all of it, or is too large, by its hashes.
* *BLE.* One call with two attempts has a callback of the first attempt come in the second; `MaxOutside` 2
  is spent on ticks of the clock or on the visit of a peer, which may stay.  `Wrap` 2 stands for 2^32
  microseconds: the second tick is the first that is cut.
* *Journey.* Three nodes have one in the middle that both receives and sends; two sends fill the
  receive buffer (`UartBuffer` 9) with one bundle and part of the next, so that a poll finds the rest of
  one before another, or has flushed its beginning; two ticks let ages grow at a node, on the line and in the store.
  Of the fragments one has nothing to be removed, one a block to be removed before one that deletes the bundle, one
  three in a row to be removed.

**Where deadlock is not checked.** In `agent_safety` a callback may block the
receiver for good (section 6) or a fault stop the model; in `flash_safety` the keys and restarts are used up;
`timestamps`, `endpoint_registry`, `serialized`, `lora`, `ble` and the journeys end when
their bounds are used up, or with a fault.  In `agent_liveness`, `flash_spin` and `routing` the absence
of deadlock is part of what is checked.

**Remarks on some properties.** `NoEmptyAccess` holds when the store is larger
than forward queue and batch together, and only then: the default values (100,
10, 5) satisfy this, a menuconfig change may not.  `DelayEnds` is only violated
when an eviction falls inside a cycle that is partly done, which takes a batch
smaller than the flash, as it is in any real configuration.  `IdsIdentify`, `ErasureCostsOne`,
`BuffersInOrder`, `OneTooMany`, `CycleDebt`, `DutyCycleKept`, `HashesAccounted`, `HeldSettles`, `DoneMeansEnough`,
`AgesAreTrue`, `FlagsHeeded`, `TrueMeansWritten`, `FreshPeersStay` and `SendEnds` say exactly how much can be lost
where the code takes no mutex, reads a value too early, waits for others without limit or counts one thing as
another: the exceptions they name do occur, and nothing else does.  `PollTakesWhole` is about copies that a poll
has read whole and that hold no 0xff but the last: a copy of which part or all arrives between the read and the
flush is lost, and so is one with 0xff in a block.

## 4  Fairness

Safety runs assume none.  `agent_liveness` and `flash_spin` assume weak fairness for each of the
three tasks: every task calls `vTaskDelay` in each round, so none keeps the others
from running, and FreeRTOS schedules every ready task of equal priority in
turn.  Strong fairness is assumed for the actions that wait for something
others may take first: `Dispatch` and `RetryBundle` for a slot of the
forwardQueue, `StoreBundle`/`StartEviction` for bundlesMutex.  FreeRTOS keeps
waiting tasks in a list and serves them in the order of priority and waiting
time, and a retrier that has got a slot sleeps before it asks for the next one.
No fairness is assumed for producers, applications, the router (a bundle
may fail to be forwarded for ever), expiry or restarts.

In Routing, `Retrier` and `Forwarder` are weakly fair: both run in every retry
cycle, since a bundle that is not done with comes back to the router from the
store.  In Timestamps only gpsUpdater is weakly fair: its reads time out.  In LoRaCLA the
tasks are weakly fair, which is enough for those that wait for the mutex, as the bounds leave
nobody to take it for ever; packets and the clock are not.  In BLECLA the tasks are, and so is
the host task: NimBLE reports the end of every connection attempt, discovery and write, for which it has
time-outs, and of every connection that one end has terminated.  Nothing ends the connection of a peer that
does not write, nor the one of this node on which discovery could not be started, and connect_to_peer waits
without limit for both: SendEnds excepts the behaviours in which one of them stays open for ever.  `HeldSettles`
excepts in the same way the bundle of a callback that waits for the task it runs in.

## 5  The proofs

Proved with TLAPS, for every value of the constants, from the named assumptions on them and, where the table
names one, a hypothesis:

| module | theorem | says |
|---|---|---|
| BundleAgent | `TypeCorrect` | TypeOK |
| | `StoreNeverOverfull` | the store stays within `MaxStored` |
| | `NoCopies` | SingleCopy |
| | `NoBundleLost` | NothingLost |
| | `DeliveryExactlyOnce` | DeliveredExactlyOnce |
| | `CycleLeavesNoneOut` | CycleCovers |
| | `CapacitySuffices` | NoEmptyAccess, if nothing expires or is cancelled and `MaxStored > FwdCap + BatchSize` |
| | `AgentImplementsCustody` | Spec implies CustodySpec |
| FlashAgent | `TypeCorrect` | TypeOK |
| | `RetryStaysWithinKeys` | CycleWithinKeys |
| | `StoredStayReachable` | KeysReachable |
| | `NoBundleLostInFlash` | NothingLost |
| | `NoCopiesInFlash` | SingleCopy |
| | `FlashCycleLeavesNoneOut` | CycleCovers, as long as the keys in use are fewer than `bundlesToReturn` can count |
| SerializedStorage | `RetryCountsAreOffByChanges` | CycleDebt |
| | `EnoughBundlesSuffice` | EmptyNeedsFew |
| | `OneBundleTooMany` | OneTooMany |
| Routing | `TypeCorrect` | TypeOK |
| | `CountedOnlyIfReached` | CountedWereReached |
| | `NobodyIsSentTwice` | SentOnlyOnce, which is about the builds that look at forwardedTo before each sending (`LooksBeforeSending`) |
| | `DoneOnlyWhenEnough` | DoneMeansEnough, for every build |
| EndpointRegistry | `RegistryStaysConsistent` | RegistryConsistent |
| | `BuffersStayInOrder` | BuffersInOrder |
| | `ErasuresCostOneEach` | ErasureCostsOne |
| Timestamps | `TypeCorrect` | TypeOK |
| | `BundlesAgeTruly` | AgesAreTrue |
| | `IdsAreUnique` | IdsIdentify |
| LoRaCLA | `TypeCorrect` | TypeOK |
| | `DutyCycleHolds` | DutyCycleKept |
| | `WakeUpIsNotLost` | NewestIsRead |
| | `HashesHaveOneFate` | HashesAccounted |
| BLECLA | `TypeCorrect` | TypeOK |
| | `TrueIsWritten` | TrueMeansWritten |
| | `FreshPeersAreKept` | FreshPeersStay, an action property |
| BundleJourney | `Journey` | the invariant `JourneyTrue`, if the origins are good and noise keeps CRC types |
| | `BundlesTravelIntact` | TravelsIntact, under the same hypotheses |
| | `CountsAreTrue` | CountsTrue, under the same hypotheses |
| | `RecordsKeepTheirPeers` | RecordsKeepPeers, if the neighbours' URIs can be read |
| | `TypeCorrect` | TypeOK, if the blocks of the origins are a sequence and None is neither a BundleInfo nor a record |
| | `PollsTakeTheWhole` | PollTakesWhole, an action property, if the blocks of the origins are a sequence |

**BundleAgent.** TypeOK is not inductive with the size of the store: what is
missing is that there is room when the forwarder is about to insert
(`RoomForInsert`), which holds since only the forwarder inserts.  On
top of that, custody: each place holds a bundle once (`PlacesDistinct`), no two
places share one (`PlacesApart`), NothingLost and DeliveredExactlyOnce.  The
lemma `StepEffect` says once what a step can do to all this: it moves a bundle
between places, releases, refuses, accepts or delivers one.  The invariants and the
refinement both follow from these five cases, not from the twenty actions.
CycleCovers needs to know in addition that the counter never
exceeds what the list has when the list shrinks.  CapacitySuffices counts: the
bundles that are around but not in the store fit into queue, batch and the
forwarder's hands.

**FlashAgent.** KeyCount, `lowestUsedKey + bundlesToReturn <= highestUsedKey + 1`,
is inductive by itself.  KeysReachable needs that the key getBundlesRetry is
about to pass is no longer in use, and that none is written at that moment, which
is what bundlesMutex is good for.  NothingLost needs that what
getBundlesRetry has read is what is under the key it erases, unless deleteOldest
was faster, and that delayBundle writes to a free key.  For SingleCopy,
no place holds a bundle twice (`PlacesOnce`), no two share one (`PlacesApart`), what
getBundlesRetry has read and not yet erased is under no other key (`ReadOnce`), and only bundles that have
arrived are anywhere, so that a new one is nobody's copy.  CycleCovers is inductive with KeysReachable, except
where a cycle begins: the number of keys from the lowest to the highest is cut to 16 bits there.  That it
fits (`KeysFitCounter`) is a hypothesis of the theorem and not a fact: deleted keys are not reused, so that
with 65536 keys between the lowest and the highest a cycle leaves bundles out.

**SerializedStorage.** `CounterInv`: the balance of CycleDebt, with the fact that
after a fault nothing moves, and, for EmptyNeedsFew, that while
delayBundle is under way what was there, less what others took and what it removed itself, is a
lower bound of what is there.  Both hold whatever is read from the heap.  OneTooMany is about
that reading.  `HeapInv`: as long as no other task touches the heap or the list, one bundle more was removed without
need than those the buffer was counted twice for only if the value of the heap that the loop has in hand is the one
from before an eviction, and the test that comes next ends the loop.  The sum of the sizes is not expanded: all that is used is that the heap is the same while
the list and the others' share are.

**Routing.** The type invariant carries that the sets of nodes held by a task are
finite (`Finite`).  `ReachedInv` strengthens CountedWereReached by the nodes the router has
in hand after a broadcast.  `OnceInv`: who is in `sentTo` is counted in forwardedTo or is the
one being entered, and who is counted is not in `toForward`; a second addressing CLA or a node under two identifiers
breaks the argument, hence `LooksBeforeSending` in the property.  `CountInv`, for DoneMeansEnough, says how often a node may
have been entered: as often as the table can hold an object of it (`ObjectsPerNode`), times the chances the CLAs
tried so far in this round had to enter it (`EntryChances`), since checkForwardedTo keeps it out of every later
round.  A bundle is done with when the entries are enough, so the nodes, each counted that often, are.

**EndpointRegistry.** RegistryConsistent is inductive with the types.  For BuffersInOrder,
`LoopTyped` says that the loop stays within the slots the vector had, which have held endpoints ever
since; `InHand` says, for an endpoint in whose buffer only one task is at a time, how many elements the
buffer really has in the midst of an append and in the midst of a poll.  `PutAppends` and `MovedDropsFirst`
are about what these do in memory.  For ErasureCostsOne, `Accounts` keeps
the books of a delivery: visits that are one too many, counted with the slots past the end of the vector which the
loop, with its old size, still goes to, are at most as many as the erasures, and so are the endpoints no visit is
coming to.  An erasure moves everyone behind it by a slot: at most one of them moves to the slot the loop has just
left, and one slot more is outdated.

**Timestamps.** `ClockInv`: once set, the clock is the true time counted from `Epoch` until the next restart.
`AgeInv` says of each bundle what its creation time, in the epoch it was read in, and its age are worth (`Truthful`).
`IdInv` has three layers: a call that nobody else joined is alone with the counters of its endpoint
(`AloneInv`), creation times of this boot are above those before it, once the clock is set
(`TimesInv`); and the ID of each bundle sent undisturbed is below the counters (`CountersInv`) and below
whatever a call that began later will write (`CallsInv`), in the order of creation time and sequence number.  The
exception IdsIdentify makes is *one* of the two bundles being sent in a race.  That both have to be is false: with
four bundles, some of which race, a lost increment leaves the counter behind, and a later bundle, alone, is given the
number of one of them.  This takes more bundles than the run has.

**LoRaCLA.** `BudgetKept` follows the one task that is in the budget of an interval nobody else
entered, from the time it read to its charge, and `ClockTrue` relates the clock to the true
time as long as nobody set it.  `WakeUpInv`: a packet the radio holds is read whole, or there is a
notification, or the receive task has yet to read it.  `Accounted` is inductive by itself.

**BLECLA.** `Progress` says what `cborSize` and `transmissionComplete` mean at each place of an undisturbed call; the
heart is `Polling`: size 0 means that the write of this call is under way, over the connection of this
attempt, or has ended (`Ended`: acknowledged, or with its connection lost), and completion comes only with one of
these or a size that is too large.  A call is disturbed when switchScanAdvertiseTask or a callback of an older attempt
writes the shared variables; after that nothing is claimed of it.  FreshPeersStay follows from `PeerInv`, that what cleanPeersTask has listed was
too old then and only grows older, unless it was entered again, or its time had been cut.

**BundleJourney.** The hypotheses are in `GoodBundles`.  A good origin has EIDs and blocks that fromCbor reads as they were
written, which excludes dtn:none (section 6); its age and hop count blocks have no flags that tell a
node to delete or discard something, since prepareForSend makes these blocks anew and without flags; and its unknown
blocks have numbers of their own, not 0, since bundleReception removes blocks by number and prepareForSend
gives the number 0 to the ones it makes.  These conditions are met by all origins of the run (`OriginsAreGood`,
`NeighboursAreReadable`, evaluated by TLC).  Noise may change the fields of a block in any way but for the type of its
CRC (`NoiseKeepsCrcType`): a block that loses its CRC would not be checked.  TLC cannot evaluate this one, which is
about all records; `MCDamaged` changes only the lifetime or the data.

`JourneyTrue` says of the origin that it is good and, as long as no copy was taken in which a block without CRC was
changed: the holder's bundle *carries* the origin (`Carries`: same primary block, payload and cargo, hop
count and age moved on by so much), as does the bundle in the record and each bundle F[c] of which copy c
was sent; what is still to be sent is the end of the last copy (`Coming`); and each begin in the receive buffer and in
what a poll has read is followed by items of its copy, item by item the one that was sent or what noise made of it
(`Gathered`, `Arrived`, `Same`).  All this is needed because TravelsIntact looks only at
the bundle in hand, which at the next node comes out of the bytes.  The main steps: a bundle that is encoded is read as it
was (`ReadItems`); a piece in which a poll finds a bundle begins where a copy begins (`PieceBegins`), and, as every block
passed its check, gives what was sent (`PollReads`); prepareForSend adds one hop and the
time at the node (`BundlePrepared`); bundleReception and removePreviousNode remove only what is not cargo
(`BundleProcessed`, `PreviousNodeRemoved`).  For the loop of bundleReception that means: whatever a turn looks at, be it
a block that moved up or a ghost, it removes at most a block that has the number of one to be discarded
(`TurnDone`, `ProcessTrace`).  CountsTrue follows since
the first block of a type is the one that is counted and the one that is read (`Counted`).
RecordsKeepPeers has an invariant of its own, `PeersTrue`, which needs none of this.

`FramesKept`, for PollTakesWhole, is about which item can follow which, whatever the bundles are and whatever noise or
a flush did: a break before a begin, an end before a break, in the buffer, in what was read, and, unless the buffer is
full, across to what is still to come.  `WholeFound`: hence the 0xff before a copy is the end of another one, followed
by its break, or there is none; the search, which skips one byte after it, starts at the begin, and what is decoded
up to the first end is what the whole copy decodes to.

`Ranges`, for TypeOK, needs FramesKept too.  TypeOK is not inductive because an arrival sets `stay` from `copies` by
the number that a begin on the line carries: each such number must be that of a copy that was sent (`Numbered`).  Nor must
anything be on the line behind the last node, or a poll would take the bundle beyond it.

The library's induction theorems are out of reach, but not induction: `SetInduction`, over sets of numbers, is
proved from well-foundedness of inclusion on finite sets, and the folds of fromCbor,
bundleReception and Cargo are dealt with through the sequence of their intermediate results
(`ReadTrace`, `ProcessTrace`, `CargoTrace`), which that induction shows to exist.

Only model-checked: liveness (HeldSettles, StoredIsRetried, RetryCycleEnds, OldPeersGo,
PeersGetTheirChance, RoundEnds, RadioIsFreed, SendEnds), which is out of the prover's reach; FlagsHeeded; and the
violations.

## 6  Disagreements found

| run | statement | what the code does |
|---|---|---|
| `flash_spin` | delayBundle removes the oldest bundle until there is space (`FlashStorage.cpp:110`) | within a cycle deleteOldest comes back to a key already erased, for ever |
| `journey_anonymous` | a bundle can be sent with dtn:none as sender (`Endpoint.hpp:76`) | fromCbor reads the 0 of dtn:none and then still asks for a text: no anonymous bundle is decoded (`EID.cpp:160`) |

Seen on the way, by the models or in reading, and not the subject of a run:

*Agent and storages.*
* getBundlesRetry returns only bundles stored before the cycle began (`Storage.hpp:66`); an eviction
  moves later ones up under the unchanged counter (`InMemoryStorage.cpp:145`).
* A transmission may be cancelled (`BundleProtocolAgent.hpp:70`); the counter keeps its value, and
  getBundlesRetry may take `front()` of an empty list (`InMemoryStorage.cpp:84`, `:137`).
* A callback may send a reply (`examples/README.md:17`); with a full receiveQueue bundleReceiver
  then waits for itself (`BundleProtocolAgent.cpp:97`).
* removeBundle of all storages answers false whatever it did, although `Storage.hpp:58` says
  otherwise; FlashStorage and the Idle/Active storage do not remove anything; cancelTransmission does not
  reach a bundle that is in a retry batch, in a queue or being forwarded.
* delayBundle of InMemoryStorage may evict a bundle although there is room again, when a retry comes
  between its check and the eviction.  Those of the serialized storages read the heap before they evict,
  and so evict one bundle more than needed; and each reading but the first finds the serialized bundle in use, whose
  size is taken off once more (`StorageSerialized.cpp:96`, `:105`), so that bundles go until there is room for it
  twice.
* FlashStorage: "able to keep its information between restarts" (`FlashStorage.hpp:74`); the keys are
  read before the handle is opened (line 78), and the error of the last of these reads goes into
  ESP_ERROR_CHECK (line 93): that build aborts at every start.  getBundlesRetry does not check the result of a
  read, and what an uninitialised buffer holds may go on as a bundle (`FlashStorage.cpp:172`).
  deleteOldest may erase another bundle than the one it returns, when oldestKey moves in between.
* The comment at `BundleProtocolAgent.cpp:76` on unregistering an endpoint is not what the loop does
  when two endpoints have one URI.

*Peers and routers.*
* NumOfForwards is the number of nodes a bundle is forwarded to (`Kconfig.projbuild:509`); the epidemic
  router counts one node once per CLA after a broadcast (`EpidemicRouter.cpp:99`), and once per identifier it is
  filed under, so that with LoRa and Serial one neighbour counts as two.  DoneMeansEnough says how far off the count can be.
* InMemoryStorage and the Idle/Active storage file nodes by identifier (`InMemoryStorage.cpp:10`), and everyone
  removes and asks by URI: a node they have under another identifier than its URI is never removed by
  clearOldPeers; those known from LoRa only are all filed under "empty" there, each replacing the one before.
* The previous node block is never attached: the macro is never defined (`Router.cpp:33`).
* A stored node loses its position, and with it confirmedReception and the hashes: the reader does
  not advance past the boolean (`Data.cpp:165-182`).

*Time.*
* A GPRMC sentence without a position is not counted among the useless lines (`gps.h:169`, comment at
  231).  An eastern longitude is stored as latitude (`gps.h:215`).
* The timestamps are to be DTN time of RFC 9171 (`Kconfig.projbuild:55`).  The difference between the epochs of Unix
  and DTN is added where it should be subtracted (`gps.h:185-187`): the clock counts from 1940.  Nodes that all run
  this program agree with each other; to a node with such a clock a bundle of another program, with a creation time in
  DTN time, is some sixty years older than it is, and expires on arrival.
* Expiry is checked at reception and as a retry takes a bundle out of the store (`dtn7-esp.cpp:417`); neither the
  forwarder nor a router looks at it, and a bundle that expired in the forwardQueue is sent.
* The hop limit is checked with `>=`: a bundle whose limit is reached is deleted on arrival
  (`BundleProtocolAgent.cpp:146`).

*LoRa and BLE.*
* The string of each received hash is parsed, and the number of its digits is stored
  (`bpolProtobuf.h:109`).  If no advertisement is sent, the hashes it carried are lost.
* An interval of the duty cycle begins at the time a task has read, which may be long before the task
  charges it.
* A packet without data leaves the pointer that is deleted later unset (`bpolProtobuf.h:250`,
  `LoRaCLA.cpp:138`).
* BLE: status 7 of a write, BLE_HS_ENOTCONN, counts as success (`BLEhandling.cpp:52-54`); the connection of a peer
  that does not write stays open for ever, and every send waits for it (`BLEhandling.cpp:122`); neither start_ble_scan nor ble_advertise ends the other; a connection is left open when discovery
  cannot be started; a bundle that does not decode is queued all the same (`BLEhandling.hpp:178`); URIs longer
  than an advertisement are cut and taken for names (`BLEhandling.cpp:169`); isAdvertising begins as false
  while the node advertises.

*Format.*
* clearFlag keeps only the bit it should clear (`Block.hpp:283`, `utils.hpp:103`).  The constructor of
  HopCountBlock assigns its parameter to itself, and the block gets number 0 (`Block.hpp:685`).
* A block of CRC type 3 is accepted and encoded again with six elements; `9f ff` is accepted as a
  bundle; the payload block never has a CRC.
* bundleReception removes blocks from the vector it iterates over (`BundleProtocolAgent.cpp:114`, `:140`): the block
  behind a removed one is passed over, so that a flag of it which asks for the removal of the block or of the bundle is
  not heeded; the last turns look at a destroyed block behind the end.
* A serial poll takes every byte 0xff for the end of a bundle (`SerialCLA.cpp:81`), be it in the payload, a CRC, an age
  or a time: such a copy is not found.  What arrives between the read and uart_flush is thrown away
  (`SerialCLA.cpp:59-102`), a whole copy as well.

## 7  Not modelled

* *Setup and teardown* (setup, deinitializeBPA, the set-up of radio, UART and BLE service): straight-line
  initialisation before the tasks run; and deletion of objects that tasks go on to use, which
  nothing in the repository calls while they do.
* *The LoRa radio HAL* and RadioLib: register I/O.
* *The protobuf runtime and the generated messages:* vendored and generated.  What LoRaCLA packs into
  them is modelled as packets of a kind.
* *Positions* of nodes and coordinates in advertisements, which nothing decides on.
* *NMEA sentences* and their parser, log output, status reports (a TODO in the code), the examples (the callback
  of one is the producer of replies in BundleAgent).
* *The set of received hashes in the routers* (experimental, off by default).
* *Sizes in the flash:* the NVS entries a bundle takes (`FlashStorage.cpp:108`); a bundle fits or does not.
* *Bytes:* CBOR within a block, CRC polynomials, NimBLE's packets.

Of the parts marked partly, these are what is left out.

## 8  The plan

Done: custody in the agent and its storages, with the refinement; peers and routers;
timestamps and the registry of endpoints; LoRa and BLE; the format, records and serial line, and
the journey of a bundle over three nodes; proofs of all safety and action properties the passing runs check.

Left, in this order:

1. The received hashes in the routers, and with them two LoRa nodes that hear each other's advertisements.
2. NVS entries in FlashStorage: bundles of several sizes, the wrap of `available - 40`.
3. A network: several BundleAgents whose CLAs are those of Routing; abstract specification: a bundle that stays
   connected to its destination reaches it, once.
4. Proofs: FlagsHeeded; that a bundle which is not good loses no more than `GoodBundles` says.
