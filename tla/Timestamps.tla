----------------------------- MODULE Timestamps -----------------------------
(***************************************************************************)
(* The times in bundles: how Endpoint::send makes creation timestamps (and *)
(* with them bundle IDs), and what bundleReception, checkExpiration and    *)
(* prepareForSend make of the ages of bundles, on a node whose clock       *)
(* starts at 0 with every boot and jumps when GpsUpdater sets it.          *)
(*                                                                         *)
(* Several tasks may send over the same endpoint.  send takes no mutex:    *)
(* its accesses to sequenceNum and lastCreationTime are separate steps.    *)
(* A restart takes every bundle of the node, in the flash as well, which   *)
(* FlashStorage erases as it starts.                                       *)
(***************************************************************************)
EXTENDS GpsUpdater, Sequences, FiniteSets

CONSTANTS
  Endpoints,   \* the endpoint objects of the node, each with a URI of its own
  Senders,     \* application tasks
  None,        \* the source dtn:none of anonymous bundles
  Foreign,     \* stands for every endpoint of other nodes
  Lifetime,    \* lifetime of a bundle
  ForeignAges, \* how old bundles of other nodes are when they arrive
  Wrap,        \* 2^64, the range of a uint64_t
  MaxTime,     \* bound on the true time
  MaxBoots,    \* bound on restarts
  MaxBundles   \* bound on bundles created or received

ASSUME TimestampAssumption ==
  /\ None \notin Endpoints /\ Foreign \notin Endpoints
  /\ Lifetime \in Nat \ {0} /\ ForeignAges \subseteq 0 .. DtnEpoch - 1
  /\ MaxTime \in Nat /\ MaxBoots \in Nat /\ MaxBundles \in Nat
  /\ Wrap \in Nat /\ Wrap > MaxTime + Epoch + Lifetime

VARIABLES
  boots,             \* history: restarts so far
  sequenceNum,       \* per endpoint
  lastCreationTime,  \* per endpoint
  sending,           \* per task: where in send it is, with its local variables
  seen,              \* the IDs bundleReceiver knows (in RAM)
  bundles            \* every bundle the node created or received, in order

endpointVars == <<sequenceNum, lastCreationTime, sending>>
vars == <<now, gpsVars, boots, endpointVars, seen, bundles>>

(* ep, anonymous: arguments of send; time: currentTime, or 0 without a     *)
(* synchronized clock, in which case an age block is attached; seq: the    *)
(* sequence number read; raced (history): another task was inside send for *)
(* the same endpoint at the same time.                                     *)
Idle == [at |-> "idle"]
Call == [at : {"check", "unsynced", "compare", "repeated", "stamp", "create"},
         ep : Endpoints, anonymous : BOOLEAN, time : Nat, seq : Nat, raced : BOOLEAN]

(* source, time, seq: the ID; aged, age: the bundle age block; receivedAt: *)
(* the node's clock when the object was built.  The rest is history: the   *)
(* endpoint, boot and true time of its creation, the epoch of the clock    *)
(* its creation time was read from (0 if it has no creation time), and the *)
(* time base that receivedAt belongs to.                                   *)
Outcomes == {"queued", "seen", "held", "expired", "lost"}
Bundle == [source : Endpoints \cup {None, Foreign}, time : Nat, seq : Nat,
           aged : BOOLEAN, age : Nat, receivedAt : Nat,
           ep : Endpoints \cup {Foreign}, boot : Nat, raced : BOOLEAN,
           born : Int, epoch : {0, Epoch, DtnEpoch}, base : Nat, outcome : Outcomes]

TypeOK ==
  /\ GpsTypeOK
  /\ boots \in 0 .. MaxBoots
  /\ sequenceNum \in [Endpoints -> Nat]
  /\ lastCreationTime \in [Endpoints -> Nat]
  /\ sending \in [Senders -> Call \cup {Idle}]
  /\ seen \subseteq (Endpoints \cup {None, Foreign}) \X Nat \X Nat
  /\ bundles \in Seq(Bundle)

Init ==
  /\ GpsInit
  /\ sequenceNum = [e \in Endpoints |-> 0]
  /\ lastCreationTime = [e \in Endpoints |-> 0]
  /\ sending = [t \in Senders |-> Idle]
  /\ seen = {}
  /\ boots = 0
  /\ bundles = <<>>

-----------------------------------------------------------------------------
(* Deciding about a bundle: bundleReception looks at the age block alone,  *)
(* checkExpiration adds the time since receivedAt, in 64 bits without      *)
(* sign; both compare the creation time with a clock that is synchronized. *)

(* Faulty: forgets the age the bundle came with. *)
FaultyAgeHere(b) == (Clock - b.receivedAt + Wrap) % Wrap

ID(b) == <<b.source, b.time, b.seq>>

AgeHere(b) == (Clock - b.receivedAt + Wrap + b.age) % Wrap

TimestampExpired(b) == clockSynced /\ b.time # 0 /\ b.time + Lifetime < Clock
TooOld(b, age) == (b.aged /\ age >= Lifetime) \/ TimestampExpired(b)

(* A bundle object as it is put into the receiveQueue. *)
NewBundle(source, time, seq, aged, age, ep, raced, born, epoch) ==
  [source |-> source, time |-> time, seq |-> seq, aged |-> aged, age |-> age,
   receivedAt |-> Clock, ep |-> ep, boot |-> boots, raced |-> raced,
   born |-> born, epoch |-> epoch, base |-> timeBase, outcome |-> "queued"]

SetOutcome(i, outcome) == bundles' = [bundles EXCEPT ![i].outcome = outcome]

-----------------------------------------------------------------------------
(* Endpoint::send                                                          *)

Room == Len(bundles) + Cardinality({u \in Senders : sending[u] # Idle}) < MaxBundles

(* Line 26: the timestamp is prepared with the sequence number as it is. *)
BeginSend(t, e, anonymous) ==
  LET others == {u \in Senders \ {t} : sending[u] # Idle /\ sending[u].ep = e} IN
  /\ sending[t] = Idle
  /\ Room
  /\ sending' = [u \in Senders |->
       CASE u = t -> [at |-> "check", ep |-> e, anonymous |-> anonymous,
                      time |-> 0, seq |-> sequenceNum[e], raced |-> others # {}]
         [] u \in others -> [sending[u] EXCEPT !.raced = TRUE]
         [] OTHER -> sending[u]]
  /\ UNCHANGED <<now, gpsVars, boots, sequenceNum, lastCreationTime, seen, bundles>>

(* Reads clockSynced and, if it is set, the time. *)
CheckClock(t) ==
  /\ sending[t].at = "check"
  /\ sending' = [sending EXCEPT ![t] =
       IF clockSynced
       THEN [@ EXCEPT !.at = "compare", !.time = Clock, !.seq = 0]
       ELSE [@ EXCEPT !.at = "unsynced"]]
  /\ UNCHANGED <<now, gpsVars, boots, sequenceNum, lastCreationTime, seen, bundles>>

(* Faulty: no new number within the same millisecond. *)
FaultyCompareTime(t) ==
  /\ sending[t].at = "compare"
  /\ sending' = [sending EXCEPT ![t].at = "stamp"]
  /\ UNCHANGED <<now, gpsVars, boots, sequenceNum, lastCreationTime, seen, bundles>>

CompareTime(t) ==
  LET e == sending[t].ep IN
  /\ sending[t].at = "compare"
  /\ sending' = [sending EXCEPT ![t] =
       IF lastCreationTime[e] = @.time
       THEN [@ EXCEPT !.at = "repeated", !.seq = sequenceNum[e]]
       ELSE [@ EXCEPT !.at = "stamp"]]
  /\ UNCHANGED <<now, gpsVars, boots, sequenceNum, lastCreationTime, seen, bundles>>

(* sequenceNum++: the value incremented is the current one or the one the  *)
(* task has read before.                                                   *)
Increment(t) ==
  /\ sending[t].at \in {"unsynced", "repeated"}
  /\ \E n \in {sequenceNum[sending[t].ep], sending[t].seq} :
       sequenceNum' = [sequenceNum EXCEPT ![sending[t].ep] = n + 1]
  /\ sending' = [sending EXCEPT ![t].at = IF @ = "unsynced" THEN "create" ELSE "stamp"]
  /\ UNCHANGED <<now, gpsVars, boots, lastCreationTime, seen, bundles>>

StampTime(t) ==
  LET e == sending[t].ep IN
  /\ sending[t].at = "stamp"
  /\ sending' = [sending EXCEPT ![t].seq = sequenceNum[e], ![t].at = "create"]
  /\ lastCreationTime' = [lastCreationTime EXCEPT ![e] = sending[t].time]
  /\ UNCHANGED <<now, gpsVars, boots, sequenceNum, seen, bundles>>

(* The bundle is built and queued.  Without a creation time it counts as   *)
(* born now.                                                               *)
CreateBundle(t) ==
  LET s == sending[t] IN
  /\ s.at = "create"
  /\ bundles' = Append(bundles,
       NewBundle(IF s.anonymous THEN None ELSE s.ep, s.time, s.seq, s.time = 0, 0,
                 s.ep, s.raced, IF s.time = 0 THEN now ELSE s.time - Epoch,
                 IF s.time = 0 THEN 0 ELSE Epoch))
  /\ sending' = [sending EXCEPT ![t] = Idle]
  /\ UNCHANGED <<now, gpsVars, boots, sequenceNum, lastCreationTime, seen>>

-----------------------------------------------------------------------------
(* A bundle of another node, created at the true time born: with an age    *)
(* block that says how old it is now, with a creation time, or with both.  *)
(* A node that runs this program reads creation times from a clock like    *)
(* this node's; they are in DTN time if another program made them.         *)
Arrive(born, aged, epoch) ==
  /\ Room
  /\ aged \/ epoch # 0
  /\ bundles' = Append(bundles,
       NewBundle(Foreign, IF epoch # 0 THEN born + epoch ELSE 0, Len(bundles), aged,
                 IF aged THEN now - born ELSE 0, Foreign, FALSE, born, epoch))
  /\ UNCHANGED <<now, gpsVars, boots, endpointVars, seen>>

(* bundleReceiver takes bundles in order; one with a known ID is discarded,*)
(* others pass bundleReception.                                            *)
Receive(i) ==
  LET b == bundles[i] IN
  /\ b.outcome = "queued"
  /\ \A j \in 1 .. i - 1 : bundles[j].outcome # "queued"
  /\ seen' = seen \cup {ID(b)}
  /\ SetOutcome(i, CASE ID(b) \in seen -> "seen"
                     [] ID(b) \notin seen /\ TooOld(b, b.age) -> "expired"
                     [] OTHER -> "held")
  /\ UNCHANGED <<now, gpsVars, boots, endpointVars>>

(* retryBundles checks bundles it took from the storage and deletes those  *)
(* that are too old; for the others nothing changes.                       *)
CheckExpiration(i) ==
  /\ bundles[i].outcome = "held"
  /\ TooOld(bundles[i], AgeHere(bundles[i]))
  /\ SetOutcome(i, "expired")
  /\ UNCHANGED <<now, gpsVars, boots, endpointVars, seen>>

-----------------------------------------------------------------------------
Tick ==
  /\ now < MaxTime
  /\ now' = now + 1
  /\ UNCHANGED <<gpsVars, boots, endpointVars, seen, bundles>>

(* A restart takes time; objects and tasks are made anew. *)
Restart ==
  /\ boots < MaxBoots /\ now < MaxTime
  /\ GpsRestart
  /\ boots' = boots + 1
  /\ sequenceNum' = [e \in Endpoints |-> 0]
  /\ lastCreationTime' = [e \in Endpoints |-> 0]
  /\ sending' = [t \in Senders |-> Idle]
  /\ seen' = {}
  /\ bundles' = [i \in DOMAIN bundles |-> [bundles[i] EXCEPT !.outcome = "lost"]]

Updater == UpdaterStep /\ UNCHANGED <<boots, endpointVars, seen, bundles>>

Send(t) ==
  \/ \E e \in Endpoints, anonymous \in BOOLEAN : BeginSend(t, e, anonymous)
  \/ CheckClock(t)
  \/ CompareTime(t)
  \/ Increment(t)
  \/ StampTime(t)
  \/ CreateBundle(t)

Next ==
  \/ \E t \in Senders : Send(t)
  \/ \E age \in ForeignAges, aged \in BOOLEAN, epoch \in {0, Epoch, DtnEpoch} :
       Arrive(now - age, aged, epoch)
  \/ \E i \in DOMAIN bundles : Receive(i) \/ CheckExpiration(i)
  \/ Updater
  \/ Tick
  \/ Restart

(* gpsUpdater is a task of its own whose reads and delays time out.        *)
Spec == Init /\ [][Next]_vars /\ WF_vars(Updater)

-----------------------------------------------------------------------------
(* Two bundles of one endpoint have the same ID only if one of them was    *)
(* sent while another task was inside send for that endpoint, or a restart *)
(* lies between them and neither has a creation time.  (A task that was    *)
(* inside send for long may set sequenceNum back, so that the later of the *)
(* two need not have been disturbed itself.)  Different endpoints share an *)
(* ID only among anonymous bundles.  (Endpoint::send; a second bundle with *)
(* a known ID is discarded as seen by bundleReceiver here and elsewhere.)  *)
IdsIdentify ==
  \A i, j \in DOMAIN bundles :
    LET b == bundles[i]  c == bundles[j] IN
    /\ i # j /\ b.ep # Foreign /\ c.ep # Foreign
    /\ ID(b) = ID(c)
    => \/ b.ep = c.ep /\ (b.raced \/ c.raced)
       \/ b.ep = c.ep /\ b.boot # c.boot /\ b.time = 0
       \/ b.ep # c.ep /\ b.source = None

(* Unless the node's clock was set since a bundle came in, it ages here at *)
(* the true pace: that is the age prepareForSend sends it on with, and     *)
(* checkExpiration finds it too old when it is.  Once the clock is         *)
(* synchronized, the creation time decides, whatever happened to the clock *)
(* before: exactly, for one that was read from a clock gpsUpdater had set; *)
(* but a time of another program, in DTN time, makes the bundle older than *)
(* it is by twice the years from 1970 to 2000, and so too old at once.     *)
(* Nothing else ends a bundle early.  (One of exactly its lifetime is too  *)
(* old by its age block, but not by its creation time.)                    *)
AgesAreTrue ==
  \A i \in DOMAIN bundles :
    LET b == bundles[i]
        age == now - b.born
        byAge == b.aged /\ b.base = timeBase
        byTime == clockSynced /\ b.time # 0
        ageByTime == age + (Epoch - b.epoch)
        expires == TooOld(b, AgeHere(b)) IN
    b.outcome = "held" =>
      /\ byAge => AgeHere(b) = age
      /\ byAge /\ age >= Lifetime => expires
      /\ byTime /\ ageByTime > Lifetime => expires
      /\ expires /\ (b.aged => byAge) =>
           age >= Lifetime \/ (byTime /\ ageByTime > Lifetime)

(* A round of gpsUpdater ends unless the module goes on to report that it  *)
(* has no position: that line is not counted (gps.h:169).                  *)
RoundEnds == []<>(updaterAt = "wait") \/ []<>(updaterAt = "invalid")
=============================================================================
