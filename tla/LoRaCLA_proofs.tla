---------------------------- MODULE LoRaCLA_proofs ----------------------------
(***************************************************************************)
(* Proofs about LoRaCLA, for any number of senders and packets, any sizes, *)
(* airtimes and intervals: what the duty-cycle budget keeps without a      *)
(* mutex, that the wake-up of the receive task is not lost, and where the  *)
(* hashes of received bundles go.                                          *)
(***************************************************************************)
EXTENDS LoRaCLA, FiniteSetTheorems, SequenceTheorems, TLAPS

-----------------------------------------------------------------------------
(* Types.                                                                  *)

Place == {"idle", "clear", "airtime", "time", "window", "check", "load", "store",
          "send", "air"}

TaskState == [at : Place, size : AllSizes \cup {0}, time : Nat, realTime : Nat,
              load : Nat, list : SUBSET Packets]

(* Beyond the types: a task in transmitData has a size with an airtime, an *)
(* idle one has no list, and what waits for the queue is a packet.         *)
Placed ==
  /\ \A t \in Tasks : task[t].at \notin {"idle", "clear"} => task[t].size \in AllSizes
  /\ \A t \in Tasks : task[t].at = "idle" => task[t].list = {}
  /\ rec.at = "queue" => rec.data \in Packets

TypeInv == TypeOK /\ Placed

LEMMA SizesTyped ==
  /\ AllSizes \subseteq Nat
  /\ \A s \in AllSizes : AirTime[s] \in Nat
  /\ \A list \in SUBSET Packets : AdvertSize[Cardinality(list)] \in AllSizes
<1>1. Cardinality(Packets) \in Nat
  BY FS_CardinalityType, LoRaAssumption
<1>2. ASSUME NEW list \in SUBSET Packets
      PROVE  Cardinality(list) \in 0 .. Cardinality(Packets)
  <2>1. IsFiniteSet(list) /\ Cardinality(list) <= Cardinality(Packets)
    BY FS_Subset, LoRaAssumption
  <2>2. Cardinality(list) \in Nat
    BY <2>1, FS_CardinalityType
  <2> QED BY <1>1, <2>1, <2>2
<1>3. \A list \in SUBSET Packets : AdvertSize[Cardinality(list)] \in AllSizes
  BY <1>2 DEF AllSizes
<1>4. AllSizes \subseteq Nat
  BY LoRaAssumption DEF AllSizes
<1> QED BY <1>3, <1>4, LoRaAssumption

(* The part of the state that transmitData works on, and that of the      *)
(* receive task.                                                          *)
SendTyped ==
  /\ task \in [Tasks -> TaskState]
  /\ \A t \in Tasks : task[t].at \notin {"idle", "clear"} => task[t].size \in AllSizes
  /\ \A t \in Tasks : task[t].at = "idle" => task[t].list = {}
  /\ clock \in Nat /\ start \in Nat /\ used \in Nat
  /\ sends \in 0 .. MaxSends
  /\ real \in [now : Nat, start : Nat] /\ spent \in Nat
  /\ {raced, everRaced, jumped, cutShort} \subseteq BOOLEAN

ReceiveTyped ==
  /\ mutex \in Tasks \cup {"receiver", "nobody"}
  /\ sky \subseteq Packets /\ buffer \in Packets \cup {Null} /\ notified \in BOOLEAN
  /\ rec \in [at : {"wait", "lock", "data", "queue"},
              length : Packets \cup {Null}, data : Packets \cup {Null}]
  /\ rec.at = "queue" => rec.data \in Packets
  /\ queue \in Seq(Packets) /\ Len(queue) <= QueueLength
  /\ heard \subseteq Packets \cup {Null}

HashTyped ==
  /\ receivedHashes \subseteq Packets
  /\ handled \subseteq Packets /\ told \subseteq Packets
  /\ missed \in [slipped : SUBSET Packets, refused : SUBSET Packets]

LEMMA TypeParts == TypeInv <=> SendTyped /\ ReceiveTyped /\ HashTyped
  BY DEF TypeInv, TypeOK, Placed, SendTyped, ReceiveTyped, HashTyped, TaskState, Place

LEMMA TypeInit == Init => TypeInv
<1> SUFFICES ASSUME Init PROVE SendTyped /\ ReceiveTyped /\ HashTyped
  BY TypeParts
<1> USE LoRaAssumption DEF Init
<1>1. task \in [Tasks -> TaskState] /\ \A t \in Tasks : task[t] = Idle
  BY DEF TaskState, Place, Idle
<1>2. SendTyped
  <2>1. real \in [now : Nat, start : Nat] /\ sends \in 0 .. MaxSends
    OBVIOUS
  <2> QED BY <1>1, <2>1 DEF SendTyped, Idle
<1>3. ReceiveTyped
  <2>1. rec.at = "wait" /\ rec \in [at : {"wait", "lock", "data", "queue"},
               length : Packets \cup {Null}, data : Packets \cup {Null}]
    BY DEF Waiting
  <2>2. queue \in Seq(Packets) /\ Len(queue) <= QueueLength
    OBVIOUS
  <2> QED BY <2>1, <2>2 DEF ReceiveTyped
<1>4. HashTyped
  BY DEF HashTyped
<1> QED BY <1>2, <1>3, <1>4

(* One task moves on. *)
LEMMA TaskMoves ==
  ASSUME SendTyped, NEW t \in Tasks, NEW r \in TaskState,
         task' = [task EXCEPT ![t] = r],
         r.at \notin {"idle", "clear"} => r.size \in AllSizes,
         r.at = "idle" => r.list = {}
  PROVE  /\ task' \in [Tasks -> TaskState]
         /\ \A u \in Tasks : task'[u].at \notin {"idle", "clear"} => task'[u].size \in AllSizes
         /\ \A u \in Tasks : task'[u].at = "idle" => task'[u].list = {}
  BY DEF SendTyped

LEMMA IdleTyped == Idle \in TaskState /\ Idle.at = "idle" /\ Idle.list = {}
  BY DEF Idle, TaskState, Place

LEMMA SendTypedNext == TypeInv /\ [Next]_vars => SendTyped'
<1> SUFFICES ASSUME SendTyped, HashTyped, [Next]_vars PROVE SendTyped'
  BY TypeParts
<1> USE LoRaAssumption, SizesTyped
<1>0. Senders \subseteq Tasks /\ Advertisers \subseteq Tasks /\ Sizes \subseteq AllSizes
  BY DEF Tasks, AllSizes
<1>1. CASE UNCHANGED <<task, clock, budget, sends, budgetHistory>>
  BY <1>1 DEF SendTyped, budget, budgetHistory
<1>2. ASSUME NEW t \in Senders, NEW size \in Sizes, send(t, size) PROVE SendTyped'
  <2> DEFINE r == [Idle EXCEPT !.at = "airtime", !.size = size, !.list = {}]
  <2>1. t \in Tasks /\ size \in AllSizes
    BY <1>0
  <2>2. r \in TaskState /\ r.at = "airtime" /\ r.size \in AllSizes
    BY <2>1 DEF Idle, TaskState, Place
  <2>3. task' = [task EXCEPT ![t] = Idle] \/ task' = [task EXCEPT ![t] = r]
    BY <1>2 DEF send, Enter, Return
  <2> HIDE DEF r
  <2>4. sends' \in 0 .. MaxSends /\ UNCHANGED <<clock, budget, budgetHistory>>
    BY <1>2 DEF send, SendTyped
  <2> QED BY <2>1, <2>2, <2>3, <2>4, TaskMoves, IdleTyped DEF SendTyped, budget, budgetHistory
<1>3. ASSUME NEW t \in Advertisers, ListHashes(t) PROVE SendTyped'
  <2> DEFINE r == [task[t] EXCEPT !.at = "clear", !.list = receivedHashes]
  <2>1. t \in Tasks
    BY <1>0
  <2>2. task[t] \in TaskState /\ receivedHashes \in SUBSET Packets
    BY <2>1 DEF SendTyped, HashTyped
  <2>3. r \in TaskState /\ r.at = "clear"
    BY <2>2 DEF TaskState, Place
  <2>4. task' = [task EXCEPT ![t] = r]
    BY <1>3 DEF ListHashes
  <2> HIDE DEF r
  <2>5. sends' \in 0 .. MaxSends /\ UNCHANGED <<clock, budget, budgetHistory>>
    BY <1>3, SMTT(20) DEF ListHashes, SendTyped
  <2> QED BY <2>1, <2>3, <2>4, <2>5, TaskMoves DEF SendTyped, budget, budgetHistory
<1>4. ASSUME NEW t \in Advertisers, ClearHashes(t) PROVE SendTyped'
  <2> DEFINE size == AdvertSize[Cardinality(task[t].list)]
             r == [task[t] EXCEPT !.at = "airtime", !.size = size]
  <2>1. t \in Tasks /\ task[t] \in TaskState
    BY <1>0 DEF SendTyped
  <2>2. task[t].list \in SUBSET Packets
    BY <2>1 DEF TaskState
  <2>3. size \in AllSizes
    BY <2>2
  <2>4. task' = [task EXCEPT ![t] = Idle] \/ task' = [task EXCEPT ![t] = r]
    BY <1>4 DEF ClearHashes, Return
  <2>5. r \in TaskState /\ r.at = "airtime" /\ r.size \in AllSizes
    <3> HIDE DEF size
    <3> QED BY <2>1, <2>3 DEF TaskState, Place
  <2> HIDE DEF r
  <2>6. UNCHANGED <<clock, budget, sends, budgetHistory>>
    BY <1>4 DEF ClearHashes
  <2> QED BY <2>1, <2>4, <2>5, <2>6, TaskMoves, IdleTyped DEF SendTyped, budget, budgetHistory
<1>5. ASSUME NEW t \in Tasks, Transmit(t) PROVE SendTyped'
  <2>0. task[t] \in TaskState
    BY DEF SendTyped
  <2>1. ASSUME NEW p \in Place \ {"idle", "clear"}, Goto(t, p),
               task[t].at \notin {"idle", "clear"}
        PROVE  /\ task' \in [Tasks -> TaskState]
               /\ \A u \in Tasks : task'[u].at \notin {"idle", "clear"} => task'[u].size \in AllSizes
               /\ \A u \in Tasks : task'[u].at = "idle" => task'[u].list = {}
    <3> DEFINE r == [task[t] EXCEPT !.at = p]
    <3>1. r \in TaskState /\ r.at = p /\ r.size = task[t].size
      BY <2>0 DEF TaskState
    <3>2. task' = [task EXCEPT ![t] = r]
      BY <2>1 DEF Goto
    <3> HIDE DEF r
    <3> QED BY <2>1, <3>1, <3>2, TaskMoves DEF SendTyped
  <2>2. CASE GetTimeOnAir(t)
    BY <2>1, <2>2 DEF GetTimeOnAir, At, Place, SendTyped, budget, budgetHistory
  <2>3. CASE ReadTime(t)
    <3> DEFINE r == [task[t] EXCEPT !.at = "window", !.time = clock, !.realTime = real.now]
    <3>1. r \in TaskState /\ r.at = "window" /\ r.size = task[t].size
      BY <2>0 DEF TaskState, SendTyped, Place
    <3>2. task' = [task EXCEPT ![t] = r]
      BY <2>3 DEF ReadTime
    <3>3. task[t].size \in AllSizes
      BY <2>3 DEF ReadTime, At, SendTyped
    <3> HIDE DEF r
    <3> QED BY <2>3, <3>1, <3>2, <3>3, TaskMoves DEF ReadTime, SendTyped, budget
  <2>4. CASE CheckInterval(t)
    <3>1. At(t, "window") /\ Goto(t, "check")
      BY <2>4 DEF CheckInterval
    <3>2. start' \in Nat /\ used' \in Nat /\ spent' \in Nat
      <4>1. task[t].time \in Nat
        BY <2>0 DEF TaskState
      <4>2. CASE IntervalPassed(task[t].time)
        BY <2>4, <4>1, <4>2 DEF CheckInterval
      <4>3. CASE ~IntervalPassed(task[t].time)
        BY <2>4, <4>3 DEF CheckInterval, budget, SendTyped
      <4> QED BY <4>2, <4>3
    <3>3. real' \in [now : Nat, start : Nat]
      BY <2>0, <2>4 DEF CheckInterval, SendTyped, TaskState
    <3>4. {raced', cutShort'} \subseteq BOOLEAN
      BY <2>4, Zenon DEF CheckInterval, SendTyped
    <3>5. UNCHANGED <<clock, sends, everRaced, jumped>>
      BY <2>4 DEF CheckInterval
    <3> QED BY <2>1, <3>1, <3>2, <3>3, <3>4, <3>5 DEF At, Place, SendTyped
  <2>5. CASE CheckBudget(t)
    <3>1. UNCHANGED <<clock, budget, sends, budgetHistory>>
      BY <2>5 DEF CheckBudget
    <3>2. Return(t) \/ Goto(t, "load")
      BY <2>5 DEF CheckBudget
    <3>3. CASE Return(t)
      BY <3>1, <3>3, TaskMoves, IdleTyped DEF Return, SendTyped, budget, budgetHistory
    <3> QED BY <2>1, <2>5, <3>1, <3>2, <3>3 DEF CheckBudget, At, Place, SendTyped, budget, budgetHistory
  <2>6. CASE LoadUsed(t)
    <3> DEFINE r == [task[t] EXCEPT !.at = "store", !.load = used]
    <3>1. r \in TaskState /\ r.at = "store" /\ r.size = task[t].size
      BY <2>0 DEF TaskState, SendTyped, Place
    <3>2. task' = [task EXCEPT ![t] = r]
      BY <2>6 DEF LoadUsed
    <3>3. task[t].size \in AllSizes
      BY <2>6 DEF LoadUsed, At, SendTyped
    <3> HIDE DEF r
    <3> QED BY <2>6, <3>1, <3>2, <3>3, TaskMoves DEF LoadUsed, SendTyped, budget, budgetHistory
  <2>7. CASE StoreUsed(t)
    <3>1. AirTime[task[t].size] \in Nat /\ task[t].load \in Nat
      BY <2>0, <2>7 DEF StoreUsed, At, SendTyped, TaskState
    <3>2. used' \in Nat /\ spent' \in Nat
          /\ UNCHANGED <<clock, start, sends, real, raced, everRaced, jumped, cutShort>>
      BY <2>7, <3>1 DEF StoreUsed, SendTyped
    <3> QED BY <2>1, <2>7, <3>2 DEF StoreUsed, At, Place, SendTyped
  <2>8. CASE BeginTransmit(t)
    BY <2>1, <2>8 DEF BeginTransmit, At, Place, SendTyped, budget, budgetHistory
  <2>9. ASSUME NEW ok \in BOOLEAN, EndTransmit(t, ok) PROVE SendTyped'
    <3>1. Return(t) /\ UNCHANGED <<clock, budget, sends, budgetHistory>>
      BY <2>9 DEF EndTransmit
    <3> QED BY <3>1, TaskMoves, IdleTyped DEF Return, SendTyped, budget, budgetHistory
  <2> QED BY <1>5, <2>2, <2>3, <2>4, <2>5, <2>6, <2>7, <2>8, <2>9 DEF Transmit
<1>6. ASSUME NEW p \in Packets, receivedHandler(p) PROVE SendTyped'
  BY <1>1, <1>6 DEF receivedHandler
<1>7. CASE ReceiveTask \/ bundleReceiver
  BY <1>1, <1>7 DEF ReceiveTask, TakeNotice, ReadLength, ReadBuffer, QueueBundle, bundleReceiver
<1>8. CASE Tick \/ SetClock
  <2>1. clock' \in Nat /\ real' \in [now : Nat, start : Nat]
    <3>1. CASE Tick
      <4>1. clock' = clock + 1 /\ real' = [real EXCEPT !.now = @ + 1]
        BY <3>1 DEF Tick
      <4>2. clock \in Nat /\ real \in [now : Nat, start : Nat]
        BY DEF SendTyped
      <4> QED BY <4>1, <4>2, SMTT(20)
    <3>2. CASE SetClock
      <4>1. clock' = clock + Interval + 1 /\ real' = real
        BY <3>2 DEF SetClock
      <4>2. clock \in Nat /\ Interval \in Nat /\ real \in [now : Nat, start : Nat]
        BY DEF SendTyped
      <4> QED BY <4>1, <4>2
    <3> QED BY <1>8, <3>1, <3>2
  <2>2. jumped' \in BOOLEAN
        /\ UNCHANGED <<task, budget, sends, spent, raced, everRaced, cutShort>>
    BY <1>8 DEF Tick, SetClock, SendTyped
  <2> QED BY <2>1, <2>2 DEF SendTyped, budget
<1>9. CASE UNCHANGED vars
  BY <1>1, <1>9 DEF vars
<1> QED BY <1>2, <1>3, <1>4, <1>5, <1>6, <1>7, <1>8, <1>9 DEF Next

LEMMA ReceiveTypedNext == TypeInv /\ [Next]_vars => ReceiveTyped'
<1> SUFFICES ASSUME ReceiveTyped, [Next]_vars PROVE ReceiveTyped'
  BY TypeParts
<1> USE LoRaAssumption DEF ReceiveTyped
<1>1. CASE UNCHANGED <<mutex, reception, queue>>
  BY <1>1 DEF reception
<1>2. ASSUME NEW t \in Senders, NEW size \in Sizes, send(t, size) PROVE ReceiveTyped'
  BY <1>1, <1>2 DEF send
<1>3. ASSUME NEW t \in Advertisers, ListHashes(t) \/ ClearHashes(t) PROVE ReceiveTyped'
  BY <1>1, <1>3 DEF ListHashes, ClearHashes
<1>4. ASSUME NEW t \in Tasks, Transmit(t) PROVE ReceiveTyped'
  <2>1. CASE UNCHANGED <<mutex, reception, queue>>
    BY <1>1, <2>1
  <2>2. CASE BeginTransmit(t)
    BY <2>2 DEF BeginTransmit
  <2>3. ASSUME NEW ok \in BOOLEAN, EndTransmit(t, ok) PROVE ReceiveTyped'
    BY <2>3 DEF EndTransmit, reception
  <2> QED BY <1>4, <2>1, <2>2, <2>3 DEF Transmit, GetTimeOnAir, ReadTime, CheckInterval,
                                         CheckBudget, LoadUsed, StoreUsed
<1>5. ASSUME NEW p \in Packets, receivedHandler(p) PROVE ReceiveTyped'
  BY <1>5 DEF receivedHandler
<1>6. CASE ReceiveTask
  <2>1. CASE TakeNotice
    BY <2>1 DEF TakeNotice
  <2>2. CASE ReadLength
    BY <2>2 DEF ReadLength
  <2>3. CASE ReadBuffer
    BY <2>3 DEF ReadBuffer, Waiting
  <2>4. CASE QueueBundle
    BY <2>4, AppendProperties DEF QueueBundle, Waiting
  <2> QED BY <1>6, <2>1, <2>2, <2>3, <2>4 DEF ReceiveTask
<1>7. CASE bundleReceiver
  <2>1. queue' \in Seq(Packets) /\ Len(queue') <= QueueLength
    BY <1>7, HeadTailProperties DEF bundleReceiver
  <2> QED BY <1>7, <2>1 DEF bundleReceiver, reception
<1>8. CASE Tick \/ SetClock
  BY <1>1, <1>8 DEF Tick, SetClock
<1>9. CASE UNCHANGED vars
  BY <1>1, <1>9 DEF vars
<1> QED BY <1>2, <1>3, <1>4, <1>5, <1>6, <1>7, <1>8, <1>9 DEF Next

LEMMA HashTypedNext == TypeInv /\ [Next]_vars => HashTyped'
<1> SUFFICES ASSUME SendTyped, ReceiveTyped, HashTyped, [Next]_vars PROVE HashTyped'
  BY TypeParts
<1>0. Senders \subseteq Tasks /\ Advertisers \subseteq Tasks
      /\ \A t \in Tasks : task[t].list \subseteq Packets
  BY DEF Tasks, SendTyped, TaskState
<1> USE DEF HashTyped
<1>1. CASE UNCHANGED hashes
  BY <1>1 DEF hashes, hashHistory
<1>2. ASSUME NEW t \in Senders, NEW size \in Sizes, send(t, size) PROVE HashTyped'
  BY <1>2 DEF send, Enter
<1>3. ASSUME NEW t \in Advertisers, ListHashes(t) \/ ClearHashes(t) PROVE HashTyped'
  BY <1>0, <1>1, <1>3 DEF ListHashes, ClearHashes
<1>4. ASSUME NEW t \in Tasks, Transmit(t) PROVE HashTyped'
  <2>1. CASE CheckBudget(t)
    BY <1>0, <2>1 DEF CheckBudget
  <2>2. ASSUME NEW ok \in BOOLEAN, EndTransmit(t, ok) PROVE HashTyped'
    BY <1>0, <2>2 DEF EndTransmit
  <2> QED BY <1>1, <1>4, <2>1, <2>2 DEF Transmit, GetTimeOnAir, ReadTime, CheckInterval,
                                        LoadUsed, StoreUsed, BeginTransmit
<1>5. ASSUME NEW p \in Packets, receivedHandler(p) PROVE HashTyped'
  BY <1>1, <1>5 DEF receivedHandler
<1>6. CASE ReceiveTask
  BY <1>1, <1>6 DEF ReceiveTask, TakeNotice, ReadLength, ReadBuffer, QueueBundle
<1>7. CASE bundleReceiver
  <2>1. Head(queue) \in Packets
    BY <1>7, HeadTailProperties DEF bundleReceiver, ReceiveTyped
  <2> QED BY <1>7, <2>1 DEF bundleReceiver
<1>8. CASE Tick \/ SetClock
  BY <1>1, <1>8 DEF Tick, SetClock
<1>9. CASE UNCHANGED vars
  BY <1>1, <1>9 DEF vars
<1> QED BY <1>2, <1>3, <1>4, <1>5, <1>6, <1>7, <1>8, <1>9 DEF Next

LEMMA TypeNext == TypeInv /\ [Next]_vars => TypeInv'
<1>1. TypeInv' <=> SendTyped' /\ ReceiveTyped' /\ HashTyped'
  BY TypeParts, PTL
<1> QED BY <1>1, SendTypedNext, ReceiveTypedNext, HashTypedNext

(* Type correctness: the variables of the LoRa node keep their types. *)
THEOREM TypeCorrect == Spec => []TypeOK
<1>1. TypeInv => TypeOK
  BY DEF TypeInv
<1> QED BY <1>1, TypeInit, TypeNext, PTL DEF Spec

-----------------------------------------------------------------------------
(* The hashes of received bundles.                                         *)

Accounted(h) ==
  \/ h \in receivedHashes
  \/ h \in told
  \/ h \in missed.slipped
  \/ h \in missed.refused
  \/ \E t \in Tasks : h \in task[t].list

LEMMA AccountedMeans == HashesAccounted <=> \A h \in handled : Accounted(h)
  BY DEF HashesAccounted, Accounted

LEMMA HashesNext == TypeInv /\ HashesAccounted /\ [Next]_vars => HashesAccounted'
<1> SUFFICES ASSUME SendTyped, HashTyped, [Next]_vars, NEW h \in handled',
                    h \in handled => Accounted(h)
             PROVE  Accounted(h)'
  <2>1. (HashesAccounted <=> \A h \in handled : Accounted(h))'
    BY AccountedMeans, PTL
  <2> QED BY <2>1, AccountedMeans, TypeParts
<1> USE DEF Accounted
<1>0. \A t \in Tasks : task[t] \in TaskState
  BY DEF SendTyped
<1>2. ASSUME UNCHANGED hashes, \A t \in Tasks : task[t].list \subseteq task'[t].list
      PROVE  Accounted(h)'
  BY <1>2 DEF hashes, hashHistory
<1>3. ASSUME NEW t \in Tasks, NEW p, Goto(t, p)
      PROVE  \A u \in Tasks : task[u].list = task'[u].list
  BY <1>0, <1>3 DEF Goto, SendTyped, TaskState
<1>4. ASSUME NEW t \in Tasks, Return(t)
      PROVE  \A u \in Tasks \ {t} : task[u].list = task'[u].list
  BY <1>4 DEF Return, SendTyped
<1>5. ASSUME NEW t \in Senders, NEW size \in Sizes, send(t, size)
      PROVE  Accounted(h)'
  <2>1. t \in Tasks /\ task[t].list = {}
    BY <1>5 DEF send, At, SendTyped, Tasks
  <2>2. \A u \in Tasks \ {t} : task[u].list = task'[u].list
    BY <1>5 DEF send, Enter, Return, SendTyped
  <2>3. UNCHANGED <<receivedHashes, handled, told>>
    BY <1>5 DEF send
  <2>4. missed' = missed \/ missed' = [missed EXCEPT !.refused = @ \cup {}]
    BY <1>5 DEF send, Enter
  <2>5. missed.slipped \subseteq missed'.slipped /\ missed.refused \subseteq missed'.refused
    BY <2>4 DEF HashTyped
  <2> QED BY <2>1, <2>2, <2>3, <2>5
<1>6. ASSUME NEW t \in Advertisers, ListHashes(t) PROVE Accounted(h)'
  <2>1. t \in Tasks /\ task[t].list = {}
    BY <1>6 DEF ListHashes, At, SendTyped, Tasks
  <2>2. \A u \in Tasks : task[u].list \subseteq task'[u].list
    BY <1>6, <2>1 DEF ListHashes, SendTyped
  <2> QED BY <1>2, <1>6, <2>2 DEF ListHashes
<1>7. ASSUME NEW t \in Advertisers, ClearHashes(t) PROVE Accounted(h)'
  <2> DEFINE size == AdvertSize[Cardinality(task[t].list)]
  <2>1. t \in Tasks
    BY DEF Tasks
  <2>2. UNCHANGED <<handled, told>>
    BY <1>7 DEF ClearHashes
  <2>3. missed.slipped \cup (receivedHashes \ task[t].list) \subseteq missed'.slipped
        /\ missed.refused \subseteq missed'.refused
    BY <1>7 DEF ClearHashes, HashTyped
  <2>4. CASE Return(t) /\ missed'.refused = missed.refused \cup task[t].list
    BY <1>4, <2>1, <2>2, <2>3, <2>4
  <2>5. CASE task' = [task EXCEPT ![t].at = "airtime", ![t].size = size]
    <3>1. \A u \in Tasks : task[u].list = task'[u].list
      BY <1>0, <2>1, <2>5 DEF SendTyped, TaskState
    <3> QED BY <2>1, <2>2, <2>3, <3>1
  <2>6. \/ Return(t) /\ missed'.refused = missed.refused \cup task[t].list
        \/ task' = [task EXCEPT ![t].at = "airtime", ![t].size = size]
    BY <1>7 DEF ClearHashes
  <2> QED BY <2>4, <2>5, <2>6
<1>8. ASSUME NEW t \in Tasks, Transmit(t) PROVE Accounted(h)'
  <2>1. CASE GetTimeOnAir(t)
    BY <1>2, <1>3, <2>1 DEF GetTimeOnAir
  <2>2. CASE ReadTime(t)
    <3>1. \A u \in Tasks : task[u].list = task'[u].list
      BY <1>0, <2>2 DEF ReadTime, SendTyped, TaskState
    <3> QED BY <1>2, <2>2, <3>1 DEF ReadTime
  <2>3. CASE CheckInterval(t)
    BY <1>2, <1>3, <2>3 DEF CheckInterval
  <2>4. CASE CheckBudget(t)
    <3>1. UNCHANGED <<receivedHashes, handled, told>>
      BY <2>4 DEF CheckBudget
    <3>2. CASE Return(t) /\ missed' = [missed EXCEPT !.refused = @ \cup task[t].list]
      <4>1. missed'.slipped = missed.slipped
            /\ missed'.refused = missed.refused \cup task[t].list
        BY <3>2 DEF HashTyped
      <4> QED BY <1>4, <3>1, <3>2, <4>1
    <3>3. CASE Goto(t, "load") /\ UNCHANGED missed
      BY <1>3, <3>1, <3>3
    <3> QED BY <2>4, <3>2, <3>3 DEF CheckBudget
  <2>5. CASE LoadUsed(t)
    <3>1. \A u \in Tasks : task[u].list = task'[u].list
      BY <1>0, <2>5 DEF LoadUsed, SendTyped, TaskState
    <3> QED BY <1>2, <2>5, <3>1 DEF LoadUsed
  <2>6. CASE StoreUsed(t)
    BY <1>2, <1>3, <2>6 DEF StoreUsed
  <2>7. CASE BeginTransmit(t)
    BY <1>2, <1>3, <2>7 DEF BeginTransmit
  <2>8. ASSUME NEW ok \in BOOLEAN, EndTransmit(t, ok) PROVE Accounted(h)'
    <3>1. UNCHANGED <<receivedHashes, handled>> /\ Return(t)
      BY <2>8 DEF EndTransmit
    <3>2. \/ told' = told \cup task[t].list /\ missed' = missed
          \/ told' = told /\ missed' = [missed EXCEPT !.refused = @ \cup task[t].list]
      BY <2>8 DEF EndTransmit
    <3>3. missed.slipped = missed'.slipped /\ missed.refused \subseteq missed'.refused
          /\ told \subseteq told' /\ task[t].list \subseteq told' \cup missed'.refused
      BY <3>2 DEF HashTyped
    <3> QED BY <1>4, <3>1, <3>3
  <2> QED BY <1>8, <2>1, <2>2, <2>3, <2>4, <2>5, <2>6, <2>7, <2>8 DEF Transmit
<1>9. ASSUME NEW p \in Packets, receivedHandler(p) PROVE Accounted(h)'
  BY <1>2, <1>9 DEF receivedHandler
<1>10. CASE ReceiveTask
  BY <1>2, <1>10 DEF ReceiveTask, TakeNotice, ReadLength, ReadBuffer, QueueBundle
<1>11. CASE bundleReceiver
  BY <1>11 DEF bundleReceiver
<1>12. CASE Tick \/ SetClock
  BY <1>2, <1>12 DEF Tick, SetClock
<1>13. CASE UNCHANGED vars
  BY <1>2, <1>13 DEF vars
<1> QED BY <1>5, <1>6, <1>7, <1>8, <1>9, <1>10, <1>11, <1>12, <1>13 DEF Next

(* A hash of a received bundle is still to be advertised, on its way in an *)
(* advertisement or told to the neighbours, or lost for one of the two     *)
(* reasons, whatever the sizes and the duty cycle.                         *)
THEOREM HashesHaveOneFate == Spec => []HashesAccounted
<1>1. Init => HashesAccounted
  BY DEF Init, HashesAccounted
<1> QED BY <1>1, TypeInit, TypeNext, HashesNext, PTL DEF Spec

-----------------------------------------------------------------------------
(* The wake-up of the receive task.                                        *)

(* While no notification is pending, the packet in the radio is the one    *)
(* whose length was read, and after that one that was read whole.          *)
WakeUpInv ==
  ~notified /\ buffer # Null =>
    /\ rec.at \in {"wait", "queue"} => buffer \in heard
    /\ rec.at = "data" => rec.length = buffer

LEMMA WakeUpNext == TypeInv /\ WakeUpInv /\ [Next]_vars => WakeUpInv'
<1> SUFFICES ASSUME ReceiveTyped, WakeUpInv, [Next]_vars PROVE WakeUpInv'
  BY TypeParts
<1> USE DEF WakeUpInv
<1>1. CASE UNCHANGED reception
  BY <1>1 DEF reception
<1>2. ASSUME NEW t \in Senders, NEW size \in Sizes, send(t, size) PROVE WakeUpInv'
  BY <1>1, <1>2 DEF send
<1>3. ASSUME NEW t \in Advertisers, ListHashes(t) \/ ClearHashes(t) PROVE WakeUpInv'
  BY <1>1, <1>3 DEF ListHashes, ClearHashes
<1>4. ASSUME NEW t \in Tasks, Transmit(t) PROVE WakeUpInv'
  <2>1. CASE UNCHANGED reception
    BY <1>1, <2>1
  <2>2. CASE BeginTransmit(t)
    BY <2>2 DEF BeginTransmit
  <2> QED BY <1>4, <2>1, <2>2 DEF Transmit, GetTimeOnAir, ReadTime, CheckInterval,
                                  CheckBudget, LoadUsed, StoreUsed, EndTransmit
<1>5. ASSUME NEW p \in Packets, receivedHandler(p) PROVE WakeUpInv'
  BY <1>5 DEF receivedHandler
<1>6. CASE ReceiveTask
  <2>1. CASE TakeNotice
    BY <2>1 DEF TakeNotice, ReceiveTyped
  <2>2. CASE ReadLength
    BY <2>2 DEF ReadLength, ReceiveTyped
  <2>3. CASE ReadBuffer
    <3>1. rec.at = "data" /\ UNCHANGED <<buffer, notified>>
          /\ heard' = heard \cup ({buffer} \cap {rec.length})
      BY <2>3 DEF ReadBuffer
    <3>2. rec'.at # "data"
      BY <2>3 DEF ReadBuffer, Waiting
    <3> QED BY <3>1, <3>2
  <2>4. CASE QueueBundle
    BY <2>4 DEF QueueBundle, Waiting
  <2> QED BY <1>6, <2>1, <2>2, <2>3, <2>4 DEF ReceiveTask
<1>7. CASE bundleReceiver \/ Tick \/ SetClock
  BY <1>1, <1>7 DEF bundleReceiver, Tick, SetClock
<1>8. CASE UNCHANGED vars
  BY <1>1, <1>8 DEF vars
<1> QED BY <1>2, <1>3, <1>4, <1>5, <1>6, <1>7, <1>8 DEF Next

(* A packet that arrives at any point of the receive task's work is read,  *)
(* or is replaced by a newer one, before the task waits again.             *)
THEOREM WakeUpIsNotLost == Spec => []NewestIsRead
<1>1. Init => WakeUpInv
  BY DEF Init, WakeUpInv
<1>2. WakeUpInv => NewestIsRead
  BY DEF WakeUpInv, NewestIsRead
<1> QED BY <1>1, <1>2, TypeInit, TypeNext, WakeUpNext, PTL DEF Spec

-----------------------------------------------------------------------------
(* The budget of airtime.                                                  *)

Charging(t) == task[t].at \in {"load", "store"}

(* With one task at a time between the clock and the charge, what it saw   *)
(* of the budget is still true when it charges.                            *)
BudgetKept ==
  ~raced =>
    /\ \A t, u \in InBudget : t = u
    /\ spent = used /\ spent <= Limit
    /\ \A t \in Tasks : Charging(t) => used + AirTime[task[t].size] <= Limit
    /\ \A t \in Tasks : task[t].at = "store" => task[t].load = used

(* As long as that was always so, and the clock was not set, the clock     *)
(* tells the true time, and an interval begins when the code says it does. *)
ClockTrue ==
  /\ cutShort => everRaced \/ jumped
  /\ ~everRaced => \A t, u \in InBudget : t = u
  /\ ~everRaced /\ ~jumped =>
       /\ clock = real.now /\ start = real.start /\ start <= clock
       /\ \A t \in Tasks : task[t].at = "window" =>
            task[t].time = task[t].realTime /\ start <= task[t].time /\ task[t].time <= clock

LEMMA BudgetNext == TypeInv /\ BudgetKept /\ ClockTrue /\ [Next]_vars => BudgetKept' /\ ClockTrue'
<1> SUFFICES ASSUME SendTyped, BudgetKept, ClockTrue, [Next]_vars
             PROVE  BudgetKept' /\ ClockTrue'
  BY TypeParts
<1>1. /\ Senders \subseteq Tasks /\ Advertisers \subseteq Tasks
      /\ \A t \in Tasks : task[t] \in TaskState
      /\ Limit \in Nat /\ Interval \in Nat
      /\ \A s \in AllSizes : AirTime[s] \in Nat
  BY LoRaAssumption, SizesTyped DEF Tasks, SendTyped
(* Steps that leave the budget alone and bring no task into it. *)
<1>2. ASSUME UNCHANGED <<clock, budget, budgetHistory>>,
             \A u \in Tasks : \/ task'[u] = task[u]
                              \/ task'[u].at \notin {"window", "check", "load", "store"}
      PROVE  BudgetKept' /\ ClockTrue'
  <2>1. InBudget' \subseteq InBudget
    BY <1>2 DEF InBudget
  <2> QED BY <1>2, <2>1 DEF budget, budgetHistory, BudgetKept, ClockTrue, Charging
<1>3. ASSUME NEW t \in Tasks, NEW p \in {"airtime", "time", "send", "air"}, Goto(t, p)
      PROVE  \A u \in Tasks : \/ task'[u] = task[u]
                              \/ task'[u].at \notin {"window", "check", "load", "store"}
  BY <1>1, <1>3 DEF Goto, SendTyped, TaskState
<1>4. ASSUME NEW t \in Tasks, Return(t)
      PROVE  \A u \in Tasks : \/ task'[u] = task[u]
                              \/ task'[u].at \notin {"window", "check", "load", "store"}
  BY <1>4 DEF Return, SendTyped, Idle
<1>5. ASSUME NEW t \in Tasks, ReadTime(t) PROVE BudgetKept' /\ ClockTrue'
  <2>1. /\ \A u \in Tasks \ {t} : task'[u] = task[u]
        /\ task'[t].at = "window" /\ task'[t].time = clock /\ task'[t].realTime = real.now
        /\ UNCHANGED <<clock, start, used, real, spent, jumped, cutShort>>
    BY <1>1, <1>5 DEF ReadTime, SendTyped, TaskState, budget
  <2>2. InBudget' = InBudget \cup {t}
    BY <2>1 DEF InBudget
  <2>3. /\ raced' = (raced \/ InBudget # {})
        /\ everRaced' = (everRaced \/ InBudget # {})
    BY <1>5 DEF ReadTime
  <2>4. BudgetKept'
    <3> SUFFICES ASSUME ~raced' PROVE BudgetKept'
      BY DEF BudgetKept
    <3>1. ~raced /\ InBudget = {}
      BY <2>3
    <3>2. \A u \in Tasks : ~Charging(u)'
      BY <2>1, <3>1 DEF Charging, InBudget
    <3>3. \A u \in Tasks : task'[u].at # "store"
      BY <3>2 DEF Charging
    <3> QED BY <2>1, <2>2, <3>1, <3>2, <3>3 DEF BudgetKept
  <2>5. ClockTrue'
    <3>1. ~everRaced' => ~everRaced /\ InBudget = {}
      BY <2>3
    <3>2. InBudget = {} => \A u \in Tasks \ {t} : task'[u].at # "window"
      BY <2>1 DEF InBudget
    <3>3. clock \in Nat
      BY DEF SendTyped
    <3> QED BY <2>1, <2>2, <3>1, <3>2, <3>3 DEF ClockTrue
  <2> QED BY <2>4, <2>5
<1>6. ASSUME NEW t \in Tasks, CheckInterval(t) PROVE BudgetKept' /\ ClockTrue'
  <2>1. /\ \A u \in Tasks \ {t} : task'[u] = task[u]
        /\ task[t].at = "window" /\ task'[t].at = "check"
        /\ UNCHANGED <<clock, everRaced, jumped>>
    BY <1>1, <1>6 DEF CheckInterval, At, Goto, SendTyped, TaskState
  <2>2. InBudget' = InBudget /\ t \in InBudget
    BY <2>1 DEF InBudget
  <2>3. CASE ~IntervalPassed(task[t].time)
    <3>1. UNCHANGED <<start, used, spent, real, raced, cutShort>>
      BY <1>6, <2>3 DEF CheckInterval, budget
    <3>2. BudgetKept'
      BY <2>1, <2>2, <3>1 DEF BudgetKept, Charging
    <3>3. ClockTrue'
      BY <2>1, <2>2, <3>1 DEF ClockTrue
    <3> QED BY <3>2, <3>3
  <2>4. CASE IntervalPassed(task[t].time)
    <3>1. /\ start' = task[t].time /\ used' = 0 /\ spent' = 0
          /\ real' = [real EXCEPT !.start = task[t].realTime]
      BY <1>6, <2>4 DEF CheckInterval
    <3>2. raced' = (InBudget # {t})
      BY <1>6, <2>4 DEF CheckInterval
    <3>3. cutShort' = (cutShort \/ task[t].realTime <= real.start + Interval)
      BY <1>6, <2>4 DEF CheckInterval
    <3>4. real'.start = task[t].realTime /\ real'.now = real.now
      BY <3>1 DEF SendTyped
    <3>5. BudgetKept'
      <4> SUFFICES ASSUME ~raced' PROVE BudgetKept'
        BY DEF BudgetKept
      <4>1. InBudget' = {t}
        BY <2>2, <3>2
      <4>2. \A u \in Tasks : ~Charging(u)' /\ task'[u].at # "store"
        BY <2>1, <4>1 DEF Charging, InBudget
      <4> QED BY <1>1, <3>1, <4>1, <4>2 DEF BudgetKept
    <3>6. ASSUME ~everRaced, ~jumped
          PROVE  /\ task[t].realTime > real.start + Interval
                 /\ clock = real.now /\ start' = real'.start /\ start' <= clock
      <4>1. /\ start = real.start /\ task[t].time = task[t].realTime
            /\ start <= task[t].time /\ task[t].time <= clock /\ clock = real.now
        BY <2>1, <3>6 DEF ClockTrue
      <4>2. task[t].time \in Nat /\ start \in Nat
        BY <1>1 DEF SendTyped, TaskState
      <4>3. task[t].time > start + Interval
        BY <1>1, <2>4, <4>1, <4>2 DEF IntervalPassed
      <4> QED BY <3>1, <3>4, <4>1, <4>3
    <3>7. cutShort' => everRaced \/ jumped
      <4> SUFFICES ASSUME ~everRaced, ~jumped PROVE ~cutShort'
        OBVIOUS
      <4>1. ~(task[t].realTime <= real.start + Interval)
        <5>1. task[t].realTime \in Nat /\ real.start \in Nat
          BY <1>1 DEF SendTyped, TaskState
        <5> QED BY <1>1, <3>6, <5>1
      <4>2. ~cutShort
        BY DEF ClockTrue
      <4> QED BY <3>3, <4>1, <4>2, Zenon
    <3>8. ~everRaced => \A u \in Tasks : task'[u].at # "window"
      BY <2>1, <2>2 DEF ClockTrue, InBudget
    <3> QED BY <2>1, <2>2, <3>4, <3>5, <3>6, <3>7, <3>8 DEF ClockTrue
  <2> QED BY <2>3, <2>4
<1>7. ASSUME NEW t \in Tasks, CheckBudget(t) PROVE BudgetKept' /\ ClockTrue'
  <2>1. UNCHANGED <<clock, budget, budgetHistory>>
    BY <1>7 DEF CheckBudget
  <2>2. CASE Return(t)
    BY <1>2, <1>4, <2>1, <2>2
  <2>3. CASE Goto(t, "load") /\ ~(used + AirTime[task[t].size] > Limit)
    <3>1. /\ \A u \in Tasks \ {t} : task'[u] = task[u]
          /\ task[t].at = "check" /\ task'[t].at = "load" /\ task'[t].size = task[t].size
      BY <1>1, <1>7, <2>3 DEF CheckBudget, At, Goto, SendTyped, TaskState
    <3>2. InBudget' = InBudget
      BY <3>1 DEF InBudget
    <3>3. used + AirTime[task[t].size] <= Limit
      BY <1>1, <2>3, <3>1 DEF SendTyped
    <3>4. BudgetKept'
      BY <2>1, <3>1, <3>2, <3>3 DEF BudgetKept, Charging, budget, budgetHistory
    <3>5. ClockTrue'
      BY <2>1, <3>1, <3>2 DEF ClockTrue, budget, budgetHistory
    <3> QED BY <3>4, <3>5
  <2> QED BY <1>7, <2>2, <2>3 DEF CheckBudget
<1>8. ASSUME NEW t \in Tasks, LoadUsed(t) PROVE BudgetKept' /\ ClockTrue'
  <2>1. /\ \A u \in Tasks \ {t} : task'[u] = task[u]
        /\ task[t].at = "load" /\ task'[t].at = "store" /\ task'[t].size = task[t].size
        /\ task'[t].load = used
        /\ UNCHANGED <<clock, budget, budgetHistory>>
    BY <1>1, <1>8 DEF LoadUsed, At, SendTyped, TaskState
  <2>2. InBudget' = InBudget
    BY <2>1 DEF InBudget
  <2>3. BudgetKept'
    BY <2>1, <2>2 DEF BudgetKept, Charging, budget, budgetHistory
  <2>4. ClockTrue'
    BY <2>1, <2>2 DEF ClockTrue, budget, budgetHistory
  <2> QED BY <2>3, <2>4
<1>9. ASSUME NEW t \in Tasks, StoreUsed(t) PROVE BudgetKept' /\ ClockTrue'
  <2> DEFINE air == AirTime[task[t].size]
  <2>1. /\ \A u \in Tasks \ {t} : task'[u] = task[u]
        /\ task[t].at = "store" /\ task'[t].at = "send"
        /\ used' = task[t].load + air /\ spent' = spent + air
        /\ UNCHANGED <<clock, start, real, raced, everRaced, jumped, cutShort>>
    BY <1>1, <1>9 DEF StoreUsed, At, Goto, SendTyped, TaskState
  <2>2. InBudget' = InBudget \ {t} /\ t \in InBudget
    BY <2>1 DEF InBudget
  <2>3. BudgetKept'
    <3> SUFFICES ASSUME ~raced PROVE BudgetKept'
      BY <2>1 DEF BudgetKept
    <3>1. InBudget' = {}
      BY <2>2 DEF BudgetKept
    <3>2. \A u \in Tasks : ~Charging(u)' /\ task'[u].at # "store"
      BY <3>1 DEF Charging, InBudget
    <3>3. task[t].load = used /\ spent = used /\ used + air <= Limit
      BY <2>1 DEF BudgetKept, Charging
    <3> QED BY <2>1, <3>1, <3>2, <3>3 DEF BudgetKept
  <2>4. ClockTrue'
    BY <2>1, <2>2 DEF ClockTrue
  <2> QED BY <2>3, <2>4
<1>10. CASE Tick
  <2>1. /\ clock' = clock + 1 /\ real'.now = real.now + 1 /\ real'.start = real.start
        /\ clock \in Nat /\ start \in Nat
        /\ UNCHANGED <<task, start, used, spent, raced, everRaced, jumped, cutShort>>
    BY <1>10 DEF Tick, SendTyped, budget
  <2>2. InBudget' = InBudget
    BY <2>1 DEF InBudget
  <2>3. BudgetKept'
    BY <2>1, <2>2 DEF BudgetKept, Charging
  <2>4. ClockTrue'
    <3>1. \A t \in Tasks : task[t].time \in Nat
      BY <1>1 DEF TaskState
    <3> QED BY <2>1, <2>2, <3>1 DEF ClockTrue
  <2> QED BY <2>3, <2>4
<1>11. CASE SetClock
  <2>1. /\ jumped' /\ UNCHANGED <<task, start, used, real, spent, raced, everRaced, cutShort>>
    BY <1>11 DEF SetClock, budget
  <2>2. InBudget' = InBudget
    BY <2>1 DEF InBudget
  <2>3. BudgetKept'
    BY <2>1, <2>2 DEF BudgetKept, Charging
  <2>4. ClockTrue'
    BY <2>1, <2>2 DEF ClockTrue
  <2> QED BY <2>3, <2>4
<1>12. ASSUME NEW t \in Senders, NEW size \in Sizes, send(t, size)
       PROVE  BudgetKept' /\ ClockTrue'
  <2>1. \A u \in Tasks : \/ task'[u] = task[u]
                         \/ task'[u].at \notin {"window", "check", "load", "store"}
    <3>0. t \in Tasks
      BY <1>1
    <3>1. CASE Return(t)
      BY <1>4, <3>0, <3>1
    <3> DEFINE r == [Idle EXCEPT !.at = "airtime", !.size = size, !.list = {}]
    <3>2. Return(t) \/ task' = [task EXCEPT ![t] = r]
      BY <1>12 DEF send, Enter
    <3>3. r.at = "airtime"
      BY DEF Idle
    <3> HIDE DEF r
    <3> QED BY <3>0, <3>1, <3>2, <3>3 DEF SendTyped
  <2> QED BY <1>2, <1>12, <2>1 DEF send
<1>13. ASSUME NEW t \in Advertisers, ListHashes(t) PROVE BudgetKept' /\ ClockTrue'
  <2>1. \A u \in Tasks : \/ task'[u] = task[u]
                         \/ task'[u].at \notin {"window", "check", "load", "store"}
    BY <1>1, <1>13 DEF ListHashes, SendTyped, TaskState
  <2> QED BY <1>2, <1>13, <2>1 DEF ListHashes
<1>14. ASSUME NEW t \in Advertisers, ClearHashes(t) PROVE BudgetKept' /\ ClockTrue'
  <2>1. \A u \in Tasks : \/ task'[u] = task[u]
                         \/ task'[u].at \notin {"window", "check", "load", "store"}
    <3>0. t \in Tasks
      BY <1>1
    <3>1. CASE Return(t)
      BY <1>4, <3>0, <3>1
    <3>2. ASSUME NEW size, task' = [task EXCEPT ![t].at = "airtime", ![t].size = size]
          PROVE  \A u \in Tasks : \/ task'[u] = task[u]
                                 \/ task'[u].at \notin {"window", "check", "load", "store"}
      BY <3>0, <1>1, <3>2 DEF SendTyped, TaskState
    <3> DEFINE size == AdvertSize[Cardinality(task[t].list)]
    <3>3. Return(t) \/ task' = [task EXCEPT ![t].at = "airtime", ![t].size = size]
      BY <1>14 DEF ClearHashes
    <3> QED BY <3>1, <3>2, <3>3
  <2> QED BY <1>2, <1>14, <2>1 DEF ClearHashes
<1>15. ASSUME NEW t \in Tasks, Transmit(t) PROVE BudgetKept' /\ ClockTrue'
  <2>1. CASE GetTimeOnAir(t)
    BY <1>2, <1>3, <2>1 DEF GetTimeOnAir
  <2>2. CASE BeginTransmit(t)
    BY <1>2, <1>3, <2>2 DEF BeginTransmit
  <2>3. ASSUME NEW ok \in BOOLEAN, EndTransmit(t, ok) PROVE BudgetKept' /\ ClockTrue'
    BY <1>2, <1>4, <2>3 DEF EndTransmit
  <2> QED BY <1>5, <1>6, <1>7, <1>8, <1>9, <1>15, <2>1, <2>2, <2>3 DEF Transmit
<1>16. ASSUME UNCHANGED <<task, clock, budget, budgetHistory>>
       PROVE  BudgetKept' /\ ClockTrue'
  BY <1>2, <1>16
<1>17. ASSUME NEW p \in Packets, receivedHandler(p) PROVE BudgetKept' /\ ClockTrue'
  BY <1>16, <1>17 DEF receivedHandler
<1>18. CASE ReceiveTask \/ bundleReceiver
  BY <1>16, <1>18 DEF ReceiveTask, TakeNotice, ReadLength, ReadBuffer, QueueBundle,
                      bundleReceiver
<1>19. CASE UNCHANGED vars
  BY <1>16, <1>19 DEF vars
<1> QED BY <1>10, <1>11, <1>12, <1>13, <1>14, <1>15, <1>17, <1>18, <1>19 DEF Next

(* The duty cycle is kept whenever no two tasks are between the clock and  *)
(* the charge at once, and the intervals are as long as configured unless  *)
(* that happened before or the clock was set.                              *)
THEOREM DutyCycleHolds == Spec => []DutyCycleKept
<1>1. Init => BudgetKept /\ ClockTrue
  <2> SUFFICES ASSUME Init PROVE BudgetKept /\ ClockTrue
    OBVIOUS
  <2>1. \A t \in Tasks : task[t] = Idle
    BY DEF Init
  <2>2. InBudget = {} /\ \A t \in Tasks : ~Charging(t) /\ task[t].at = "idle"
    BY <2>1 DEF InBudget, Charging, Idle
  <2> QED BY <2>2, LoRaAssumption DEF Init, BudgetKept, ClockTrue
<1>2. BudgetKept /\ ClockTrue => DutyCycleKept
  BY DEF BudgetKept, ClockTrue, DutyCycleKept
<1> QED BY <1>1, <1>2, TypeInit, TypeNext, BudgetNext, PTL DEF Spec

=============================================================================
