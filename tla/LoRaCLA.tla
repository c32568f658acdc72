------------------------------- MODULE LoRaCLA -------------------------------
(***************************************************************************)
(* The LoRa convergence layer: tasks that send bundles and the advertising *)
(* task of BPoL share one radio and one budget of airtime; an interrupt    *)
(* wakes the task that reads what the radio received.  The radio is under  *)
(* radioMutex, the budget and the hashes of received bundles are not under *)
(* any.  The radio itself (RadioLib) is external: it keeps the last packet *)
(* it received.                                                            *)
(***************************************************************************)
EXTENDS Naturals, Sequences, FiniteSets

CONSTANTS
  Senders,     \* tasks that call LoraCLA::send
  Advertisers, \* {advertiseTask}, or {} without CONFIG_enableBPoL
  Packets,     \* packets other nodes send, each with a bundle of its own
  Kind,        \* Kind[p]: "small", "invalid", "cbor", "forward", "advertise"
  Sizes,       \* sizes of encoded bundles
  AirTime,     \* AirTime[s]: airtime of a packet of size s
  AdvertSize,  \* AdvertSize[n]: size of an advertisement with n hashes
  MaxPacket,   \* largest packet: 250 bytes in the code
  Limit,       \* airtime the duty cycle allows in an interval
  Interval,    \* CONFIG_LoRa_DutyCycleTime
  QueueLength, \* length of receiveQueue
  Null,        \* no packet
  MaxTime,     \* bound on the clock
  MaxSends     \* bound on the packets sent

Tasks == Senders \cup Advertisers
AllSizes == Sizes \cup {AdvertSize[n] : n \in 0 .. Cardinality(Packets)}

ASSUME LoRaAssumption ==
  /\ IsFiniteSet(Packets) /\ Null \notin Packets
  /\ "receiver" \notin Tasks /\ "nobody" \notin Tasks
  /\ Kind \in [Packets -> {"small", "invalid", "cbor", "forward", "advertise"}]
  /\ Sizes \subseteq Nat
  /\ AdvertSize \in [0 .. Cardinality(Packets) -> Nat]
  /\ AirTime \in [AllSizes -> Nat]
  /\ MaxPacket \in Nat /\ Limit \in Nat /\ Interval \in Nat
  /\ QueueLength \in Nat \ {0} /\ MaxTime \in Nat /\ MaxSends \in Nat

VARIABLES
  mutex,          \* radioMutex: the task that holds it, or "nobody"
  clock,          \* system time
  start, used,    \* startOfDutyCycleTime, usedAirtimeInTime
  task,           \* per task: where transmitData is, its local variables
  sends,          \* calls of transmitData so far
  sky,            \* packets that may still arrive
  buffer,         \* what the radio would give out
  notified,       \* notification of the receive task
  rec,            \* loraRecTask: where it is, its local variables
  queue,          \* receiveQueue
  receivedHashes, \* of localNode; a bundle stands for the hash of its ID
  real,           \* history: true time; true time at which the interval began
  spent,          \* history: airtime granted since the interval began
  raced,          \* history: two tasks were in the budget in this interval
  everRaced, jumped, cutShort, \* history: see DutyCycleKept
  heard,          \* history: packets handed to decoding
  handled,        \* history: hashes that were entered
  told,           \* history: hashes in advertisements that were sent
  missed          \* history: hashes lost, by the step that lost them

budget == <<start, used>>
budgetHistory == <<real, spent, raced, everRaced, jumped, cutShort>>
reception == <<sky, buffer, notified, rec, heard>>
hashHistory == <<handled, told, missed>>
hashes == <<receivedHashes, hashHistory>>
vars == <<mutex, clock, budget, task, sends, reception, queue, hashes, budgetHistory>>

Idle == [at |-> "idle", size |-> 0, time |-> 0, realTime |-> 0, load |-> 0, list |-> {}]
Waiting == [at |-> "wait", length |-> Null, data |-> Null]

Init ==
  /\ mutex = "nobody"
  /\ clock = 0 /\ start = 0 /\ used = 0
  /\ task = [t \in Tasks |-> Idle]
  /\ sends = 0
  /\ sky = Packets /\ buffer = Null /\ notified = FALSE /\ rec = Waiting
  /\ queue = <<>> /\ receivedHashes = {}
  /\ real = [now |-> 0, start |-> 0] /\ spent = 0
  /\ raced = FALSE /\ everRaced = FALSE /\ jumped = FALSE /\ cutShort = FALSE
  /\ heard = {} /\ handled = {} /\ told = {}
  /\ missed = [slipped |-> {}, refused |-> {}]

At(t, place) == task[t].at = place
Goto(t, place) == task' = [task EXCEPT ![t].at = place]
Return(t) == task' = [task EXCEPT ![t] = Idle]

(* The tasks between reading the time and charging the airtime.  (realTime, *)
(* the true time at which a task read the clock, is history.)              *)
InBudget == {t \in Tasks : task[t].at \in {"window", "check", "load", "store"}}

-----------------------------------------------------------------------------
(* LoraCLA::send: the bundle is encoded and given to transmitData, which   *)
(* refuses it at once if it is empty or too large.                         *)
Enter(t, size, list) ==
  IF size = 0 \/ size > MaxPacket
  THEN /\ Return(t)
       /\ missed' = [missed EXCEPT !.refused = @ \cup list]
  ELSE /\ task' = [task EXCEPT ![t] = [Idle EXCEPT !.at = "airtime", !.size = size,
                                                   !.list = list]]
       /\ UNCHANGED missed

send(t, size) ==
  /\ At(t, "idle") /\ sends < MaxSends
  /\ sends' = sends + 1
  /\ Enter(t, size, {})
  /\ UNCHANGED <<mutex, clock, budget, reception, queue, receivedHashes, handled,
                 told, budgetHistory>>

(* Faulty: clears the set before it is written to the message. *)
FaultyListHashes(t) ==
  /\ At(t, "idle") /\ sends < MaxSends
  /\ sends' = sends + 1
  /\ receivedHashes' = {}
  /\ task' = [task EXCEPT ![t].at = "clear"]
  /\ UNCHANGED <<mutex, clock, budget, reception, queue, hashHistory, budgetHistory>>

(* sendAdvertise, encodeAdvertisePacket: the hashes are written to the     *)
(* message ...                                                             *)
ListHashes(t) ==
  /\ At(t, "idle") /\ sends < MaxSends
  /\ sends' = sends + 1
  /\ task' = [task EXCEPT ![t].at = "clear", ![t].list = receivedHashes]
  /\ UNCHANGED <<mutex, clock, budget, reception, queue, hashes, budgetHistory>>

(* ... then the set is cleared, with whatever was entered meanwhile.       *)
ClearHashes(t) ==
  LET list == task[t].list IN
  /\ At(t, "clear")
  /\ receivedHashes' = {}
  /\ LET size == AdvertSize[Cardinality(list)]
         slipped == missed.slipped \cup (receivedHashes \ list)
     IN IF size = 0 \/ size > MaxPacket
        THEN /\ Return(t)
             /\ missed' = [slipped |-> slipped, refused |-> missed.refused \cup list]
        ELSE /\ task' = [task EXCEPT ![t].at = "airtime", ![t].size = size]
             /\ missed' = [missed EXCEPT !.slipped = slipped]
  /\ UNCHANGED <<mutex, clock, budget, sends, reception, queue, handled, told,
                 budgetHistory>>

-----------------------------------------------------------------------------
(* LoraCLA::transmitData                                                   *)

(* The time on air is computed under the mutex.                            *)
GetTimeOnAir(t) ==
  /\ At(t, "airtime") /\ mutex = "nobody"
  /\ Goto(t, "time")
  /\ UNCHANGED <<mutex, clock, budget, sends, reception, queue, hashes, budgetHistory>>

ReadTime(t) ==
  /\ At(t, "time")
  /\ task' = [task EXCEPT ![t].at = "window", ![t].time = clock,
                                 ![t].realTime = real.now]
  /\ raced' = (raced \/ InBudget # {})
  /\ everRaced' = (everRaced \/ InBudget # {})
  /\ UNCHANGED <<mutex, clock, budget, sends, reception, queue, hashes, real, spent,
                 jumped, cutShort>>

(* currentTime - startOfDutyCycleTime in uint64_t: a time before the start *)
(* of the interval wraps to a long one.                                    *)
IntervalPassed(time) == time < start \/ time - start > Interval

(* Faulty: starts the new interval without a new budget. *)
FaultyCheckInterval(t) ==
  /\ At(t, "window")
  /\ Goto(t, "check")
  /\ IF IntervalPassed(task[t].time)
     THEN /\ used' = 0
          /\ spent' = 0 /\ real' = [real EXCEPT !.start = task[t].realTime]
          /\ raced' = (InBudget # {t})
          /\ cutShort' = (cutShort \/ task[t].realTime <= real.start + Interval)
          /\ UNCHANGED start
     ELSE UNCHANGED <<budget, spent, real, raced, cutShort>>
  /\ UNCHANGED <<mutex, clock, sends, reception, queue, hashes, everRaced, jumped>>

CheckInterval(t) ==
  /\ At(t, "window")
  /\ Goto(t, "check")
  /\ IF IntervalPassed(task[t].time)
     THEN /\ start' = task[t].time /\ used' = 0
          /\ spent' = 0 /\ real' = [real EXCEPT !.start = task[t].realTime]
          /\ raced' = (InBudget # {t})
          /\ cutShort' = (cutShort \/ task[t].realTime <= real.start + Interval)
     ELSE UNCHANGED <<budget, spent, real, raced, cutShort>>
  /\ UNCHANGED <<mutex, clock, sends, reception, queue, hashes, everRaced, jumped>>

(* Data that would exceed the duty cycle is refused; a refused             *)
(* advertisement is not repeated.                                          *)
CheckBudget(t) ==
  /\ At(t, "check")
  /\ IF used + AirTime[task[t].size] > Limit
     THEN Return(t) /\ missed' = [missed EXCEPT !.refused = @ \cup task[t].list]
     ELSE Goto(t, "load") /\ UNCHANGED missed
  /\ UNCHANGED <<mutex, clock, budget, sends, reception, queue, receivedHashes,
                 handled, told, budgetHistory>>

(* usedAirtimeInTime += timeOnAir reads ...                                *)
LoadUsed(t) ==
  /\ At(t, "load")
  /\ task' = [task EXCEPT ![t].at = "store", ![t].load = used]
  /\ UNCHANGED <<mutex, clock, budget, sends, reception, queue, hashes, budgetHistory>>

(* ... and writes.                                                         *)
StoreUsed(t) ==
  LET air == AirTime[task[t].size] IN
  /\ At(t, "store")
  /\ Goto(t, "send")
  /\ used' = task[t].load + air
  /\ spent' = spent + air
  /\ UNCHANGED <<mutex, clock, start, sends, reception, queue, hashes, real, raced,
                 everRaced, jumped, cutShort>>

(* The radio stops receiving while it sends; a packet that nobody has read *)
(* may be gone with it.                                                    *)
BeginTransmit(t) ==
  /\ At(t, "send") /\ mutex = "nobody"
  /\ mutex' = t
  /\ Goto(t, "air")
  /\ buffer' \in {buffer, Null}
  /\ UNCHANGED <<clock, budget, sends, sky, notified, rec, heard, queue, hashes,
                 budgetHistory>>

(* Faulty: a failed transmission returns before the mutex is given. *)
FaultyEndTransmit(t, ok) ==
  /\ At(t, "air")
  /\ mutex' = IF ok THEN "nobody" ELSE mutex
  /\ Return(t)
  /\ IF ok THEN told' = told \cup task[t].list /\ UNCHANGED missed
     ELSE UNCHANGED told /\ missed' = [missed EXCEPT !.refused = @ \cup task[t].list]
  /\ UNCHANGED <<clock, budget, sends, reception, queue, receivedHashes, handled,
                 budgetHistory>>

(* Reception goes on whether or not the radio could send.                  *)
EndTransmit(t, ok) ==
  /\ At(t, "air")
  /\ mutex' = "nobody"
  /\ Return(t)
  /\ IF ok THEN told' = told \cup task[t].list /\ UNCHANGED missed
     ELSE UNCHANGED told /\ missed' = [missed EXCEPT !.refused = @ \cup task[t].list]
  /\ UNCHANGED <<clock, budget, sends, reception, queue, receivedHashes, handled,
                 budgetHistory>>

Transmit(t) ==
  \/ GetTimeOnAir(t)
  \/ ReadTime(t)
  \/ CheckInterval(t)
  \/ CheckBudget(t)
  \/ LoadUsed(t)
  \/ StoreUsed(t)
  \/ BeginTransmit(t)
  \/ \E ok \in BOOLEAN : EndTransmit(t, ok)

-----------------------------------------------------------------------------
(* A packet arrives unless the radio sends: receivedHandler, an interrupt, *)
(* notifies the receive task.                                              *)
receivedHandler(p) ==
  /\ p \in sky /\ mutex \notin Tasks
  /\ sky' = sky \ {p}
  /\ buffer' = p
  /\ notified' = TRUE
  /\ UNCHANGED <<mutex, clock, budget, task, sends, rec, heard, queue, hashes,
                 budgetHistory>>

(* ulTaskNotifyTake(pdTRUE): however many packets arrived, one wake-up.    *)
TakeNotice ==
  /\ rec.at = "wait" /\ notified
  /\ notified' = FALSE
  /\ rec' = [rec EXCEPT !.at = "lock"]
  /\ UNCHANGED <<mutex, clock, budget, task, sends, sky, buffer, heard, queue, hashes,
                 budgetHistory>>

(* readData: the length first, under the mutex, which does not keep new    *)
(* packets away ...                                                        *)
ReadLength ==
  /\ rec.at = "lock" /\ mutex = "nobody"
  /\ mutex' = "receiver"
  /\ rec' = [rec EXCEPT !.at = "data", !.length = buffer]
  /\ UNCHANGED <<clock, budget, task, sends, sky, buffer, notified, heard, queue,
                 hashes, budgetHistory>>

(* Faulty: resets the notification on the way out. *)
FaultyReadBuffer ==
  /\ rec.at = "data"
  /\ mutex' = "nobody"
  /\ notified' = FALSE
  /\ rec' = Waiting
  /\ heard' = heard \cup ({buffer} \cap {rec.length})
  /\ UNCHANGED <<clock, budget, task, sends, sky, buffer, queue, hashes, budgetHistory>>

(* ... then the bytes: of another packet than the length, if one arrived   *)
(* in between, which then may or may not decode.  Bundles, in CBOR or in a *)
(* forward message of BPoL, are for the queue; the table of nodes that an  *)
(* advertisement is entered in is that of PeerTable.                       *)
ReadBuffer ==
  /\ rec.at = "data"
  /\ mutex' = "nobody"
  /\ \E decodes \in {TRUE} \cup {rec.length = buffer} :
       rec' = IF decodes /\ buffer # Null /\ Kind[buffer] \in {"cbor", "forward"}
              THEN [at |-> "queue", length |-> Null, data |-> buffer] ELSE Waiting
  /\ heard' = heard \cup ({buffer} \cap {rec.length})
  /\ UNCHANGED <<clock, budget, task, sends, sky, buffer, notified, queue, hashes,
                 budgetHistory>>

QueueBundle ==
  /\ rec.at = "queue" /\ Len(queue) < QueueLength
  /\ queue' = Append(queue, rec.data)
  /\ rec' = Waiting
  /\ UNCHANGED <<mutex, clock, budget, task, sends, sky, buffer, notified, heard,
                 hashes, budgetHistory>>

ReceiveTask == TakeNotice \/ ReadLength \/ ReadBuffer \/ QueueBundle

(* bundleReceiver enters the hash of every bundle it takes from the queue. *)
bundleReceiver ==
  /\ queue # <<>>
  /\ queue' = Tail(queue)
  /\ receivedHashes' = receivedHashes \cup {Head(queue)}
  /\ handled' = handled \cup {Head(queue)}
  /\ UNCHANGED <<mutex, clock, budget, task, sends, reception, told, missed,
                 budgetHistory>>

-----------------------------------------------------------------------------
(* The bound: ticks, and the one time the GPS task sets the clock. *)
Passed == real.now + (IF jumped THEN 1 ELSE 0)

Tick ==
  /\ Passed < MaxTime
  /\ clock' = clock + 1
  /\ real' = [real EXCEPT !.now = @ + 1]
  /\ UNCHANGED <<mutex, budget, task, sends, reception, queue, hashes, spent, raced,
                 everRaced, jumped, cutShort>>

(* The GPS task sets the clock, once: far ahead.                           *)
SetClock ==
  /\ ~jumped /\ Passed < MaxTime
  /\ jumped' = TRUE
  /\ clock' = clock + Interval + 1
  /\ UNCHANGED <<mutex, budget, task, sends, reception, queue, hashes, real, spent,
                 raced, everRaced, cutShort>>

Next ==
  \/ \E t \in Senders, size \in Sizes : send(t, size)
  \/ \E t \in Advertisers : ListHashes(t) \/ ClearHashes(t)
  \/ \E t \in Tasks : Transmit(t)
  \/ \E p \in Packets : receivedHandler(p)
  \/ ReceiveTask
  \/ bundleReceiver
  \/ Tick
  \/ SetClock

(* Every task gets the processor again and again.  Weak fairness is enough *)
(* for those that wait for the mutex, as the bounds on packets leave none  *)
(* to take it for ever.                                                    *)
Fairness ==
  /\ \A t \in Tasks : WF_vars(Transmit(t))
  /\ \A t \in Advertisers : WF_vars(ClearHashes(t))
  /\ WF_vars(ReceiveTask) /\ WF_vars(bundleReceiver)

Spec == Init /\ [][Next]_vars /\ Fairness

-----------------------------------------------------------------------------
TypeOK ==
  /\ mutex \in Tasks \cup {"receiver", "nobody"}
  /\ clock \in Nat /\ start \in Nat /\ used \in Nat
  /\ task \in [Tasks -> [at : {"idle", "clear", "airtime", "time", "window", "check",
                               "load", "store", "send", "air"},
                         size : AllSizes \cup {0}, time : Nat, realTime : Nat, load : Nat,
                         list : SUBSET Packets]]
  /\ sends \in 0 .. MaxSends
  /\ sky \subseteq Packets /\ buffer \in Packets \cup {Null} /\ notified \in BOOLEAN
  /\ rec \in [at : {"wait", "lock", "data", "queue"},
              length : Packets \cup {Null}, data : Packets \cup {Null}]
  /\ queue \in Seq(Packets) /\ Len(queue) <= QueueLength
  /\ receivedHashes \subseteq Packets
  /\ real \in [now : Nat, start : Nat] /\ spent \in Nat
  /\ {raced, everRaced, jumped, cutShort} \subseteq BOOLEAN
  /\ heard \subseteq Packets \cup {Null}
  /\ handled \subseteq Packets /\ told \subseteq Packets
  /\ missed \in [slipped : SUBSET Packets, refused : SUBSET Packets]

(* The duty cycle, which transmitData checks without a mutex, is kept in   *)
(* every interval in which no two tasks were between the reading of the    *)
(* time and the charge at once; and an interval ends before its time only  *)
(* if that happened or the GPS task set the clock.                         *)
DutyCycleKept ==
  /\ ~raced => spent = used /\ spent <= Limit
  /\ cutShort => everRaced \/ jumped

(* The wake-up is not lost: when the receive task waits without a          *)
(* notification, it has read what the radio holds, and read it whole,      *)
(* although a packet may arrive at any point of loraRecTask and readData.  *)
NewestIsRead ==
  rec.at = "wait" /\ ~notified /\ buffer # Null => buffer \in heard

(* A hash that was entered in receivedHashes and is in neither the set nor *)
(* an advertisement is lost for one of two reasons: it was entered while   *)
(* encodeAdvertisePacket went from the list to clear(), or the             *)
(* advertisement that carried it was refused or not sent.                  *)
HashesAccounted ==
  handled \subseteq receivedHashes \cup told \cup missed.slipped \cup missed.refused
                    \cup UNION {task[t].list : t \in Tasks}

(* No call waits for the radio for ever: every send returns, and a         *)
(* notified receive task reads.                                            *)
RadioIsFreed ==
  /\ \A t \in Tasks : task[t].at # "idle" ~> task[t].at = "idle"
  /\ notified ~> ~notified
=============================================================================
