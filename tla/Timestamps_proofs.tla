-------------------------- MODULE Timestamps_proofs --------------------------
(***************************************************************************)
(* Proofs about Timestamps, for any endpoints, tasks, times and bounds:    *)
(* the types, which bundles can have the same ID, and when the age the     *)
(* node gives a bundle is its true age.                                    *)
(***************************************************************************)
EXTENDS Timestamps, SequenceTheorems, TLAPS

LEMMA FunctionsAreSequences ==
  ASSUME NEW S, NEW n \in Nat, NEW s \in [1 .. n -> S]
  PROVE  s \in Seq(S)
  BY SeqDef

LEMMA ModuloWrap ==
  ASSUME NEW x \in Nat, x < Wrap
  PROVE  (x + Wrap) % Wrap = x
  BY TimestampAssumption

LEMMA ClockConstants ==
  /\ ReadLimit \in Nat /\ HasAccurateClock \in BOOLEAN
  /\ Epoch \in Nat \ {0} /\ DtnEpoch \in Nat \ {0} /\ DtnEpoch < Epoch
  BY GpsAssumption DEF Epoch, DtnEpoch

-----------------------------------------------------------------------------
(* The clock and the types.  Once it is set, the clock shows the true time *)
(* until the next restart.                                                 *)

ClockInv ==
  /\ now <= MaxTime /\ Clock >= 0
  /\ ~isFirstAcquisition \/ updaterAt = "flag" \/ clockSynced => clockOffset = Epoch
  /\ clockSynced => HasAccurateClock

TypeInv == TypeOK /\ ClockInv

LEMMA InitTyped == Init => TypeInv
<1> SUFFICES ASSUME Init PROVE TypeInv
  OBVIOUS
<1>1. GpsTypeOK
  <2>1. now \in Nat /\ clockOffset \in Int /\ timeBase \in Nat
    BY DEF Init, GpsInit
  <2>2. clockSynced \in BOOLEAN /\ isFirstAcquisition \in BOOLEAN
    BY DEF Init, GpsInit
  <2>3. counter \in 0 .. ReadLimit
    BY ClockConstants DEF Init, GpsInit
  <2> QED BY <2>1, <2>2, <2>3 DEF Init, GpsInit, GpsTypeOK
<1>2. now <= MaxTime /\ Clock >= 0
  BY TimestampAssumption DEF Init, GpsInit, Clock
<1>3. ClockInv
  BY <1>2 DEF Init, GpsInit, ClockInv
<1>4. TypeOK
  BY <1>1, TimestampAssumption DEF Init, TypeOK
<1> QED BY <1>3, <1>4 DEF TypeInv

(* gpsUpdater changes nothing but the clock. *)
LEMMA UpdaterTyped ==
  ASSUME TypeInv, Updater
  PROVE  /\ GpsTypeOK' /\ ClockInv'
         /\ UNCHANGED <<now, boots, endpointVars, seen, bundles>>
         /\ timeBase' >= timeBase
         /\ timeBase' = timeBase => clockOffset' = clockOffset
         /\ clockSynced => clockSynced'
<1> USE ClockConstants DEF TypeInv, TypeOK, GpsTypeOK, ClockInv, Clock
<1>1. CASE BeginRound
  BY <1>1 DEF BeginRound, Updater
<1>2. CASE UselessLine
  BY <1>2 DEF UselessLine, Updater
<1>3. CASE InvalidPosition
  BY <1>3 DEF InvalidPosition, Updater
<1>4. CASE Continue
  BY <1>4 DEF Continue, Updater
<1>5. CASE ValidPosition
  <2>1. GpsTypeOK'
    <3>1. now' \in Nat /\ clockOffset' \in Int /\ timeBase' \in Nat
      BY <1>5 DEF ValidPosition
    <3>2. clockSynced' \in BOOLEAN /\ isFirstAcquisition' \in BOOLEAN
      BY <1>5 DEF ValidPosition
    <3>3. counter' \in 0 .. ReadLimit
      BY <1>5 DEF ValidPosition
    <3> QED BY <1>5, <3>1, <3>2, <3>3 DEF ValidPosition
  <2>2. ClockInv'
    BY <1>5 DEF ValidPosition
  <2>3. UNCHANGED <<now, boots, endpointVars, seen, bundles>> /\ UNCHANGED clockSynced
    BY <1>5 DEF ValidPosition, Updater
  <2>4. timeBase' >= timeBase /\ (timeBase' = timeBase => clockOffset' = clockOffset)
    BY <1>5 DEF ValidPosition
  <2> QED BY <2>1, <2>2, <2>3, <2>4, Zenon
<1>6. CASE FlagSynced
  BY <1>6 DEF FlagSynced, Updater
<1> QED BY <1>1, <1>2, <1>3, <1>4, <1>5, <1>6 DEF Updater, UpdaterStep

LEMMA EpochBounded ==
  ASSUME NEW b \in Bundle
  PROVE  b.epoch \in Nat /\ b.epoch <= Epoch
  BY ClockConstants DEF Bundle

(* Bundles are appended, and of the others only the outcome may change. *)
SameBundle(b, c) ==
  /\ ID(b) = ID(c) /\ b.source = c.source /\ b.time = c.time /\ b.seq = c.seq
  /\ b.aged = c.aged /\ b.age = c.age /\ b.receivedAt = c.receivedAt /\ b.ep = c.ep
  /\ b.boot = c.boot /\ b.raced = c.raced /\ b.born = c.born /\ b.base = c.base
  /\ b.epoch = c.epoch

Kept ==
  /\ DOMAIN bundles' = DOMAIN bundles
  /\ \A i \in DOMAIN bundles : SameBundle(bundles'[i], bundles[i])

Appended(b) ==
  /\ b \in Bundle
  /\ bundles' = Append(bundles, b)
  /\ DOMAIN bundles' = DOMAIN bundles \cup {Len(bundles) + 1}
  /\ Len(bundles) + 1 \notin DOMAIN bundles
  /\ bundles'[Len(bundles) + 1] = b
  /\ \A i \in DOMAIN bundles : bundles'[i] = bundles[i]

LEMMA KeepsOthers ==
  ASSUME bundles \in Seq(Bundle), NEW b \in Bundle, bundles' = Append(bundles, b)
  PROVE  bundles' \in Seq(Bundle) /\ Appended(b)
<1>1. /\ bundles' \in Seq(Bundle) /\ Len(bundles') = Len(bundles) + 1
      /\ bundles'[Len(bundles) + 1] = b
      /\ \A i \in 1 .. Len(bundles) : bundles'[i] = bundles[i]
  BY AppendProperties
<1>2. /\ DOMAIN bundles = 1 .. Len(bundles) /\ DOMAIN bundles' = 1 .. Len(bundles')
      /\ Len(bundles) \in Nat
  BY <1>1, LenProperties
<1> QED BY <1>1, <1>2 DEF Appended

(* The bundle that a call of send makes. *)
LEMMA Creation ==
  ASSUME TypeInv, NEW t \in Senders, CreateBundle(t)
  PROVE  /\ sending[t] \in Call /\ sending[t].at = "create"
         /\ bundles' \in Seq(Bundle)
         /\ \E b : Appended(b) /\
              LET s == sending[t] IN
              /\ b.source = (IF s.anonymous THEN None ELSE s.ep)
              /\ b.time = s.time /\ b.seq = s.seq /\ b.aged = (s.time = 0) /\ b.age = 0
              /\ b.receivedAt = Clock /\ b.ep = s.ep /\ b.boot = boots /\ b.raced = s.raced
              /\ b.born = (IF s.time = 0 THEN now ELSE s.time - Epoch) /\ b.base = timeBase
              /\ b.epoch = (IF s.time = 0 THEN 0 ELSE Epoch)
<1> DEFINE s == sending[t]
           b == NewBundle(IF s.anonymous THEN None ELSE s.ep, s.time, s.seq,
                          s.time = 0, 0, s.ep, s.raced,
                          IF s.time = 0 THEN now ELSE s.time - Epoch,
                          IF s.time = 0 THEN 0 ELSE Epoch)
<1>1. s \in Call /\ s.at = "create"
  BY DEF CreateBundle, Idle, TypeInv, TypeOK
<1>2. /\ s.ep \in Endpoints /\ s.anonymous \in BOOLEAN /\ s.time \in Nat /\ s.seq \in Nat
      /\ s.raced \in BOOLEAN
  BY <1>1 DEF Call
<1>3. bundles' = Append(bundles, b)
  BY DEF CreateBundle
<1>4. Clock \in Nat
  BY DEF TypeInv, TypeOK, ClockInv, GpsTypeOK, Clock
<1> SUFFICES /\ bundles' \in Seq(Bundle)
             /\ \E c : Appended(c) /\
                  /\ c.source = (IF s.anonymous THEN None ELSE s.ep)
                  /\ c.time = s.time /\ c.seq = s.seq /\ c.aged = (s.time = 0) /\ c.age = 0
                  /\ c.receivedAt = Clock /\ c.ep = s.ep /\ c.boot = boots /\ c.raced = s.raced
                  /\ c.born = (IF s.time = 0 THEN now ELSE s.time - Epoch) /\ c.base = timeBase
                  /\ c.epoch = (IF s.time = 0 THEN 0 ELSE Epoch)
  BY <1>1
<1> HIDE DEF s
<1>5. /\ (s.time = 0) \in BOOLEAN /\ (IF s.time = 0 THEN now ELSE s.time - Epoch) \in Int
      /\ (IF s.time = 0 THEN 0 ELSE Epoch) \in {0, Epoch, DtnEpoch}
  BY <1>2, ClockConstants DEF TypeInv, TypeOK, GpsTypeOK
<1>6. b \in Bundle
  BY <1>2, <1>4, <1>5 DEF NewBundle, Bundle, Outcomes, TypeInv, TypeOK, GpsTypeOK
<1>7. /\ b.source = (IF s.anonymous THEN None ELSE s.ep)
      /\ b.time = s.time /\ b.seq = s.seq /\ b.aged = (s.time = 0) /\ b.age = 0
      /\ b.receivedAt = Clock /\ b.ep = s.ep /\ b.boot = boots /\ b.raced = s.raced
      /\ b.born = (IF s.time = 0 THEN now ELSE s.time - Epoch) /\ b.base = timeBase
      /\ b.epoch = (IF s.time = 0 THEN 0 ELSE Epoch)
  BY DEF NewBundle
<1> HIDE DEF b
<1>8. bundles' \in Seq(Bundle) /\ Appended(b)
  BY <1>3, <1>6, KeepsOthers DEF TypeInv, TypeOK
<1> QED BY <1>7, <1>8

(* What becomes of a call of send. *)
LEMMA SendTyped ==
  ASSUME TypeInv, NEW t \in Senders, Send(t)
  PROVE  TypeOK' /\ UNCHANGED <<now, gpsVars, boots, seen>>
<1> USE DEF TypeInv, TypeOK
<1>0. Clock \in Nat
  BY DEF ClockInv, GpsTypeOK, Clock
<1>1. GpsTypeOK' /\ UNCHANGED <<now, gpsVars, boots, seen>>
  BY DEF Send, BeginSend, CheckClock, CompareTime, Increment, StampTime, CreateBundle,
         GpsTypeOK, gpsVars
<1>2. ASSUME NEW e \in Endpoints, NEW anonymous \in BOOLEAN, BeginSend(t, e, anonymous)
      PROVE  TypeOK'
  <2> DEFINE new == [at |-> "check", ep |-> e, anonymous |-> anonymous, time |-> 0,
                     seq |-> sequenceNum[e],
                     raced |-> {u \in Senders \ {t} : sending[u] # Idle /\ sending[u].ep = e} # {}]
  <2>1. new \in Call
    BY DEF Call
  <2>2. ASSUME NEW u \in Senders, sending[u] # Idle
        PROVE  [sending[u] EXCEPT !.raced = TRUE] \in Call
    <3>1. sending[u] \in Call
      BY <2>2
    <3> QED BY ONLY <3>1 DEF Call
  <2>3. /\ DOMAIN sending' = Senders /\ sending' = [u \in Senders |-> sending'[u]]
        /\ \A u \in Senders : \/ sending'[u] = new
                              \/ sending[u] # Idle /\ sending'[u] = [sending[u] EXCEPT !.raced = TRUE]
                              \/ sending'[u] = sending[u]
    BY <1>2 DEF BeginSend
  <2> HIDE DEF new
  <2>4. sending' \in [Senders -> Call \cup {Idle}]
    <3>1. ASSUME NEW u \in Senders PROVE sending'[u] \in Call \cup {Idle}
      <4>1. sending[u] \in Call \cup {Idle}
        OBVIOUS
      <4> QED BY ONLY <2>1, <2>2, <2>3, <4>1
    <3> QED BY ONLY <2>3, <3>1
  <2>5. UNCHANGED <<boots, sequenceNum, lastCreationTime, seen, bundles>>
    BY <1>2 DEF BeginSend
  <2> QED BY <1>1, <2>4, <2>5
<1>a. ASSUME sending[t].at # "idle" PROVE sending[t] \in Call
  BY <1>a DEF Idle
<1>b. ASSUME NEW c \in Call, sending' = [sending EXCEPT ![t] = c]
      PROVE  sending' \in [Senders -> Call \cup {Idle}]
  BY <1>b
<1>3. CASE CheckClock(t)
  <2>1. sending[t] \in Call
    BY <1>3, <1>a DEF CheckClock
  <2>2. /\ [sending[t] EXCEPT !.at = "compare", !.time = Clock, !.seq = 0] \in Call
        /\ [sending[t] EXCEPT !.at = "unsynced"] \in Call
    BY <2>1, <1>0 DEF Call
  <2>3. sending' \in [Senders -> Call \cup {Idle}]
    BY <1>3, <2>2 DEF CheckClock
  <2> QED BY <1>1, <1>3, <2>3 DEF CheckClock
<1>4. CASE CompareTime(t)
  <2>1. sending[t] \in Call
    BY <1>4, <1>a DEF CompareTime
  <2>2. /\ [sending[t] EXCEPT !.at = "repeated", !.seq = sequenceNum[sending[t].ep]] \in Call
        /\ [sending[t] EXCEPT !.at = "stamp"] \in Call
    BY <2>1 DEF Call
  <2> QED BY <1>1, <1>4, <2>2 DEF CompareTime
<1>5. CASE Increment(t)
  <2>1. sending[t] \in Call
    BY <1>5, <1>a DEF Increment
  <2>2. [sending[t] EXCEPT !.at = "create"] \in Call /\ [sending[t] EXCEPT !.at = "stamp"] \in Call
    BY <2>1 DEF Call
  <2>3. sending' \in [Senders -> Call \cup {Idle}]
    BY <1>5, <2>2 DEF Increment
  <2>4. sequenceNum' \in [Endpoints -> Nat]
    BY <1>5, <2>1 DEF Increment, Call
  <2> QED BY <1>1, <1>5, <2>3, <2>4 DEF Increment
<1>6. CASE StampTime(t)
  <2>1. sending[t] \in Call
    BY <1>6, <1>a DEF StampTime
  <2>2. [sending[t] EXCEPT !.seq = sequenceNum[sending[t].ep], !.at = "create"] \in Call
    BY <2>1 DEF Call
  <2>3. sending' \in [Senders -> Call \cup {Idle}]
    BY <1>6, <2>2 DEF StampTime
  <2>4. lastCreationTime' \in [Endpoints -> Nat]
    BY <1>6, <2>1 DEF StampTime, Call
  <2> QED BY <1>1, <1>6, <2>3, <2>4 DEF StampTime
<1>7. CASE CreateBundle(t)
  <2>1. bundles' \in Seq(Bundle)
    BY <1>7, Creation
  <2>2. sending' \in [Senders -> Call \cup {Idle}]
    BY <1>7 DEF CreateBundle
  <2> QED BY <1>1, <1>7, <2>1, <2>2 DEF CreateBundle
<1>8. CASE \E e \in Endpoints, anonymous \in BOOLEAN : BeginSend(t, e, anonymous)
  BY <1>1, <1>2, <1>8, Zenon
<1> QED BY <1>8, Zenon, <1>3, <1>4, <1>5, <1>6, <1>7 DEF Send

(* Steps that concern neither endpoints nor new bundles. *)
Quiet ==
  /\ Kept /\ UNCHANGED <<boots, endpointVars>>
  /\ now' >= now
  /\ timeBase' >= timeBase
  /\ timeBase' = timeBase => clockOffset' = clockOffset
  /\ clockSynced => clockSynced'

LEMMA KeepsBundles ==
  ASSUME UNCHANGED bundles
  PROVE  Kept
  BY DEF Kept, SameBundle, ID

LEMMA KeepsAllButOutcome ==
  ASSUME bundles \in Seq(Bundle), NEW i \in DOMAIN bundles, NEW o \in Outcomes,
         SetOutcome(i, o)
  PROVE  bundles' \in Seq(Bundle) /\ Kept
<1>1. bundles[i] \in Bundle /\ i \in 1 .. Len(bundles)
  OBVIOUS
<1>2. [bundles[i] EXCEPT !.outcome = o] \in Bundle
  BY <1>1 DEF Bundle
<1>3. bundles' = [bundles EXCEPT ![i] = [bundles[i] EXCEPT !.outcome = o]]
  BY DEF SetOutcome
<1>4. bundles' \in Seq(Bundle)
  BY <1>1, <1>2, <1>3, ExceptSeq
<1>5. SameBundle([bundles[i] EXCEPT !.outcome = o], bundles[i])
  BY <1>1 DEF SameBundle, ID, Bundle
<1>6. DOMAIN bundles' = DOMAIN bundles
  BY <1>3
<1>7. ASSUME NEW j \in DOMAIN bundles PROVE SameBundle(bundles'[j], bundles[j])
  BY <1>3, <1>5 DEF SameBundle, ID
<1> QED BY <1>4, <1>6, <1>7 DEF Kept

LEMMA ArrivalTyped ==
  ASSUME TypeInv, NEW age \in ForeignAges, NEW aged \in BOOLEAN,
             NEW epoch \in {0, Epoch, DtnEpoch},
         Arrive(now - age, aged, epoch)
  PROVE  TypeOK' /\ \E b : Appended(b) /\
           /\ b.ep = Foreign /\ b.boot = boots /\ b.aged = aged
           /\ b.age = (IF aged THEN age ELSE 0) /\ b.base = timeBase
           /\ b.receivedAt = Clock /\ b.born = now - age
           /\ b.time = (IF epoch # 0 THEN now - age + epoch ELSE 0) /\ b.epoch = epoch
<1> DEFINE b == NewBundle(Foreign, IF epoch # 0 THEN now - age + epoch ELSE 0, Len(bundles), aged,
                          IF aged THEN now - (now - age) ELSE 0, Foreign, FALSE, now - age, epoch)
<1>1. age \in Nat /\ age < DtnEpoch /\ epoch \in Nat /\ now \in Nat /\ Clock \in Nat
      /\ DtnEpoch \in Nat /\ (epoch # 0 => DtnEpoch <= epoch)
      /\ Len(bundles) \in Nat
  BY TimestampAssumption, ClockConstants DEF TypeInv, TypeOK, ClockInv, GpsTypeOK, Clock
<1>2. /\ (IF epoch # 0 THEN now - age + epoch ELSE 0) \in Nat
      /\ (IF aged THEN now - (now - age) ELSE 0) = (IF aged THEN age ELSE 0)
      /\ (IF aged THEN age ELSE 0) \in Nat /\ now - age \in Int
  BY <1>1
<1>3. b \in Bundle
  BY <1>1, <1>2 DEF NewBundle, Bundle, Outcomes, TypeInv, TypeOK, GpsTypeOK
<1>4. bundles' = Append(bundles, b)
  BY DEF Arrive
<1>5. bundles' \in Seq(Bundle) /\ Appended(b)
  BY <1>3, <1>4, KeepsOthers DEF TypeInv, TypeOK
<1>6. TypeOK'
  BY <1>5 DEF Arrive, TypeInv, TypeOK, GpsTypeOK, gpsVars, endpointVars
<1>7. /\ b.ep = Foreign /\ b.boot = boots /\ b.aged = aged
      /\ b.age = (IF aged THEN age ELSE 0) /\ b.base = timeBase
      /\ b.receivedAt = Clock /\ b.born = now - age
      /\ b.time = (IF epoch # 0 THEN now - age + epoch ELSE 0) /\ b.epoch = epoch
  BY <1>2 DEF NewBundle
<1> HIDE DEF b
<1> QED BY <1>5, <1>6, <1>7

LEMMA RestartTyped ==
  ASSUME TypeInv, Restart
  PROVE  TypeInv' /\ Kept
<1> USE TimestampAssumption, ClockConstants DEF TypeInv, TypeOK, GpsTypeOK
<1>1. GpsTypeOK' /\ ClockInv'
  <2>0. now' = now + 1 /\ now < MaxTime /\ timeBase' = timeBase + 1 /\ counter' = 0
        /\ clockOffset' = -now'
    BY DEF Restart, GpsRestart
  <2>1. now' \in Nat /\ clockOffset' \in Int /\ timeBase' \in Nat /\ counter' \in 0 .. ReadLimit
    <3>1. now' \in Nat /\ timeBase' \in Nat
      BY <2>0
    <3>2. -now' \in Int
      BY <3>1
    <3> QED BY <2>0, <3>1, <3>2
  <2>2. updaterAt' = "wait" /\ clockSynced' = FALSE /\ isFirstAcquisition' = TRUE
    BY DEF Restart, GpsRestart
  <2>3. now' <= MaxTime /\ Clock' >= 0
    BY <2>0, <2>1 DEF Clock
  <2> QED BY <2>1, <2>2, <2>3 DEF ClockInv
<1>2. ASSUME NEW i \in DOMAIN bundles
      PROVE  bundles'[i] \in Bundle /\ SameBundle(bundles'[i], bundles[i])
  <2>1. bundles[i] \in Bundle
    OBVIOUS
  <2>2. bundles'[i] = [bundles[i] EXCEPT !.outcome = "lost"]
    BY DEF Restart
  <2> QED BY ONLY <2>1, <2>2 DEF Bundle, Outcomes, SameBundle, ID
<1>3. DOMAIN bundles' = DOMAIN bundles /\ bundles' = [i \in DOMAIN bundles |-> bundles'[i]]
  BY DEF Restart
<1>4. DOMAIN bundles = 1 .. Len(bundles) /\ Len(bundles) \in Nat
  OBVIOUS
<1>5. bundles' \in [1 .. Len(bundles) -> Bundle]
  BY <1>2, <1>3, <1>4
<1>6. bundles' \in Seq(Bundle)
  BY <1>4, <1>5, FunctionsAreSequences
<1>7. TypeOK'
  <2>1. /\ sequenceNum' = [e \in Endpoints |-> 0] /\ lastCreationTime' = [e \in Endpoints |-> 0]
        /\ sending' = [t \in Senders |-> Idle] /\ seen' = {}
    BY DEF Restart
  <2>2. boots' \in 0 .. MaxBoots
    BY SMTT(20) DEF Restart
  <2>3. sequenceNum' \in [Endpoints -> Nat] /\ lastCreationTime' \in [Endpoints -> Nat]
    BY <2>1
  <2>4. sending' \in [Senders -> Call \cup {Idle}]
    BY <2>1
  <2> QED BY <1>1, <1>6, <2>1, <2>2, <2>3, <2>4
<1> QED BY <1>1, <1>2, <1>3, <1>7 DEF Kept

LEMMA QuietTyped ==
  ASSUME TypeInv,
         \/ \E i \in DOMAIN bundles : Receive(i) \/ CheckExpiration(i)
         \/ Updater \/ Tick \/ UNCHANGED vars
  PROVE  TypeInv' /\ Quiet
<1> USE DEF TypeInv
<1>1. ASSUME NEW i \in DOMAIN bundles, Receive(i) PROVE TypeInv' /\ Quiet
  <2>1. PICK o \in Outcomes : SetOutcome(i, o)
    BY <1>1 DEF Receive, Outcomes
  <2>2. bundles' \in Seq(Bundle) /\ Kept
    BY <2>1, KeepsAllButOutcome DEF TypeOK
  <2>3. bundles[i] \in Bundle
    BY DEF TypeOK
  <2>4. ID(bundles[i]) \in (Endpoints \cup {None, Foreign}) \X Nat \X Nat
    BY <2>3 DEF Bundle, ID
  <2>5. seen' \subseteq (Endpoints \cup {None, Foreign}) \X Nat \X Nat
    BY <1>1, <2>4 DEF Receive, TypeOK
  <2>6. UNCHANGED <<now, gpsVars, boots, endpointVars>>
    BY <1>1 DEF Receive
  <2>7. TypeOK'
    BY <2>2, <2>5, <2>6 DEF TypeOK, GpsTypeOK, gpsVars, endpointVars
  <2>8. ClockInv'
    BY <2>6 DEF ClockInv, Clock, gpsVars
  <2> QED BY <2>2, <2>6, <2>7, <2>8 DEF Quiet, TypeOK, GpsTypeOK, gpsVars
<1>2. ASSUME NEW i \in DOMAIN bundles, CheckExpiration(i) PROVE TypeInv' /\ Quiet
  <2>1. SetOutcome(i, "expired") /\ "expired" \in Outcomes
    BY <1>2 DEF CheckExpiration, Outcomes
  <2>2. bundles' \in Seq(Bundle) /\ Kept
    BY <2>1, KeepsAllButOutcome DEF TypeOK
  <2>3. UNCHANGED <<now, gpsVars, boots, endpointVars, seen>>
    BY <1>2 DEF CheckExpiration
  <2>4. TypeOK'
    BY <2>2, <2>3 DEF TypeOK, GpsTypeOK, gpsVars, endpointVars
  <2>5. ClockInv'
    BY <2>3 DEF ClockInv, Clock, gpsVars
  <2> QED BY <2>2, <2>3, <2>4, <2>5 DEF Quiet, TypeOK, GpsTypeOK, gpsVars
<1>3. CASE Updater
  <2>1. TypeOK'
    BY <1>3, UpdaterTyped DEF TypeOK, endpointVars
  <2>2. Kept /\ now' >= now
    BY <1>3, UpdaterTyped, KeepsBundles DEF TypeOK, GpsTypeOK
  <2> QED BY <1>3, <2>1, <2>2, UpdaterTyped DEF Quiet
<1>4. CASE Tick
  <2>1. TypeOK'
    BY <1>4 DEF Tick, TypeOK, GpsTypeOK, gpsVars, endpointVars
  <2>2. ClockInv'
    BY <1>4, TimestampAssumption DEF Tick, ClockInv, Clock, gpsVars, TypeOK, GpsTypeOK
  <2>3. Kept
    BY <1>4, KeepsBundles DEF Tick
  <2> QED BY <1>4, <2>1, <2>2, <2>3 DEF Quiet, Tick, TypeOK, GpsTypeOK, gpsVars
<1>5. CASE UNCHANGED vars
  <2>1. TypeOK'
    BY <1>5 DEF vars, TypeOK, GpsTypeOK, gpsVars, endpointVars
  <2>2. ClockInv'
    BY <1>5 DEF vars, ClockInv, Clock, gpsVars
  <2>3. Kept
    BY <1>5, KeepsBundles DEF vars
  <2> QED BY <1>5, <2>1, <2>2, <2>3 DEF Quiet, vars, TypeOK, GpsTypeOK, gpsVars
<1> QED BY <1>1, <1>2, <1>3, <1>4, <1>5

LEMMA NextTyped == TypeInv /\ [Next]_vars => TypeInv'
<1> SUFFICES ASSUME TypeInv, [Next]_vars PROVE TypeInv'
  OBVIOUS
<1>1. ASSUME UNCHANGED <<now, gpsVars>> PROVE ClockInv'
  BY <1>1 DEF TypeInv, ClockInv, Clock, gpsVars
<1>2. ASSUME NEW t \in Senders, Send(t) PROVE TypeInv'
  BY <1>1, <1>2, SendTyped DEF TypeInv
<1>3. ASSUME NEW age \in ForeignAges, NEW aged \in BOOLEAN,
             NEW epoch \in {0, Epoch, DtnEpoch},
             Arrive(now - age, aged, epoch)
      PROVE  TypeInv'
  <2>1. TypeOK'
    BY <1>3, ArrivalTyped
  <2>2. UNCHANGED <<now, gpsVars>>
    BY <1>3 DEF Arrive
  <2> QED BY <1>1, <2>1, <2>2 DEF TypeInv
<1>4. CASE Restart
  BY <1>4, RestartTyped
<1>5. CASE \/ \E i \in DOMAIN bundles : Receive(i) \/ CheckExpiration(i)
           \/ Updater \/ Tick \/ UNCHANGED vars
  BY <1>5, QuietTyped
<1> QED BY <1>2, <1>3, <1>4, <1>5 DEF Next

(* Every variable keeps its type, and the clock its relation to the true   *)
(* time.                                                                   *)
THEOREM TypeCorrect == Spec => []TypeOK
<1>1. TypeInv => TypeOK
  BY DEF TypeInv
<1> QED BY <1>1, InitTyped, NextTyped, PTL DEF Spec

-----------------------------------------------------------------------------
(* Ages.  What is known of every bundle: when it was created, and, as long *)
(* as the clock it was received by goes on, its age by that clock.         *)

Truthful(b) ==
  /\ b.base <= timeBase
  /\ b.born <= now /\ b.born > -Epoch
  /\ b.time # 0 => b.time = b.born + b.epoch
  /\ b.aged /\ b.base = timeBase => Clock - b.receivedAt + b.age = now - b.born

AgeInv ==
  /\ \A i \in DOMAIN bundles : Truthful(bundles[i])
  /\ \A t \in Senders : sending[t] # Idle => sending[t].time <= now + Epoch

LEMMA AgeInit == Init => AgeInv
  BY DEF Init, AgeInv

LEMMA AgeQuiet ==
  ASSUME TypeInv, TypeInv', AgeInv, Quiet
  PROVE  AgeInv'
<1> USE ClockConstants
<1>1. ASSUME NEW i \in DOMAIN bundles' PROVE Truthful(bundles[i]) /\ SameBundle(bundles'[i], bundles[i])
  BY DEF AgeInv, Quiet, Kept
<1>2. ASSUME NEW i \in DOMAIN bundles' PROVE Truthful(bundles[i])'
  <2> DEFINE b == bundles[i]
             c == bundles'[i]
  <2>1. b \in Bundle /\ c \in Bundle
    BY DEF Quiet, Kept, TypeInv, TypeOK
  <2>2. /\ b.base \in Nat /\ b.born \in Int /\ b.time \in Nat /\ b.receivedAt \in Nat
        /\ b.age \in Nat
    BY <2>1 DEF Bundle
  <2>3. /\ c.base = b.base /\ c.born = b.born /\ c.time = b.time /\ c.receivedAt = b.receivedAt
        /\ c.age = b.age /\ c.aged = b.aged /\ c.epoch = b.epoch
    BY <1>1 DEF SameBundle
  <2>4. /\ b.base <= timeBase /\ b.born <= now /\ b.born > -Epoch
        /\ b.time # 0 => b.time = b.born + b.epoch
        /\ b.aged /\ b.base = timeBase => Clock - b.receivedAt + b.age = now - b.born
    BY <1>1 DEF Truthful
  <2>5. /\ now \in Nat /\ now' \in Nat /\ timeBase \in Nat /\ timeBase' \in Nat
        /\ clockOffset \in Int /\ clockOffset' \in Int
    BY DEF TypeInv, TypeOK, GpsTypeOK
  <2> HIDE DEF b, c
  <2>6. c.base <= timeBase' /\ c.born <= now' /\ c.born > -Epoch
        /\ (c.time # 0 => c.time = c.born + c.epoch)
    BY <2>2, <2>3, <2>4, <2>5 DEF Quiet
  <2>7. ASSUME c.aged, c.base = timeBase' PROVE Clock' - c.receivedAt + c.age = now' - c.born
    <3>1. timeBase' = timeBase /\ b.base = timeBase /\ clockOffset' = clockOffset
      BY <2>2, <2>3, <2>4, <2>5, <2>7 DEF Quiet
    <3>2. Clock - b.receivedAt + b.age = now - b.born
      BY <2>3, <2>4, <2>7, <3>1
    <3>3. (now + clockOffset) - b.receivedAt + b.age = now - b.born
      BY <3>2 DEF Clock
    <3>4. (now' + clockOffset) - b.receivedAt + b.age = now' - b.born
      BY <2>2, <2>5, <3>3
    <3> QED BY <2>3, <3>1, <3>4 DEF Clock
  <2> QED BY <2>6, <2>7 DEF Truthful, c
<1>3. ASSUME NEW t \in Senders, sending'[t] # Idle PROVE sending'[t].time <= now' + Epoch
  <2>1. sending' = sending /\ now' >= now /\ sending[t] \in Call
    BY <1>3 DEF Quiet, endpointVars, TypeInv, TypeOK
  <2>2. sending[t].time <= now + Epoch /\ sending[t].time \in Nat
    BY <1>3, <2>1 DEF AgeInv, Call
  <2> QED BY <2>1, <2>2 DEF TypeInv, TypeOK, GpsTypeOK
<1> QED BY <1>2, <1>3 DEF AgeInv

(* Calls of other tasks go on as they are; they may only be disturbed. *)
LEMMA OtherCalls ==
  ASSUME TypeInv, NEW t \in Senders, Send(t), NEW u \in Senders, u # t
  PROVE  /\ sending'[u] = Idle <=> sending[u] = Idle
         /\ sending[u] # Idle =>
              sending'[u] = sending[u] \/ sending'[u] = [sending[u] EXCEPT !.raced = TRUE]
<1>1. sending[u] \in Call \cup {Idle} /\ Idle \notin Call
  BY DEF TypeInv, TypeOK, Call, Idle
<1>2. sending[u] # Idle => [sending[u] EXCEPT !.raced = TRUE] \in Call
  BY <1>1 DEF Call
<1>3. ASSUME NEW e \in Endpoints, NEW anonymous \in BOOLEAN, BeginSend(t, e, anonymous)
      PROVE  \/ sending'[u] = sending[u]
             \/ /\ sending[u] # Idle
                /\ sending'[u] = [sending[u] EXCEPT !.raced = TRUE]
  BY <1>3 DEF BeginSend
<1>4. CASE CheckClock(t) \/ CompareTime(t) \/ Increment(t) \/ StampTime(t) \/ CreateBundle(t)
  <2>1. sending'[u] = sending[u]
    BY <1>4 DEF CheckClock, CompareTime, Increment, StampTime, CreateBundle, TypeInv, TypeOK
  <2> QED BY <2>1
<1> QED BY <1>1, <1>2, <1>3, <1>4 DEF Send

LEMMA AgeSend ==
  ASSUME TypeInv, AgeInv, NEW t \in Senders, Send(t)
  PROVE  AgeInv'
<1>0. /\ UNCHANGED <<now, gpsVars, boots>>
      /\ now \in Nat /\ Epoch \in Nat \ {0} /\ clockOffset \in Int /\ timeBase \in Nat
  BY SendTyped, ClockConstants DEF TypeInv, TypeOK, GpsTypeOK
<1>1. ASSUME NEW i \in DOMAIN bundles PROVE Truthful(bundles[i]) /\
        (bundles'[i] = bundles[i] => Truthful(bundles[i])')
  BY <1>0 DEF AgeInv, Truthful, Clock, gpsVars
<1>2. ASSUME NEW i \in DOMAIN bundles' PROVE Truthful(bundles[i])'
  <2>1. CASE UNCHANGED bundles
    BY <2>1, <1>1, <1>2
  <2>2. CASE CreateBundle(t)
    <3> DEFINE s == sending[t]
    <3>0. s \in Call /\ s # Idle /\ s.time \in Nat
      BY <2>2, Creation DEF Call, Idle
    <3>1. PICK b : /\ Appended(b)
                   /\ b.time = s.time /\ b.aged = (s.time = 0) /\ b.age = 0
                   /\ b.receivedAt = Clock /\ b.base = timeBase
                   /\ b.born = (IF s.time = 0 THEN now ELSE s.time - Epoch)
                   /\ b.epoch = (IF s.time = 0 THEN 0 ELSE Epoch)
      <4>1. \E b : Appended(b) /\
              /\ b.source = (IF s.anonymous THEN None ELSE s.ep)
              /\ b.time = s.time /\ b.seq = s.seq /\ b.aged = (s.time = 0) /\ b.age = 0
              /\ b.receivedAt = Clock /\ b.ep = s.ep /\ b.boot = boots /\ b.raced = s.raced
              /\ b.born = (IF s.time = 0 THEN now ELSE s.time - Epoch) /\ b.base = timeBase
              /\ b.epoch = (IF s.time = 0 THEN 0 ELSE Epoch)
        BY <2>2, Creation
      <4> HIDE DEF s
      <4> QED BY <4>1
    <3>2. s.time <= now + Epoch
      BY <3>0 DEF AgeInv
    <3> HIDE DEF s
    <3>3. Truthful(b)'
      <4>1. /\ b.base <= timeBase /\ b.born <= now /\ b.born > -Epoch
            /\ b.time # 0 => b.time = b.born + b.epoch
        BY <1>0, <3>0, <3>1, <3>2
      <4>2. b.aged => s.time = 0
        BY <3>1, Zenon
      <4>3. b.aged => b.born = now
        BY <3>1, <4>2, Zenon
      <4>4. b.aged => Clock - b.receivedAt + b.age = now - b.born
        BY <1>0, <3>1, <4>3 DEF Clock
      <4> QED BY <1>0, <4>1, <4>4 DEF Truthful, Clock, gpsVars
    <3>4. CASE i = Len(bundles) + 1
      BY <3>1, <3>3, <3>4 DEF Appended, Truthful
    <3>5. CASE i \in DOMAIN bundles
      BY <3>1, <3>5, <1>1 DEF Appended
    <3> QED BY <1>2, <3>1, <3>4, <3>5 DEF Appended
  <2> QED BY <2>1, <2>2 DEF Send, BeginSend, CheckClock, CompareTime, Increment, StampTime
<1>3. ASSUME NEW u \in Senders, sending'[u] # Idle PROVE sending'[u].time <= now' + Epoch
  <2>1. CASE u # t
    <3>1. sending[u] # Idle /\ sending[u] \in Call /\ sending'[u].time = sending[u].time
      BY <1>3, <2>1, OtherCalls DEF TypeInv, TypeOK, Call
    <3> QED BY <1>0, <3>1 DEF AgeInv
  <2>2. CASE u = t
    <3>1. sending'[t].time = 0 \/ (sending[t] # Idle /\ sending'[t].time = sending[t].time)
          \/ (clockSynced /\ sending'[t].time = Clock)
      <4>0. sending \in [Senders -> Call \cup {Idle}]
        BY DEF TypeInv, TypeOK
      <4>1. CASE \E e \in Endpoints, anonymous \in BOOLEAN : BeginSend(t, e, anonymous)
        BY <4>1 DEF BeginSend
      <4>2. CASE sending[t] # Idle
        <5>1. sending[t] \in Call
          BY <4>0, <4>2
        <5>2. CASE CheckClock(t)
          BY <4>0, <4>2, <5>1, <5>2 DEF CheckClock, Call
        <5>3. CASE CompareTime(t)
          BY <4>0, <4>2, <5>1, <5>3 DEF CompareTime, Call
        <5>4. CASE Increment(t) \/ StampTime(t)
          BY <4>0, <4>2, <5>1, <5>4 DEF Increment, StampTime, Call
        <5>5. ~CreateBundle(t)
          BY <1>3, <2>2, <4>0 DEF CreateBundle
        <5> QED BY <4>1, <5>2, <5>3, <5>4, <5>5 DEF Send
      <4>3. CASE sending[t] = Idle
        BY <4>1, <4>3 DEF Send, CheckClock, CompareTime, Increment, StampTime, CreateBundle, Idle
      <4> QED BY <4>2, <4>3
    <3> QED BY <1>0, <2>2, <3>1 DEF AgeInv, TypeInv, ClockInv, Clock
  <2> QED BY <2>1, <2>2
<1> QED BY <1>2, <1>3 DEF AgeInv

LEMMA AgeNext == TypeInv /\ AgeInv /\ [Next]_vars => AgeInv'
<1> SUFFICES ASSUME TypeInv, AgeInv, [Next]_vars PROVE AgeInv'
  OBVIOUS
<1>0. /\ now \in Nat /\ Epoch \in Nat \ {0} /\ clockOffset \in Int /\ timeBase \in Nat
      /\ bundles \in Seq(Bundle)
  BY ClockConstants DEF TypeInv, TypeOK, GpsTypeOK
<1>1. ASSUME NEW t \in Senders, Send(t) PROVE AgeInv'
  BY <1>1, AgeSend
<1>2. ASSUME NEW age \in ForeignAges, NEW aged \in BOOLEAN,
             NEW epoch \in {0, Epoch, DtnEpoch},
             Arrive(now - age, aged, epoch)
      PROVE  AgeInv'
  <2>1. UNCHANGED <<now, gpsVars, sending>>
    BY <1>2 DEF Arrive, endpointVars
  <2>2. age \in Nat /\ age < Epoch /\ epoch \in Nat /\ epoch <= Epoch
    BY TimestampAssumption, ClockConstants, <1>0
  <2>3. PICK b : /\ Appended(b) /\ b.aged = aged /\ b.age = (IF aged THEN age ELSE 0)
                 /\ b.base = timeBase /\ b.receivedAt = Clock /\ b.born = now - age
                 /\ b.time = (IF epoch # 0 THEN now - age + epoch ELSE 0) /\ b.epoch = epoch
    BY <1>2, ArrivalTyped
  <2>4. Truthful(b)'
    BY <1>0, <2>1, <2>2, <2>3 DEF Truthful, Clock, gpsVars
  <2>5. ASSUME NEW i \in DOMAIN bundles' PROVE Truthful(bundles[i])'
    <3>1. CASE i = Len(bundles) + 1
      BY <2>3, <2>4, <3>1 DEF Appended, Truthful
    <3>2. CASE i \in DOMAIN bundles
      BY <2>1, <2>3, <3>2 DEF Appended, AgeInv, Truthful, Clock, gpsVars
    <3> QED BY <2>3, <2>5, <3>1, <3>2 DEF Appended
  <2> QED BY <2>1, <2>5 DEF AgeInv
<1>3. CASE Restart
  <2>1. /\ now' = now + 1 /\ timeBase' = timeBase + 1 /\ Kept
        /\ \A t \in Senders : sending'[t] = Idle
    BY <1>3, RestartTyped DEF Restart, GpsRestart
  <2>2. ASSUME NEW i \in DOMAIN bundles' PROVE Truthful(bundles[i])'
    <3>1. Truthful(bundles[i]) /\ SameBundle(bundles'[i], bundles[i]) /\ bundles[i] \in Bundle
      BY <1>0, <2>1 DEF AgeInv, Kept
    <3>2. bundles[i].base \in Nat /\ bundles[i].born \in Int /\ bundles[i].time \in Nat
      BY <3>1 DEF Bundle
    <3> QED BY <1>0, <2>1, <3>1, <3>2 DEF Truthful, SameBundle
  <2> QED BY <2>1, <2>2 DEF AgeInv
<1>4. CASE \/ \E i \in DOMAIN bundles : Receive(i) \/ CheckExpiration(i)
           \/ Updater \/ Tick \/ UNCHANGED vars
  BY <1>4, QuietTyped, AgeQuiet
<1> QED BY <1>1, <1>2, <1>3, <1>4 DEF Next

(* As long as the clock it came in by goes on, a bundle ages at the true   *)
(* pace, and it expires exactly when its lifetime is over.                 *)
THEOREM BundlesAgeTruly == Spec => []AgesAreTrue
<1>1. TypeInv /\ AgeInv => AgesAreTrue
  <2> SUFFICES ASSUME TypeInv, AgeInv, NEW i \in DOMAIN bundles
               PROVE  LET b == bundles[i]
                          age == now - b.born
                          byAge == b.aged /\ b.base = timeBase
                          byTime == clockSynced /\ b.time # 0
                          ageByTime == age + (Epoch - b.epoch)
                          expires == TooOld(b, AgeHere(b)) IN
                      /\ byAge => AgeHere(b) = age
                      /\ byAge /\ age >= Lifetime => expires
                      /\ byTime /\ ageByTime > Lifetime => expires
                      /\ expires /\ (b.aged => byAge) =>
                           age >= Lifetime \/ (byTime /\ ageByTime > Lifetime)
    BY DEF AgesAreTrue
  <2> DEFINE b == bundles[i]
  <2>1. b \in Bundle /\ Truthful(b)
    BY DEF AgeInv, TypeInv, TypeOK
  <2>2. /\ b.base \in Nat /\ b.born \in Int /\ b.time \in Nat /\ b.receivedAt \in Nat
        /\ b.age \in Nat
    BY <2>1 DEF Bundle
  <2> HIDE DEF b
  <2>3. /\ now \in Nat /\ now <= MaxTime /\ clockOffset \in Int /\ Clock \in Nat
        /\ Epoch \in Nat \ {0} /\ Lifetime \in Nat \ {0} /\ Wrap \in Nat
        /\ MaxTime \in Nat /\ Wrap > MaxTime + Epoch + Lifetime
        /\ clockSynced => Clock = now + Epoch
    BY ClockConstants, TimestampAssumption DEF TypeInv, TypeOK, GpsTypeOK, ClockInv, Clock
  <2>4. now - b.born \in Nat /\ now - b.born < Wrap
    BY <2>1, <2>2, <2>3 DEF Truthful
  <2>5. ASSUME b.aged, b.base = timeBase PROVE AgeHere(b) = now - b.born
    <3>1. Clock - b.receivedAt + b.age = now - b.born
      BY <2>1, <2>5 DEF Truthful
    <3>2. Clock - b.receivedAt + Wrap + b.age = (now - b.born) + Wrap
      BY <3>1, <2>2, <2>3
    <3> QED BY <3>2, <2>4, ModuloWrap DEF AgeHere
  <2>6. clockSynced /\ b.time # 0 =>
          (b.time + Lifetime < Clock <=> now - b.born + (Epoch - b.epoch) > Lifetime)
    BY <2>1, <2>2, <2>3, EpochBounded DEF Truthful
  <2> HIDE DEF AgeHere
  <2>7. /\ b.aged /\ b.base = timeBase => AgeHere(b) = now - b.born
        /\ (b.aged /\ b.base = timeBase) /\ now - b.born >= Lifetime => TooOld(b, AgeHere(b))
        /\ (clockSynced /\ b.time # 0) /\ now - b.born + (Epoch - b.epoch) > Lifetime
             => TooOld(b, AgeHere(b))
        /\ TooOld(b, AgeHere(b)) /\ (b.aged => (b.aged /\ b.base = timeBase))
             => \/ now - b.born >= Lifetime
                \/ (clockSynced /\ b.time # 0) /\ now - b.born + (Epoch - b.epoch) > Lifetime
    BY <2>3, <2>4, <2>5, <2>6 DEF TooOld, TimestampExpired
  <2> QED BY <2>7 DEF b
<1> QED BY <1>1, InitTyped, NextTyped, AgeInit, AgeNext, PTL DEF Spec

-----------------------------------------------------------------------------
(* Bundle IDs.  The bundles and calls of an endpoint that no other task    *)
(* disturbed, and what sequenceNum and lastCreationTime say of them.       *)

Undisturbed(e) ==
  {i \in DOMAIN bundles : bundles[i].ep = e /\ bundles[i].boot = boots /\ ~bundles[i].raced}

Active(t) == sending[t] # Idle

(* A call that nobody disturbed is the only one for its endpoint.          *)
AloneInv ==
  \A t, u \in Senders :
    Active(t) /\ Active(u) /\ t # u /\ sending[t].ep = sending[u].ep => sending[t].raced

(* Times: 0 as long as the clock is not set, then those of a clock that    *)
(* only goes forward, over restarts too.                                   *)
TimesInv ==
  /\ \A e \in Endpoints :
       lastCreationTime[e] <= now + Epoch /\ (~clockSynced => lastCreationTime[e] = 0)
  /\ \A i \in DOMAIN bundles :
       bundles[i].ep # Foreign =>
         /\ bundles[i].source \in {bundles[i].ep, None}
         /\ bundles[i].boot <= boots
         /\ bundles[i].boot < boots => bundles[i].time < now + Epoch
         /\ bundles[i].boot = boots /\ ~clockSynced => bundles[i].time = 0
  /\ \A t \in Senders : Active(t) =>
       LET s == sending[t] IN
       /\ s.at \in {"check", "unsynced"} => s.time = 0
       /\ s.at \in {"compare", "repeated", "stamp"} => s.time # 0
       /\ s.time # 0 =>
            /\ clockSynced
            /\ \A i \in DOMAIN bundles :
                 bundles[i].ep # Foreign /\ bundles[i].boot < boots => bundles[i].time < s.time

(* Undisturbed bundles of this boot are below the counters ... *)
CountersInv ==
  \A e \in Endpoints : \A i \in Undisturbed(e) :
    LET b == bundles[i] IN
    /\ b.time = 0 => b.seq < sequenceNum[e]
    /\ b.time # 0 => b.seq <= sequenceNum[e] /\ b.time <= lastCreationTime[e]

(* ... and below what a call for their endpoint, which began after them,   *)
(* is going to write or has got.                                           *)
Below(s, b) ==
  /\ b.time = 0 /\ s.at \in {"check", "unsynced"} => b.seq < s.seq
  /\ b.time # 0 => s.at # "unsynced" /\ (s.time # 0 => b.time <= s.time)
  /\ s.at = "repeated" => b.seq <= s.seq
  /\ ~s.raced /\ s.at = "stamp" /\ b.time = s.time => b.seq < sequenceNum[s.ep]
  /\ ~s.raced /\ s.at = "create" /\ b.time = s.time => b.seq < s.seq

(* The counters belong to a call that nobody disturbs.                     *)
Exclusive(s) ==
  ~s.raced =>
    /\ s.at \in {"check", "unsynced", "repeated"} => s.seq = sequenceNum[s.ep]
    /\ s.at = "compare" => lastCreationTime[s.ep] <= s.time
    /\ s.at = "create" /\ s.time = 0 => s.seq < sequenceNum[s.ep]
    /\ s.at = "create" /\ s.time # 0 =>
         s.seq <= sequenceNum[s.ep] /\ s.time <= lastCreationTime[s.ep]

CallsInv ==
  \A t \in Senders : Active(t) =>
    /\ \A i \in Undisturbed(sending[t].ep) : Below(sending[t], bundles[i])
    /\ Exclusive(sending[t])

IdInv == AloneInv /\ TimesInv /\ CountersInv /\ CallsInv /\ IdsIdentify

LEMMA IdInit == Init => IdInv
<1> SUFFICES ASSUME Init PROVE IdInv
  OBVIOUS
<1>1. AloneInv /\ CallsInv
  BY DEF Init, AloneInv, CallsInv, Active
<1>2. TimesInv
  BY ClockConstants DEF Init, GpsInit, TimesInv, Active
<1>3. CountersInv /\ IdsIdentify
  BY DEF Init, CountersInv, Undisturbed, IdsIdentify
<1> QED BY <1>1, <1>2, <1>3 DEF IdInv

LEMMA UndisturbedKept ==
  ASSUME Kept, UNCHANGED boots, NEW e
  PROVE  Undisturbed(e)' = Undisturbed(e)
  BY DEF Kept, SameBundle, Undisturbed

LEMMA IdsKept ==
  ASSUME Kept, IdsIdentify
  PROVE  IdsIdentify'
<1> SUFFICES ASSUME NEW i \in DOMAIN bundles, NEW j \in DOMAIN bundles,
                    i # j, bundles'[i].ep # Foreign, bundles'[j].ep # Foreign,
                    ID(bundles'[i]) = ID(bundles'[j])
             PROVE  LET b == bundles'[i]  c == bundles'[j] IN
                    \/ b.ep = c.ep /\ (b.raced \/ c.raced)
                    \/ b.ep = c.ep /\ b.boot # c.boot /\ b.time = 0
                    \/ b.ep # c.ep /\ b.source = None
  BY DEF IdsIdentify, Kept, ID
<1>1. SameBundle(bundles'[i], bundles[i]) /\ SameBundle(bundles'[j], bundles[j])
  BY DEF Kept
<1>2. LET b == bundles[i]  c == bundles[j] IN
      \/ b.ep = c.ep /\ (b.raced \/ c.raced)
      \/ b.ep = c.ep /\ b.boot # c.boot /\ b.time = 0
      \/ b.ep # c.ep /\ b.source = None
  BY <1>1 DEF IdsIdentify, SameBundle
<1> QED BY <1>1, <1>2 DEF SameBundle

LEMMA IdQuiet ==
  ASSUME TypeInv, TypeInv', IdInv, Quiet
  PROVE  IdInv'
<1>0. /\ Kept /\ UNCHANGED <<boots, sequenceNum, lastCreationTime, sending>>
      /\ now' >= now /\ now \in Nat /\ now' \in Nat /\ Epoch \in Nat
      /\ clockSynced => clockSynced'
      /\ \A e : Undisturbed(e)' = Undisturbed(e)
      /\ \A e : Undisturbed(e) \subseteq DOMAIN bundles
  BY UndisturbedKept, ClockConstants
     DEF Quiet, endpointVars, TypeInv, TypeOK, GpsTypeOK, Undisturbed
<1>1. AloneInv'
  BY <1>0 DEF IdInv, AloneInv, Active
<1>2. TimesInv'
  <2>1. ASSUME NEW e \in Endpoints
        PROVE  lastCreationTime'[e] <= now' + Epoch /\ (~clockSynced' => lastCreationTime'[e] = 0)
    BY <1>0 DEF IdInv, TimesInv, TypeInv, TypeOK
  <2>2. ASSUME NEW i \in DOMAIN bundles', bundles'[i].ep # Foreign
        PROVE  /\ bundles'[i].source \in {bundles'[i].ep, None}
               /\ bundles'[i].boot <= boots'
               /\ bundles'[i].boot < boots' => bundles'[i].time < now' + Epoch
               /\ bundles'[i].boot = boots' /\ ~clockSynced' => bundles'[i].time = 0
    <3>1. SameBundle(bundles'[i], bundles[i]) /\ i \in DOMAIN bundles /\ bundles[i] \in Bundle
      BY <1>0 DEF Kept, TypeInv, TypeOK
    <3>2. bundles[i].time \in Nat
      BY <3>1 DEF Bundle
    <3> QED BY <1>0, <2>2, <3>1, <3>2 DEF IdInv, TimesInv, SameBundle
  <2>3. ASSUME NEW t \in Senders, Active(t)
        PROVE  LET c == sending[t] IN
               /\ c.at \in {"check", "unsynced"} => c.time = 0
               /\ c.at \in {"compare", "repeated", "stamp"} => c.time # 0
               /\ c.time # 0 =>
                    /\ clockSynced'
                    /\ \A i \in DOMAIN bundles' :
                         bundles'[i].ep # Foreign /\ bundles'[i].boot < boots' =>
                           bundles'[i].time < c.time
    BY <1>0, <2>3 DEF IdInv, TimesInv, Kept, SameBundle
  <2> QED BY <1>0, <2>1, <2>2, <2>3 DEF TimesInv, Active
<1>3. CountersInv'
  BY <1>0 DEF IdInv, CountersInv, Kept, SameBundle
<1>4. CallsInv'
  <2>1. ASSUME NEW t \in Senders, Active(t)
        PROVE  /\ \A i \in Undisturbed(sending[t].ep) : Below(sending[t], bundles[i])'
               /\ Exclusive(sending[t])'
    <3>1. /\ \A i \in Undisturbed(sending[t].ep) : Below(sending[t], bundles[i])
          /\ Exclusive(sending[t])
      BY <2>1 DEF IdInv, CallsInv
    <3>2. ASSUME NEW i \in Undisturbed(sending[t].ep) PROVE Below(sending[t], bundles[i])'
      <4>1. SameBundle(bundles'[i], bundles[i]) /\ Below(sending[t], bundles[i])
        BY <1>0, <3>1 DEF Kept
      <4> QED BY <1>0, <4>1 DEF Below, SameBundle
    <3>3. Exclusive(sending[t])'
      BY <1>0, <3>1 DEF Exclusive
    <3> QED BY <3>2, <3>3
  <2> QED BY <1>0, <2>1 DEF CallsInv, Active
<1>5. IdsIdentify'
  BY <1>0, IdsKept DEF IdInv
<1> QED BY <1>1, <1>2, <1>3, <1>4, <1>5 DEF IdInv

LEMMA AloneSend ==
  ASSUME TypeInv, AloneInv, NEW t \in Senders, Send(t)
  PROVE  AloneInv'
<1>0. sending \in [Senders -> Call \cup {Idle}] /\ sending' \in [Senders -> Call \cup {Idle}]
  BY SendTyped DEF TypeInv, TypeOK
<1>1. ASSUME NEW e \in Endpoints, NEW anonymous \in BOOLEAN, BeginSend(t, e, anonymous),
             NEW u \in Senders, NEW v \in Senders, u # v,
             sending'[u] # Idle, sending'[v] # Idle, sending'[u].ep = sending'[v].ep
      PROVE  sending'[u].raced
  <2> DEFINE others == {w \in Senders \ {t} : sending[w] # Idle /\ sending[w].ep = e}
  <2>1. /\ sending'[t].ep = e /\ sending'[t].raced = (others # {})
        /\ \A w \in others : sending'[w] = [sending[w] EXCEPT !.raced = TRUE]
        /\ \A w \in Senders \ {t} : w \notin others => sending'[w] = sending[w]
    BY <1>1 DEF BeginSend
  <2>2. \A w \in Senders : sending[w] # Idle => sending[w] \in Call
    BY <1>0
  <2>3. \A w \in others : sending'[w].raced /\ sending'[w].ep = e
    BY <2>1, <2>2 DEF Call
  <2>4. CASE u \in others
    BY <2>3, <2>4
  <2>5. CASE u = t
    <3>1. v \in others
      BY <1>1, <2>1, <2>5
    <3> QED BY <2>1, <2>5, <3>1
  <2>6. CASE u # t /\ u \notin others
    <3>1. sending'[u] = sending[u] /\ sending[u].ep # e
      BY <1>1, <2>1, <2>6
    <3>2. v # t /\ v \notin others
      BY <1>1, <2>1, <2>3, <3>1
    <3>3. sending'[v] = sending[v]
      BY <2>1, <3>2
    <3> QED BY <1>1, <3>1, <3>3 DEF AloneInv, Active
  <2> QED BY <2>4, <2>5, <2>6
<1>2. CASE CheckClock(t) \/ CompareTime(t) \/ Increment(t) \/ StampTime(t) \/ CreateBundle(t)
  <2>1. sending[t] \in Call
    BY <1>0, <1>2 DEF CheckClock, CompareTime, Increment, StampTime, CreateBundle, Idle
  <2>2. /\ \A u \in Senders \ {t} : sending'[u] = sending[u]
        /\ sending'[t] # Idle =>
             sending'[t].ep = sending[t].ep /\ sending'[t].raced = sending[t].raced
    <3>1. CASE CheckClock(t)
      BY <1>0, <2>1, <3>1 DEF CheckClock, Call
    <3>2. CASE CompareTime(t)
      BY <1>0, <2>1, <3>2 DEF CompareTime, Call
    <3>3. CASE Increment(t) \/ StampTime(t)
      BY <1>0, <2>1, <3>3 DEF Increment, StampTime, Call
    <3>4. CASE CreateBundle(t)
      BY <1>0, <3>4 DEF CreateBundle
    <3> QED BY <1>2, <3>1, <3>2, <3>3, <3>4
  <2>3. sending[t] # Idle
    BY <2>1 DEF Call, Idle
  <2> QED BY <2>2, <2>3 DEF AloneInv, Active
<1>3. CASE \E e \in Endpoints, anonymous \in BOOLEAN : BeginSend(t, e, anonymous)
  BY <1>1, <1>3 DEF AloneInv, Active
<1> QED BY <1>2, <1>3 DEF Send

(* What is left to show of a step of one call that makes no bundle: its    *)
(* own part, and the counters of its endpoint.                             *)
LEMMA CallStep ==
  ASSUME TypeInv, IdInv, NEW t \in Senders, Send(t), UNCHANGED bundles,
         sending'[t] # Idle, NEW e \in Endpoints, sending'[t].ep = e,
         \A f \in Endpoints \ {e} : /\ sequenceNum'[f] = sequenceNum[f]
                                    /\ lastCreationTime'[f] = lastCreationTime[f],
         lastCreationTime'[e] <= now + Epoch,
         ~clockSynced => lastCreationTime'[e] = 0,
         sending'[t].at \in {"check", "unsynced"} => sending'[t].time = 0,
         sending'[t].at \in {"compare", "repeated", "stamp"} => sending'[t].time # 0,
         sending'[t].time # 0 =>
            /\ clockSynced
            /\ \A i \in DOMAIN bundles :
                 bundles[i].ep # Foreign /\ bundles[i].boot < boots =>
                   bundles[i].time < sending'[t].time,
         \A i \in Undisturbed(e) :
            /\ bundles[i].time = 0 => bundles[i].seq < sequenceNum'[e]
            /\ bundles[i].time # 0 => /\ bundles[i].seq <= sequenceNum'[e]
                                      /\ bundles[i].time <= lastCreationTime'[e]
            /\ Below(sending[t], bundles[i])',
         Exclusive(sending[t])'
  PROVE  IdInv'
<1>0. /\ UNCHANGED <<now, clockSynced, boots>>
      /\ \A f : Undisturbed(f)' = Undisturbed(f)
      /\ \A f : Undisturbed(f) \subseteq DOMAIN bundles
  BY SendTyped, UndisturbedKept, KeepsBundles DEF gpsVars, Undisturbed
<1>1. AloneInv'
  BY AloneSend DEF IdInv
<1>2. ASSUME NEW u \in Senders \ {t}, sending'[u] # Idle
      PROVE  /\ sending[u] # Idle /\ sending[u] \in Call
             /\ sending'[u].ep = sending[u].ep /\ sending'[u].at = sending[u].at
             /\ sending'[u].time = sending[u].time /\ sending'[u].seq = sending[u].seq
             /\ ~sending'[u].raced => ~sending[u].raced
             /\ sending[u].ep = e => sending'[u].raced
  <2>1. sending[u] # Idle /\ sending[u] \in Call
        /\ sending'[u] \in {sending[u], [sending[u] EXCEPT !.raced = TRUE]}
    BY <1>2, OtherCalls DEF TypeInv, TypeOK
  <2>2. /\ sending'[u].ep = sending[u].ep /\ sending'[u].at = sending[u].at
        /\ sending'[u].time = sending[u].time /\ sending'[u].seq = sending[u].seq
        /\ ~sending'[u].raced => ~sending[u].raced
    BY <2>1 DEF Call
  <2>3. sending[u].ep = e => sending'[u].raced
    BY <1>1, <1>2, <2>2 DEF AloneInv, Active
  <2> QED BY <2>1, <2>2, <2>3
<1>3. TimesInv'
  <2>1. ASSUME NEW f \in Endpoints
        PROVE  lastCreationTime'[f] <= now + Epoch /\ (~clockSynced => lastCreationTime'[f] = 0)
    BY DEF IdInv, TimesInv
  <2>2. ASSUME NEW u \in Senders, sending'[u] # Idle
        PROVE  LET c == sending'[u] IN
               /\ c.at \in {"check", "unsynced"} => c.time = 0
               /\ c.at \in {"compare", "repeated", "stamp"} => c.time # 0
               /\ c.time # 0 =>
                    /\ clockSynced
                    /\ \A i \in DOMAIN bundles :
                         bundles[i].ep # Foreign /\ bundles[i].boot < boots =>
                           bundles[i].time < c.time
    <3>1. CASE u = t
      BY <3>1
    <3>2. CASE u # t
      BY <1>2, <2>2, <3>2 DEF IdInv, TimesInv, Active
    <3> QED BY <3>1, <3>2
  <2> QED BY <1>0, <2>1, <2>2 DEF IdInv, TimesInv, Active
<1>4. CountersInv'
  <2>1. ASSUME NEW f \in Endpoints, NEW i \in Undisturbed(f)
        PROVE  /\ bundles[i].time = 0 => bundles[i].seq < sequenceNum'[f]
               /\ bundles[i].time # 0 => /\ bundles[i].seq <= sequenceNum'[f]
                                         /\ bundles[i].time <= lastCreationTime'[f]
    <3>1. CASE f = e
      BY <3>1
    <3>2. CASE f # e
      BY <3>2 DEF IdInv, CountersInv
    <3> QED BY <3>1, <3>2
  <2> QED BY <1>0, <2>1 DEF CountersInv
<1>5. CallsInv'
  <2>1. ASSUME NEW u \in Senders, sending'[u] # Idle
        PROVE  /\ \A i \in Undisturbed(sending'[u].ep) : Below(sending[u], bundles[i])'
               /\ Exclusive(sending[u])'
    <3>1. CASE u = t
      BY <3>1
    <3>2. CASE u # t
      <4>1. /\ \A i \in Undisturbed(sending[u].ep) : Below(sending[u], bundles[i])
            /\ Exclusive(sending[u])
        BY <1>2, <2>1, <3>2 DEF IdInv, CallsInv, Active
      <4>2. sending[u].ep \in Endpoints /\ sending'[u].ep = sending[u].ep
        BY <1>2, <2>1, <3>2 DEF Call
      <4>3. ~sending'[u].raced =>
              /\ sequenceNum'[sending[u].ep] = sequenceNum[sending[u].ep]
              /\ lastCreationTime'[sending[u].ep] = lastCreationTime[sending[u].ep]
        BY <1>2, <2>1, <3>2, <4>2
      <4>4. ASSUME NEW i \in Undisturbed(sending[u].ep) PROVE Below(sending[u], bundles[i])'
        <5>1. Below(sending[u], bundles[i])
          BY <4>1
        <5> QED BY <1>2, <2>1, <3>2, <4>2, <4>3, <5>1 DEF Below
      <4>5. Exclusive(sending[u])'
        BY <1>2, <2>1, <3>2, <4>1, <4>2, <4>3 DEF Exclusive
      <4> QED BY <4>2, <4>4, <4>5
    <3> QED BY <3>1, <3>2
  <2> QED BY <1>0, <2>1 DEF CallsInv, Active
<1>6. IdsIdentify'
  BY IdsKept, KeepsBundles DEF IdInv
<1> QED BY <1>1, <1>3, <1>4, <1>5, <1>6 DEF IdInv

(* What the invariants say of the endpoint of a call. *)
LEMMA AboutEndpoint ==
  ASSUME TypeInv, IdInv, NEW e \in Endpoints
  PROVE  /\ sequenceNum[e] \in Nat /\ lastCreationTime[e] \in Nat
         /\ lastCreationTime[e] <= now + Epoch
         /\ ~clockSynced => lastCreationTime[e] = 0
         /\ \A i \in Undisturbed(e) :
              /\ i \in DOMAIN bundles
              /\ bundles[i].time \in Nat /\ bundles[i].seq \in Nat
              /\ bundles[i].time = 0 => bundles[i].seq < sequenceNum[e]
              /\ bundles[i].time # 0 => /\ bundles[i].seq <= sequenceNum[e]
                                        /\ bundles[i].time <= lastCreationTime[e]
                                        /\ clockSynced
<1>1. ASSUME NEW i \in Undisturbed(e)
      PROVE  /\ i \in DOMAIN bundles /\ bundles[i] \in Bundle
             /\ bundles[i].boot = boots /\ bundles[i].ep # Foreign
  BY TimestampAssumption DEF Undisturbed, TypeInv, TypeOK
<1>2. ASSUME NEW i \in Undisturbed(e) PROVE bundles[i].time # 0 => clockSynced
  BY <1>1 DEF IdInv, TimesInv
<1> QED BY <1>1, <1>2 DEF IdInv, TimesInv, CountersInv, TypeInv, TypeOK, Bundle

LEMMA AboutCall ==
  ASSUME TypeInv, AgeInv, IdInv, NEW t \in Senders, sending[t] \in Call
  PROVE  LET s == sending[t] IN
         /\ s.ep \in Endpoints /\ s.time \in Nat /\ s.seq \in Nat /\ s.time <= now + Epoch
         /\ s.at \in {"check", "unsynced"} => s.time = 0
         /\ s.at \in {"compare", "repeated", "stamp"} => s.time # 0
         /\ s.time # 0 =>
              /\ clockSynced
              /\ \A i \in DOMAIN bundles :
                   bundles[i].ep # Foreign /\ bundles[i].boot < boots => bundles[i].time < s.time
         /\ \A i \in Undisturbed(s.ep) : Below(s, bundles[i])
         /\ Exclusive(s)
<1>1. sending[t] # Idle
  BY DEF Call, Idle
<1> QED BY <1>1 DEF IdInv, TimesInv, CallsInv, AgeInv, Active, Call

LEMMA IdBegin ==
  ASSUME TypeInv, IdInv, NEW t \in Senders, NEW e \in Endpoints, NEW anonymous \in BOOLEAN,
         BeginSend(t, e, anonymous)
  PROVE  IdInv'
<1>1. Send(t) /\ UNCHANGED <<bundles, sequenceNum, lastCreationTime>>
  BY DEF Send, BeginSend
<1>2. /\ sending'[t].at = "check" /\ sending'[t].time = 0 /\ sending'[t].ep = e
      /\ sending'[t].seq = sequenceNum[e]
  BY DEF BeginSend
<1>3. sending'[t] # Idle
  BY <1>2 DEF Idle
<1>4. \A i \in Undisturbed(e) : Below(sending[t], bundles[i])'
  BY <1>1, <1>2, AboutEndpoint DEF Below
<1>5. Exclusive(sending[t])'
  BY <1>1, <1>2 DEF Exclusive
<1> QED BY <1>1, <1>2, <1>3, <1>4, <1>5, AboutEndpoint, CallStep

LEMMA IdCheck ==
  ASSUME TypeInv, AgeInv, IdInv, NEW t \in Senders, CheckClock(t)
  PROVE  IdInv'
<1> DEFINE s == sending[t]
           e == s.ep
<1>1. Send(t) /\ UNCHANGED <<bundles, sequenceNum, lastCreationTime>> /\ s.at = "check"
  BY DEF Send, CheckClock
<1>2. s \in Call
  BY <1>1 DEF TypeInv, TypeOK, Idle
<1>3. /\ e \in Endpoints /\ s.time = 0 /\ (~s.raced => s.seq = sequenceNum[e])
      /\ \A i \in Undisturbed(e) : Below(s, bundles[i])
  BY <1>1, <1>2, AboutCall DEF Exclusive
<1>4. now \in Nat /\ Epoch \in Nat \ {0} /\ (clockSynced => Clock = now + Epoch)
  BY ClockConstants DEF TypeInv, TypeOK, ClockInv, GpsTypeOK, Clock
<1>5. CASE clockSynced
  <2>1. sending'[t] = [s EXCEPT !.at = "compare", !.time = Clock, !.seq = 0]
    BY <1>5 DEF CheckClock, TypeInv, TypeOK
  <2>2. /\ sending'[t].at = "compare" /\ sending'[t].time = now + Epoch /\ sending'[t].ep = e
        /\ sending'[t] # Idle
    BY <1>2, <1>4, <1>5, <2>1 DEF Call, Idle
  <2>3. \A i \in DOMAIN bundles :
          bundles[i].ep # Foreign /\ bundles[i].boot < boots => bundles[i].time < sending'[t].time
    BY <2>2 DEF IdInv, TimesInv
  <2> HIDE DEF e, s
  <2>4. \A i \in Undisturbed(e) : Below(sending[t], bundles[i])'
    <3> SUFFICES ASSUME NEW i \in Undisturbed(e) PROVE Below(sending[t], bundles[i])'
      OBVIOUS
    <3>1. bundles[i].time <= now + Epoch
      BY <1>3, <1>4, AboutEndpoint
    <3> QED BY <1>1, <2>2, <3>1 DEF Below
  <2>5. Exclusive(sending[t])'
    BY <1>1, <1>3, <2>2, AboutEndpoint DEF Exclusive
  <2>6. sending'[t].time # 0
    BY <1>4, <2>2
  <2> QED BY <1>1, <1>3, <1>5, <2>2, <2>3, <2>4, <2>5, <2>6, AboutEndpoint, CallStep
<1>6. CASE ~clockSynced
  <2>1. sending'[t] = [s EXCEPT !.at = "unsynced"]
    BY <1>6 DEF CheckClock, TypeInv, TypeOK
  <2>2. /\ sending'[t].at = "unsynced" /\ sending'[t].time = 0 /\ sending'[t].ep = e
        /\ sending'[t].seq = s.seq /\ sending'[t].raced = s.raced /\ sending'[t] # Idle
    BY <1>2, <1>3, <2>1 DEF Call, Idle
  <2>3. \A i \in Undisturbed(e) : Below(sending[t], bundles[i])'
    <3> SUFFICES ASSUME NEW i \in Undisturbed(e) PROVE Below(sending[t], bundles[i])'
      OBVIOUS
    <3>1. bundles[i].time = 0
      BY <1>3, <1>6, AboutEndpoint
    <3>2. bundles[i].seq < s.seq
      BY <1>1, <1>3, <3>1 DEF Below
    <3> QED BY <1>1, <2>2, <3>1, <3>2 DEF Below
  <2> HIDE DEF e, s
  <2>4. Exclusive(sending[t])'
    BY <1>1, <1>3, <2>2 DEF Exclusive
  <2> QED BY <1>1, <1>3, <2>2, <2>3, <2>4, AboutEndpoint, CallStep
<1> QED BY <1>5, <1>6 DEF TypeInv, TypeOK, GpsTypeOK

LEMMA IdCompare ==
  ASSUME TypeInv, AgeInv, IdInv, NEW t \in Senders, CompareTime(t)
  PROVE  IdInv'
<1> DEFINE s == sending[t]
           e == s.ep
<1>1. Send(t) /\ UNCHANGED <<bundles, sequenceNum, lastCreationTime>> /\ s.at = "compare"
  BY DEF Send, CompareTime
<1>2. s \in Call
  BY <1>1 DEF TypeInv, TypeOK, Idle
<1>3. /\ e \in Endpoints /\ s.time # 0 /\ s.time \in Nat /\ clockSynced
      /\ ~s.raced => lastCreationTime[e] <= s.time
      /\ \A i \in Undisturbed(e) : Below(s, bundles[i])
      /\ \A i \in DOMAIN bundles :
            bundles[i].ep # Foreign /\ bundles[i].boot < boots => bundles[i].time < s.time
  BY <1>1, <1>2, AboutCall DEF Exclusive
<1>4. sending'[t] = (IF lastCreationTime[e] = s.time
                     THEN [s EXCEPT !.at = "repeated", !.seq = sequenceNum[e]]
                     ELSE [s EXCEPT !.at = "stamp"])
  BY DEF CompareTime, TypeInv, TypeOK
<1>5. /\ sending'[t].time = s.time /\ sending'[t].ep = e /\ sending'[t].raced = s.raced
      /\ sending'[t] # Idle
      /\ \/ sending'[t].at = "repeated" /\ sending'[t].seq = sequenceNum[e]
         \/ sending'[t].at = "stamp" /\ lastCreationTime[e] # s.time
  BY <1>2, <1>4 DEF Call, Idle
<1>6. \A i \in Undisturbed(e) : Below(s, bundles[i]) /\ (bundles[i].time # 0 => bundles[i].time <= s.time)
  BY <1>3 DEF Below
<1> HIDE DEF e, s
<1>7. ASSUME NEW i \in Undisturbed(e) PROVE Below(sending[t], bundles[i])'
  <2>1. /\ bundles[i].time \in Nat /\ bundles[i].seq \in Nat /\ bundles[i].seq <= sequenceNum[e]
        /\ bundles[i].time # 0 => bundles[i].time <= lastCreationTime[e]
        /\ sequenceNum[e] \in Nat /\ lastCreationTime[e] \in Nat
    BY <1>3, AboutEndpoint
  <2> QED BY <1>1, <1>3, <1>5, <1>6, <2>1 DEF Below
<1>8. Exclusive(sending[t])'
  BY <1>1, <1>5 DEF Exclusive
<1> QED BY <1>1, <1>3, <1>5, <1>7, <1>8, AboutEndpoint, CallStep

LEMMA IdIncrement ==
  ASSUME TypeInv, AgeInv, IdInv, NEW t \in Senders, Increment(t)
  PROVE  IdInv'
<1> DEFINE s == sending[t]
           e == s.ep
<1>1. Send(t) /\ UNCHANGED <<bundles, lastCreationTime>> /\ s.at \in {"unsynced", "repeated"}
  BY DEF Send, Increment
<1>2. s \in Call
  BY <1>1 DEF TypeInv, TypeOK, Idle
<1>3. /\ e \in Endpoints /\ s.time \in Nat /\ s.seq \in Nat
      /\ s.time # 0 <=> s.at = "repeated"
      /\ s.time # 0 =>
            /\ clockSynced
            /\ \A i \in DOMAIN bundles :
                 bundles[i].ep # Foreign /\ bundles[i].boot < boots => bundles[i].time < s.time
      /\ \A i \in Undisturbed(e) : Below(s, bundles[i])
      /\ ~s.raced => s.seq = sequenceNum[e]
  BY <1>1, <1>2, AboutCall DEF Exclusive
<1>4. PICK n \in {sequenceNum[e], s.seq} : sequenceNum' = [sequenceNum EXCEPT ![e] = n + 1]
  BY DEF Increment
<1>5. /\ sequenceNum'[e] = n + 1
      /\ \A f \in Endpoints \ {e} : sequenceNum'[f] = sequenceNum[f]
  BY <1>3, <1>4 DEF TypeInv, TypeOK
<1>6. sending'[t] = [s EXCEPT !.at = IF s.at = "unsynced" THEN "create" ELSE "stamp"]
  BY DEF Increment, TypeInv, TypeOK
<1>7. /\ sending'[t].time = s.time /\ sending'[t].ep = e /\ sending'[t].raced = s.raced
      /\ sending'[t].seq = s.seq /\ sending'[t] # Idle
      /\ sending'[t].at = IF s.at = "unsynced" THEN "create" ELSE "stamp"
  BY <1>2, <1>6 DEF Call, Idle
<1> HIDE DEF e, s
<1>8. ASSUME NEW i \in Undisturbed(e)
      PROVE  /\ bundles[i].time = 0 => bundles[i].seq < sequenceNum'[e]
             /\ bundles[i].time # 0 => /\ bundles[i].seq <= sequenceNum'[e]
                                       /\ bundles[i].time <= lastCreationTime'[e]
             /\ Below(sending[t], bundles[i])'
  <2>1. /\ bundles[i].time \in Nat /\ bundles[i].seq \in Nat
        /\ sequenceNum[e] \in Nat /\ lastCreationTime[e] \in Nat
        /\ bundles[i].time = 0 => bundles[i].seq < sequenceNum[e]
        /\ bundles[i].time # 0 => /\ bundles[i].seq <= sequenceNum[e]
                                  /\ bundles[i].time <= lastCreationTime[e]
    BY <1>3, AboutEndpoint
  <2>2. Below(s, bundles[i])
    BY <1>3
  <2>3. CASE s.at = "unsynced"
    <3>1. bundles[i].time = 0 /\ bundles[i].seq < s.seq
      BY <2>2, <2>3 DEF Below
    <3>2. bundles[i].seq < sequenceNum'[e]
      BY <1>3, <1>4, <1>5, <2>1, <3>1
    <3>3. sending'[t].at = "create" /\ sending'[t].seq = s.seq
      BY <1>7, <2>3
    <3>4. Below(sending[t], bundles[i])'
      BY <1>1, <3>1, <3>3 DEF Below
    <3> QED BY <3>1, <3>2, <3>4
  <2>4. CASE s.at = "repeated"
    <3>1. bundles[i].seq <= s.seq /\ (bundles[i].time # 0 => bundles[i].time <= s.time)
      BY <1>3, <2>2, <2>4 DEF Below
    <3>2. bundles[i].seq < sequenceNum'[e]
      BY <1>3, <1>4, <1>5, <2>1, <3>1
    <3> QED BY <1>1, <1>3, <1>5, <1>7, <2>1, <2>4, <3>1, <3>2 DEF Below
  <2> QED BY <1>1, <2>3, <2>4
<1>9. sequenceNum[e] \in Nat /\ (~s.raced => s.seq < sequenceNum'[e])
  BY <1>3, <1>4, <1>5, AboutEndpoint
<1>10. Exclusive(sending[t])'
  BY <1>3, <1>7, <1>9 DEF Exclusive
<1>11. /\ sending'[t].at \in {"check", "unsynced"} => sending'[t].time = 0
       /\ sending'[t].at \in {"compare", "repeated", "stamp"} => sending'[t].time # 0
  BY <1>1, <1>3, <1>7 DEF s
<1> QED BY <1>1, <1>3, <1>5, <1>7, <1>8, <1>10, <1>11, AboutEndpoint, CallStep

LEMMA IdStamp ==
  ASSUME TypeInv, AgeInv, IdInv, NEW t \in Senders, StampTime(t)
  PROVE  IdInv'
<1> DEFINE s == sending[t]
           e == s.ep
<1>1. Send(t) /\ UNCHANGED <<bundles, sequenceNum>> /\ s.at = "stamp"
  BY DEF Send, StampTime
<1>2. s \in Call
  BY <1>1 DEF TypeInv, TypeOK, Idle
<1>3. /\ e \in Endpoints /\ s.time \in Nat /\ s.time # 0 /\ clockSynced /\ s.time <= now + Epoch
      /\ \A i \in DOMAIN bundles :
            bundles[i].ep # Foreign /\ bundles[i].boot < boots => bundles[i].time < s.time
      /\ \A i \in Undisturbed(e) : Below(s, bundles[i])
  BY <1>1, <1>2, AboutCall
<1>4. /\ lastCreationTime'[e] = s.time
      /\ \A f \in Endpoints \ {e} : lastCreationTime'[f] = lastCreationTime[f]
  BY <1>3 DEF StampTime, TypeInv, TypeOK
<1>5. sending'[t] = [s EXCEPT !.seq = sequenceNum[e], !.at = "create"]
  BY DEF StampTime, TypeInv, TypeOK
<1>6. /\ sending'[t].time = s.time /\ sending'[t].ep = e /\ sending'[t].raced = s.raced
      /\ sending'[t].seq = sequenceNum[e] /\ sending'[t] # Idle
      /\ sending'[t].at = "create"
  BY <1>2, <1>5 DEF Call, Idle
<1>7. \A i \in Undisturbed(e) :
        /\ bundles[i].time # 0 => bundles[i].time <= s.time
        /\ ~s.raced /\ bundles[i].time = s.time => bundles[i].seq < sequenceNum[e]
  BY <1>1, <1>3 DEF Below
<1> HIDE DEF e, s
<1>8. ASSUME NEW i \in Undisturbed(e)
      PROVE  /\ bundles[i].time = 0 => bundles[i].seq < sequenceNum'[e]
             /\ bundles[i].time # 0 => /\ bundles[i].seq <= sequenceNum'[e]
                                       /\ bundles[i].time <= lastCreationTime'[e]
             /\ Below(sending[t], bundles[i])'
  <2>1. /\ bundles[i].time = 0 => bundles[i].seq < sequenceNum[e]
        /\ bundles[i].time # 0 => bundles[i].seq <= sequenceNum[e]
    BY <1>3, AboutEndpoint
  <2> QED BY <1>1, <1>3, <1>4, <1>6, <1>7, <2>1 DEF Below
<1>9. Exclusive(sending[t])'
  BY <1>1, <1>3, <1>4, <1>6, AboutEndpoint DEF Exclusive
<1> QED BY <1>1, <1>3, <1>4, <1>6, <1>8, <1>9, CallStep

(* The new bundle is an undisturbed one only if its call was the only one  *)
(* for its endpoint; then it is above all of those.                        *)
LEMMA IdCreate ==
  ASSUME TypeInv, AgeInv, IdInv, NEW t \in Senders, CreateBundle(t)
  PROVE  IdInv'
<1> DEFINE s == sending[t]
           e == s.ep
           new == Len(bundles) + 1
<1>1. /\ Send(t) /\ UNCHANGED <<now, gpsVars, boots, sequenceNum, lastCreationTime>>
      /\ s.at = "create"
  BY DEF Send, CreateBundle
<1>2. s \in Call
  BY <1>1 DEF TypeInv, TypeOK, Idle
<1>3. /\ e \in Endpoints /\ s.time \in Nat /\ s.seq \in Nat
      /\ s.time # 0 =>
            /\ clockSynced
            /\ \A i \in DOMAIN bundles :
                 bundles[i].ep # Foreign /\ bundles[i].boot < boots => bundles[i].time < s.time
      /\ \A i \in Undisturbed(e) : Below(s, bundles[i])
      /\ Exclusive(s)
  BY <1>1, <1>2, AboutCall
<1>4. PICK b : /\ Appended(b)
               /\ b.source = (IF s.anonymous THEN None ELSE e)
               /\ b.time = s.time /\ b.seq = s.seq /\ b.ep = e /\ b.boot = boots
               /\ b.raced = s.raced
  <2>1. \E b : Appended(b) /\
          /\ b.source = (IF s.anonymous THEN None ELSE s.ep)
          /\ b.time = s.time /\ b.seq = s.seq /\ b.aged = (s.time = 0) /\ b.age = 0
          /\ b.receivedAt = Clock /\ b.ep = s.ep /\ b.boot = boots /\ b.raced = s.raced
          /\ b.born = (IF s.time = 0 THEN now ELSE s.time - Epoch) /\ b.base = timeBase
    BY Creation
  <2> HIDE DEF s
  <2> QED BY <2>1
<1>5. sending' = [sending EXCEPT ![t] = Idle] /\ sending \in [Senders -> Call \cup {Idle}]
  BY DEF CreateBundle, TypeInv, TypeOK
<1>6. /\ \A u \in Senders \ {t} : sending'[u] = sending[u]
      /\ sending'[t] = Idle /\ sending[t] # Idle
  BY <1>2, <1>5 DEF Call, Idle
<1>7. /\ DOMAIN bundles' = DOMAIN bundles \cup {new} /\ new \notin DOMAIN bundles
      /\ bundles'[new] = b /\ \A i \in DOMAIN bundles : bundles'[i] = bundles[i]
      /\ b \in Bundle /\ b.ep # Foreign
  BY <1>3, <1>4, TimestampAssumption DEF Appended
<1> HIDE DEF e, s, new
<1>8. \A f \in Endpoints :
        Undisturbed(f)' = IF f = e /\ ~s.raced THEN Undisturbed(f) \cup {new} ELSE Undisturbed(f)
  BY <1>1, <1>4, <1>7 DEF Undisturbed
<1>9. AloneInv'
  BY <1>1, AloneSend DEF IdInv
<1>10. TimesInv'
  <2>1. ASSUME NEW i \in DOMAIN bundles', bundles'[i].ep # Foreign
        PROVE  /\ bundles'[i].source \in {bundles'[i].ep, None}
               /\ bundles'[i].boot <= boots
               /\ bundles'[i].boot < boots => i # new /\ bundles'[i].time < now + Epoch
               /\ bundles'[i].boot = boots /\ ~clockSynced => bundles'[i].time = 0
    <3>1. CASE i = new
      BY <1>3, <1>4, <1>7, <3>1 DEF Bundle, TypeInv, TypeOK
    <3>2. CASE i \in DOMAIN bundles
      BY <1>7, <2>1, <3>2 DEF IdInv, TimesInv
    <3> QED BY <1>7, <2>1, <3>1, <3>2
  <2>2. ASSUME NEW u \in Senders, sending'[u] # Idle
        PROVE  LET c == sending'[u] IN
               /\ c.at \in {"check", "unsynced"} => c.time = 0
               /\ c.at \in {"compare", "repeated", "stamp"} => c.time # 0
               /\ c.time # 0 =>
                    /\ clockSynced
                    /\ \A i \in DOMAIN bundles' :
                         bundles'[i].ep # Foreign /\ bundles'[i].boot < boots =>
                           bundles'[i].time < c.time
    <3>1. u # t /\ sending'[u] = sending[u] /\ Active(u)
      BY <1>6, <2>2 DEF Active
    <3> QED BY <1>7, <2>1, <3>1 DEF IdInv, TimesInv
  <2> QED BY <1>1, <2>1, <2>2 DEF IdInv, TimesInv, Active, gpsVars
<1>11. CountersInv'
  <2>1. ASSUME NEW f \in Endpoints, NEW i \in Undisturbed(f)'
        PROVE  /\ bundles'[i].time = 0 => bundles'[i].seq < sequenceNum[f]
               /\ bundles'[i].time # 0 => /\ bundles'[i].seq <= sequenceNum[f]
                                          /\ bundles'[i].time <= lastCreationTime[f]
    <3>1. CASE i \in Undisturbed(f)
      BY <1>7, <3>1 DEF IdInv, CountersInv, Undisturbed
    <3>2. CASE i = new /\ f = e /\ ~s.raced
      BY <1>1, <1>3, <1>4, <1>7, <3>2 DEF Exclusive, e
    <3> QED BY <1>8, <2>1, <3>1, <3>2
  <2> QED BY <1>1, <2>1 DEF CountersInv
<1>12. CallsInv'
  <2>1. ASSUME NEW u \in Senders, sending'[u] # Idle
        PROVE  /\ \A i \in Undisturbed(sending[u].ep)' : Below(sending[u], bundles[i])'
               /\ Exclusive(sending[u])'
    <3>1. u # t /\ sending'[u] = sending[u] /\ Active(u) /\ Active(t) /\ sending[u] \in Call
      BY <1>5, <1>6, <2>1 DEF Active
    <3>2. /\ \A i \in Undisturbed(sending[u].ep) : Below(sending[u], bundles[i])
          /\ Exclusive(sending[u]) /\ sending[u].ep \in Endpoints
      BY <3>1 DEF IdInv, CallsInv, Call
    <3>3. Undisturbed(sending[u].ep)' = Undisturbed(sending[u].ep)
      <4>1. sending[u].ep = e => s.raced
        BY <3>1 DEF IdInv, AloneInv, e, s
      <4>2. ASSUME NEW f \in Endpoints, ~(f = e /\ ~s.raced) PROVE Undisturbed(f)' = Undisturbed(f)
        BY <1>8, <4>2
      <4>3. ASSUME NEW f \in Endpoints, f = sending[u].ep
            PROVE  Undisturbed(f)' = Undisturbed(f) /\ f = sending'[u].ep
        BY <3>1, <4>1, <4>2, <4>3
      <4> QED BY <3>2, <4>3 DEF Undisturbed
    <3>4. ASSUME NEW i \in Undisturbed(sending[u].ep) PROVE Below(sending[u], bundles[i])'
      <4>1. bundles'[i] = bundles[i] /\ Below(sending[u], bundles[i])
        BY <1>7, <3>2 DEF Undisturbed
      <4> QED BY <1>1, <3>1, <4>1 DEF Below
    <3>5. Exclusive(sending[u])'
      BY <1>1, <3>1, <3>2 DEF Exclusive
    <3> QED BY <3>1, <3>3, <3>4, <3>5
  <2> QED BY <2>1 DEF CallsInv, Active
<1>13. IdsIdentify'
  <2>1. ASSUME NEW i \in DOMAIN bundles, bundles[i].ep # Foreign, ID(bundles[i]) = ID(b)
        PROVE  \/ bundles[i].ep = e /\ (bundles[i].raced \/ s.raced)
               \/ bundles[i].ep = e /\ bundles[i].boot # boots /\ bundles[i].time = 0
               \/ bundles[i].ep # e /\ bundles[i].source = None /\ b.source = None
    <3> DEFINE a == bundles[i]
    <3>1. /\ a \in Bundle /\ a.source = b.source /\ a.time = s.time /\ a.seq = s.seq
          /\ a.source \in {a.ep, None} /\ a.boot <= boots
      BY <1>4, <2>1 DEF ID, IdInv, TimesInv, TypeInv, TypeOK
    <3>2. CASE a.ep # e
      BY <1>4, <3>1, <3>2
    <3>3. CASE a.ep = e /\ a.boot = boots /\ ~a.raced /\ ~s.raced
      <4>1. Below(s, a)
        BY <1>3, <3>3 DEF Undisturbed
      <4> QED BY <1>1, <1>3, <3>1, <3>3, <4>1 DEF Below, s
    <3>4. CASE a.ep = e /\ a.boot # boots /\ a.time # 0
      <4>1. a.boot < boots
        BY <3>1, <3>4 DEF Bundle, TypeInv, TypeOK
      <4>2. a.time < s.time
        BY <1>3, <2>1, <3>1, <3>4, <4>1
      <4> QED BY <1>3, <3>1, <4>2
    <3> QED BY <3>2, <3>3, <3>4
  <2>2. ASSUME NEW i \in DOMAIN bundles', NEW j \in DOMAIN bundles',
               i # j, bundles'[i].ep # Foreign, bundles'[j].ep # Foreign,
               ID(bundles'[i]) = ID(bundles'[j])
        PROVE  \/ bundles'[i].ep = bundles'[j].ep /\ (bundles'[i].raced \/ bundles'[j].raced)
               \/ /\ bundles'[i].ep = bundles'[j].ep /\ bundles'[i].boot # bundles'[j].boot
                  /\ bundles'[i].time = 0
               \/ bundles'[i].ep # bundles'[j].ep /\ bundles'[i].source = None
    <3>1. CASE i \in DOMAIN bundles /\ j \in DOMAIN bundles
      BY <1>7, <2>2, <3>1 DEF IdInv, IdsIdentify
    <3>2. CASE i \in DOMAIN bundles /\ j = new
      BY <1>4, <1>7, <2>1, <2>2, <3>2
    <3>3. CASE j \in DOMAIN bundles /\ i = new
      <4>1. ID(bundles[j]) = ID(b) /\ bundles[j].ep # Foreign /\ bundles'[i] = b
            /\ bundles'[j] = bundles[j]
        BY <1>7, <2>2, <3>3
      <4>2. bundles[j].time = b.time
        BY <4>1 DEF ID
      <4> QED BY <1>4, <2>1, <3>3, <4>1, <4>2
    <3> QED BY <1>7, <2>2, <3>1, <3>2, <3>3
  <2> QED BY <2>2 DEF IdsIdentify, ID
<1> QED BY <1>9, <1>10, <1>11, <1>12, <1>13 DEF IdInv

LEMMA IdArrive ==
  ASSUME TypeInv, IdInv, NEW age \in ForeignAges, NEW aged \in BOOLEAN,
             NEW epoch \in {0, Epoch, DtnEpoch},
         Arrive(now - age, aged, epoch)
  PROVE  IdInv'
<1> DEFINE new == Len(bundles) + 1
<1>1. UNCHANGED <<now, clockSynced, boots, sequenceNum, lastCreationTime, sending>>
  BY DEF Arrive, gpsVars, endpointVars
<1>2. /\ DOMAIN bundles' = DOMAIN bundles \cup {new} /\ new \notin DOMAIN bundles
      /\ bundles'[new].ep = Foreign /\ \A i \in DOMAIN bundles : bundles'[i] = bundles[i]
  BY ArrivalTyped DEF Appended
<1> HIDE DEF new
<1>3. \A f \in Endpoints : Undisturbed(f)' = Undisturbed(f)
  BY <1>1, <1>2, TimestampAssumption DEF Undisturbed
<1>4. AloneInv'
  BY <1>1 DEF IdInv, AloneInv, Active
<1>5. TimesInv'
  BY <1>1, <1>2 DEF IdInv, TimesInv, Active
<1>6. CountersInv'
  BY <1>1, <1>2, <1>3 DEF IdInv, CountersInv, Undisturbed
<1>7. CallsInv'
  <2>1. ASSUME NEW u \in Senders, sending[u] # Idle
        PROVE  /\ \A i \in Undisturbed(sending[u].ep)' : Below(sending[u], bundles[i])'
               /\ Exclusive(sending[u])'
    <3>1. /\ \A i \in Undisturbed(sending[u].ep) : Below(sending[u], bundles[i])
          /\ Exclusive(sending[u]) /\ sending[u].ep \in Endpoints
      BY <2>1 DEF IdInv, CallsInv, Active, TypeInv, TypeOK, Call
    <3>2. ASSUME NEW i \in Undisturbed(sending[u].ep) PROVE Below(sending[u], bundles[i])'
      <4>1. bundles'[i] = bundles[i] /\ Below(sending[u], bundles[i])
        BY <1>2, <3>1 DEF Undisturbed
      <4> QED BY <1>1, <4>1 DEF Below
    <3> QED BY <1>1, <1>3, <3>1, <3>2 DEF Exclusive
  <2> QED BY <1>1, <2>1 DEF CallsInv, Active
<1>8. IdsIdentify'
  <2>1. \A i \in DOMAIN bundles' : bundles'[i].ep # Foreign => i \in DOMAIN bundles
    BY <1>2
  <2> QED BY <1>2, <2>1 DEF IdInv, IdsIdentify, ID
<1> QED BY <1>4, <1>5, <1>6, <1>7, <1>8 DEF IdInv

LEMMA IdRestart ==
  ASSUME TypeInv, AgeInv, IdInv, Restart
  PROVE  IdInv'
<1>1. /\ now' = now + 1 /\ boots' = boots + 1 /\ Kept
      /\ \A t \in Senders : sending'[t] = Idle
      /\ \A e \in Endpoints : lastCreationTime'[e] = 0
      /\ now \in Nat /\ boots \in Nat /\ Epoch \in Nat
  <2>1. now \in Nat /\ boots \in Nat /\ Epoch \in Nat
    BY ClockConstants, TimestampAssumption DEF TypeInv, TypeOK, GpsTypeOK
  <2>2. now' = now + 1 /\ boots' = boots + 1
    BY DEF Restart, GpsRestart
  <2>3. /\ \A t \in Senders : sending'[t] = Idle
        /\ \A e \in Endpoints : lastCreationTime'[e] = 0
    BY DEF Restart
  <2> QED BY <2>1, <2>2, <2>3, RestartTyped
<1>2. ASSUME NEW i \in DOMAIN bundles
      PROVE  /\ SameBundle(bundles'[i], bundles[i]) /\ bundles[i].time \in Nat
             /\ bundles[i].boot \in Nat /\ bundles[i].time <= now + Epoch
  <2>1. bundles[i] \in Bundle /\ Truthful(bundles[i])
    BY DEF TypeInv, TypeOK, AgeInv
  <2>2. bundles[i].time \in Nat /\ bundles[i].boot \in Nat /\ bundles[i].born \in Int
    BY <2>1 DEF Bundle
  <2>3. bundles[i].epoch \in Nat /\ bundles[i].epoch <= Epoch
    BY <2>1, EpochBounded
  <2> QED BY <1>1, <2>1, <2>2, <2>3 DEF Kept, Truthful
<1>3. ASSUME NEW i \in DOMAIN bundles', bundles'[i].ep # Foreign
      PROVE  /\ bundles'[i].source \in {bundles'[i].ep, None}
             /\ bundles'[i].boot < boots' /\ bundles'[i].time < now' + Epoch
  <2>1. i \in DOMAIN bundles /\ SameBundle(bundles'[i], bundles[i])
    BY <1>1 DEF Kept
  <2>2. bundles[i].source \in {bundles[i].ep, None} /\ bundles[i].boot <= boots
    BY <1>3, <2>1 DEF IdInv, TimesInv, SameBundle
  <2> QED BY <1>1, <1>2, <2>1, <2>2 DEF SameBundle
<1>4. ASSUME NEW e \in Endpoints PROVE Undisturbed(e)' = {}
  <2>1. ASSUME NEW i \in DOMAIN bundles', bundles'[i].ep = e PROVE bundles'[i].boot # boots'
    <3>1. bundles'[i].boot < boots' /\ i \in DOMAIN bundles
      BY <1>1, <1>3, <2>1, TimestampAssumption DEF Kept
    <3>2. bundles'[i].boot \in Nat
      BY <1>2, <3>1 DEF SameBundle
    <3> QED BY <1>1, <3>1, <3>2
  <2> QED BY <2>1 DEF Undisturbed
<1>5. AloneInv' /\ CallsInv'
  BY <1>1 DEF AloneInv, CallsInv, Active
<1>6. TimesInv'
  <2>1. \A e \in Endpoints : lastCreationTime'[e] <= now' + Epoch
    BY <1>1
  <2>2. ASSUME NEW i \in DOMAIN bundles', bundles'[i].ep # Foreign
        PROVE  bundles'[i].boot <= boots' /\ bundles'[i].boot # boots'
    <3>1. bundles'[i].boot < boots' /\ bundles'[i].boot \in Nat
      BY <1>1, <1>2, <1>3, <2>2 DEF Kept, SameBundle
    <3> QED BY <1>1, <3>1
  <2> QED BY <1>1, <1>3, <2>1, <2>2 DEF TimesInv, Active
<1>7. CountersInv'
  BY <1>4 DEF CountersInv
<1>8. IdsIdentify'
  BY <1>1, IdsKept DEF IdInv
<1> QED BY <1>5, <1>6, <1>7, <1>8 DEF IdInv

LEMMA IdNext == TypeInv /\ AgeInv /\ IdInv /\ [Next]_vars => IdInv'
<1> SUFFICES ASSUME TypeInv, AgeInv, IdInv, [Next]_vars PROVE IdInv'
  OBVIOUS
<1>1. ASSUME NEW t \in Senders, Send(t) PROVE IdInv'
  BY <1>1, IdBegin, IdCheck, IdCompare, IdIncrement, IdStamp, IdCreate DEF Send
<1>2. ASSUME NEW age \in ForeignAges, NEW aged \in BOOLEAN,
             NEW epoch \in {0, Epoch, DtnEpoch},
             Arrive(now - age, aged, epoch)
      PROVE  IdInv'
  BY <1>2, IdArrive
<1>3. CASE Restart
  BY <1>3, IdRestart
<1>4. CASE \/ \E i \in DOMAIN bundles : Receive(i) \/ CheckExpiration(i)
           \/ Updater \/ Tick \/ UNCHANGED vars
  BY <1>4, QuietTyped, IdQuiet
<1> QED BY <1>1, <1>2, <1>3, <1>4 DEF Next

(* Two bundles of an endpoint have different IDs unless one of them was    *)
(* sent while another task was inside send for that endpoint, or a restart *)
(* without a clock lies between them.                                      *)
THEOREM IdsAreUnique == Spec => []IdsIdentify
<1>1. IdInv => IdsIdentify
  BY DEF IdInv
<1> QED BY <1>1, InitTyped, NextTyped, AgeInit, AgeNext, IdInit, IdNext, PTL DEF Spec

=============================================================================
