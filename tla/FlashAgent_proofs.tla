-------------------------- MODULE FlashAgent_proofs --------------------------
(***************************************************************************)
(* Proofs about FlashAgent, for every number of bundles and every size of  *)
(* the flash, the queue and the batches: the types, that getBundlesRetry   *)
(* stays within the keys given out, that every stored bundle stays within  *)
(* its reach, that no bundle is lost or doubled, and that a retry cycle    *)
(* leaves none out, whatever the unlocked deleteOldest does in between.    *)
(***************************************************************************)
EXTENDS FlashAgent, SequenceTheorems, TLAPS

-----------------------------------------------------------------------------
(* Lemmas about the queues and about the counter's width.                  *)

LEMMA QueueIdsAppend ==
  ASSUME NEW S, NEW s \in Seq(S), NEW e \in S
  PROVE  /\ Append(s, e) \in Seq(S)
         /\ QueueIds(Append(s, e)) = QueueIds(s) \cup {e}
<1> DEFINE t == Append(s, e)
<1>1. /\ t \in Seq(S) /\ Len(t) = Len(s) + 1
      /\ \A i \in 1 .. Len(s) : t[i] = s[i]
      /\ t[Len(s) + 1] = e
  BY AppendProperties
<1>2. DOMAIN s = 1 .. Len(s) /\ DOMAIN t = 1 .. Len(s) + 1 /\ Len(s) \in Nat
  BY <1>1
<1> HIDE DEF t
<1>3. \A i \in DOMAIN t : i \in DOMAIN s \/ i = Len(s) + 1
  BY <1>2
<1>4. \A i \in DOMAIN s : i \in DOMAIN t /\ t[i] = s[i]
  BY <1>1, <1>2
<1>5. Len(s) + 1 \in DOMAIN t
  BY <1>2
<1>6. QueueIds(t) = QueueIds(s) \cup {e}
  BY <1>1, <1>3, <1>4, <1>5, Zenon DEF QueueIds
<1> QED BY <1>1, <1>6 DEF t

LEMMA QueueIdsHeadTail ==
  ASSUME NEW S, NEW s \in Seq(S), s # <<>>
  PROVE  /\ Head(s) \in S
         /\ Tail(s) \in Seq(S)
         /\ QueueIds(s) = {Head(s)} \cup QueueIds(Tail(s))
<1> DEFINE t == Tail(s)
<1>1. /\ Head(s) \in S /\ Head(s) = s[1]
      /\ t \in Seq(S) /\ Len(t) = Len(s) - 1
      /\ \A i \in 1 .. Len(t) : t[i] = s[i + 1]
      /\ Len(s) \in Nat /\ Len(s) # 0
  BY HeadTailProperties, EmptySeq
<1>2. DOMAIN s = 1 .. Len(s) /\ DOMAIN t = 1 .. Len(s) - 1
  BY <1>1
<1> HIDE DEF t
<1>3. \A i \in DOMAIN s : i = 1 \/ (i - 1 \in DOMAIN t /\ t[i - 1] = s[i])
  BY <1>1, <1>2
<1>4. \A i \in DOMAIN t : i + 1 \in DOMAIN s /\ t[i] = s[i + 1]
  BY <1>1, <1>2
<1>5. 1 \in DOMAIN s
  BY <1>1, <1>2
<1>6. ASSUME NEW b \in QueueIds(s) PROVE b \in {s[1]} \cup QueueIds(t)
  BY <1>3, <1>6 DEF QueueIds
<1>7. ASSUME NEW b \in QueueIds(t) PROVE b \in QueueIds(s)
  BY <1>4, <1>7 DEF QueueIds
<1>8. s[1] \in QueueIds(s)
  BY <1>5 DEF QueueIds
<1>9. QueueIds(s) = {s[1]} \cup QueueIds(t)
  BY <1>6, <1>7, <1>8
<1> QED BY <1>1, <1>9 DEF t

LEMMA QueueIdsSmall ==
  /\ QueueIds(<<>>) = {}
  /\ \A e : QueueIds(<<e>>) = {e}
  /\ \A S, s : s \in Seq(S) /\ Len(s) = 1 => QueueIds(s) = {s[1]} /\ s[1] \in S
<1>1. QueueIds(<<>>) = {}
  BY DEF QueueIds
<1>2. ASSUME NEW e PROVE QueueIds(<<e>>) = {e}
  BY DEF QueueIds
<1>3. ASSUME NEW S, NEW s, s \in Seq(S), Len(s) = 1
      PROVE  QueueIds(s) = {s[1]} /\ s[1] \in S
  <2>1. DOMAIN s = {1}
    BY <1>3
  <2> QED BY <1>3, <2>1 DEF QueueIds
<1> QED BY <1>1, <1>2, <1>3

LEMMA CounterWidth ==
  ASSUME NEW n \in Nat
  PROVE  n % UINT16_RANGE \in Nat /\ n % UINT16_RANGE <= n
  BY DEF UINT16_RANGE

-----------------------------------------------------------------------------
(* What getBundlesRetry knows of the keys.                                 *)

KeyCount ==
  /\ highestUsedKey \in Nat
  /\ lowestUsedKey \in Nat
  /\ bundlesToReturn \in Nat
  /\ CycleWithinKeys
  /\ retrierAt \in {"read", "erase", "advance"} => bundlesToReturn # 0

LEMMA KeyCountInit == Init => KeyCount
  BY DEF Init, TasksInit, FlashInit, KeyCount, CycleWithinKeys

LEMMA KeyCountNext == KeyCount /\ [Next]_vars => KeyCount'
<1> SUFFICES ASSUME KeyCount, [Next]_vars PROVE KeyCount'
  OBVIOUS
<1> USE DEF KeyCount, CycleWithinKeys
<1>1. ASSUME UNCHANGED <<highestUsedKey, lowestUsedKey, bundlesToReturn>>,
             UNCHANGED retrierAt \/ retrierAt' \notin {"read", "erase", "advance"}
      PROVE  KeyCount'
  BY <1>1
<1>2. ASSUME NEW b \in Bundles, Arrive(b) PROVE KeyCount'
  BY <1>1, <1>2 DEF Arrive, flashVars, keyVars, retrierVars
<1>3. CASE Forwarder
  <2>1. CASE StoreBundle
    BY <2>1 DEF StoreBundle, Insert, retrierVars
  <2>2. CASE TakeForForwarding
    BY <1>1, <2>2 DEF TakeForForwarding, flashVars, keyVars, retrierVars
  <2>3. CASE ForwardingSuccess
    BY <1>1, <2>3 DEF ForwardingSuccess, flashVars, keyVars, retrierVars
  <2>4. CASE ForwardingDelayed
    BY <1>1, <2>4 DEF ForwardingDelayed, flashVars, keyVars, retrierVars
  <2>5. CASE StartEviction
    BY <1>1, <2>5 DEF StartEviction, flashVars, keyVars, retrierVars
  <2>6. CASE LookUpOldest
    BY <1>1, <2>6 DEF LookUpOldest, flashVars, keyVars, retrierVars
  <2>7. CASE ReadOldest
    BY <1>1, <2>7 DEF ReadOldest, flashVars, keyVars, retrierVars
  <2>8. CASE EraseOldest
    BY <1>1, <2>8 DEF EraseOldest, keyVars, retrierVars
  <2>9. CASE AdvanceOldest
    BY <1>1, <2>9 DEF AdvanceOldest, retrierVars
  <2> QED BY <1>3, <2>1, <2>2, <2>3, <2>4, <2>5, <2>6, <2>7, <2>8, <2>9 DEF Forwarder
<1>4. CASE Retrier
  <2>1. CASE StartCycle
    <3>1. highestUsedKey - lowestUsedKey + 1 \in Nat
      OBVIOUS
    <3> DEFINE n == highestUsedKey - lowestUsedKey + 1
    <3>2. n \in Nat /\ lowestUsedKey + n = highestUsedKey + 1
      BY <3>1
    <3>3. bundlesToReturn' = n % UINT16_RANGE
      BY <2>1 DEF StartCycle, beginRetryCycle
    <3>4. UNCHANGED <<highestUsedKey, lowestUsedKey>> /\ retrierAt' = "cycle"
      BY <2>1 DEF StartCycle, beginRetryCycle
    <3> HIDE DEF n
    <3>5. bundlesToReturn' \in Nat /\ bundlesToReturn' <= n
      BY <3>2, <3>3, CounterWidth
    <3>6. \A a, h, k, x \in Nat : a + k = h + 1 /\ x <= k => a + x <= h + 1
      OBVIOUS
    <3>7. lowestUsedKey \in Nat /\ highestUsedKey \in Nat
      OBVIOUS
    <3>8. lowestUsedKey + bundlesToReturn' <= highestUsedKey + 1
      BY <3>2, <3>5, <3>6, <3>7, Zenon
    <3>9. CycleWithinKeys'
      BY <3>4, <3>8
    <3>10. retrierAt' \notin {"read", "erase", "advance"}
      BY <3>4
    <3> QED BY <3>4, <3>5, <3>9, <3>10
  <2>2. CASE StartBatch
    BY <1>1, <2>2 DEF StartBatch, flashVars, keyVars
  <2>3. CASE EndCycle
    BY <1>1, <2>3 DEF EndCycle, flashVars, keyVars
  <2>4. CASE LookUpLowest
    BY <2>4 DEF LookUpLowest, BatchDone, hasBundlesToRetry, flashVars, keyVars
  <2>5. CASE ReadLowest
    BY <2>5 DEF ReadLowest, flashVars, keyVars
  <2>6. CASE EraseLowest
    BY <2>6 DEF EraseLowest, keyVars
  <2>7. CASE AdvanceInBatch
    BY <2>7 DEF AdvanceInBatch, AdvanceLowest
  <2>8. CASE EndBatch
    BY <1>1, <2>8 DEF EndBatch, flashVars, keyVars
  <2>9. CASE RetryBundle
    BY <1>1, <2>9 DEF RetryBundle, flashVars, keyVars
  <2>10. CASE DropExpired
    BY <1>1, <2>10 DEF DropExpired, flashVars, keyVars
  <2> QED
    BY <1>4, <2>1, <2>2, <2>3, <2>4, <2>5, <2>6, <2>7, <2>8, <2>9, <2>10 DEF Retrier
<1>5. CASE Restart
  BY <1>5 DEF Restart
<1>6. CASE UNCHANGED vars
  BY <1>1, <1>6 DEF vars, flashVars, keyVars, retrierVars
<1> QED BY <1>2, <1>3, <1>4, <1>5, <1>6 DEF Next

(* getBundlesRetry never looks for keys that have not been given out, so   *)
(* lowestUsedKey never passes by a bundle stored later.                    *)
THEOREM RetryStaysWithinKeys == Spec => []CycleWithinKeys
<1>1. KeyCount => CycleWithinKeys
  BY DEF KeyCount
<1> QED BY <1>1, KeyCountInit, KeyCountNext, PTL DEF Spec

-----------------------------------------------------------------------------
(* Every key in use is within reach of getBundlesRetry.  What has to be    *)
(* known besides: when it is about to move lowestUsedKey past a key, that  *)
(* key is in use no longer, and none is written meanwhile.                 *)

KeysInv ==
  /\ KeyCount
  /\ DOMAIN blobs \subseteq Nat
  /\ KeysReachable
  /\ retrierAt = "advance" => lowestUsedKey \notin DOMAIN blobs

LEMMA KeysInvInit == Init => KeysInv
<1> SUFFICES ASSUME Init PROVE KeysInv
  OBVIOUS
<1>1. DOMAIN blobs = {} /\ retrierAt = "sleep"
  BY DEF Init, TasksInit, FlashInit, NoBlobs
<1> QED BY <1>1, KeyCountInit DEF KeysInv, KeysReachable

LEMMA KeysInvNext ==
  ASSUME KeysInv, [Next]_vars
  PROVE  KeysInv'
<1>1. KeyCount'
  BY KeyCountNext DEF KeysInv
<1> USE DEF KeysInv, KeysReachable
<1>2. ASSUME DOMAIN blobs' \subseteq DOMAIN blobs,
             UNCHANGED <<highestUsedKey, lowestUsedKey>>,
             UNCHANGED retrierAt \/ retrierAt' # "advance"
      PROVE  KeysInv'
  BY <1>1, <1>2
<1>3. ASSUME NEW k PROVE EraseKey(k) => DOMAIN blobs' = DOMAIN blobs \ {k}
  BY DEF EraseKey
<1>4. ASSUME NEW b \in Bundles, Arrive(b) PROVE KeysInv'
  BY <1>2, <1>4 DEF Arrive, flashVars, keyVars, retrierVars
<1>5. CASE Forwarder
  <2>1. CASE StoreBundle
    <3>1. /\ DOMAIN blobs' = DOMAIN blobs \cup {highestUsedKey + 1}
          /\ highestUsedKey' = highestUsedKey + 1
          /\ UNCHANGED lowestUsedKey
      BY <2>1 DEF StoreBundle, Insert, SetBlob
    <3>2. retrierAt' # "advance"
      BY <2>1 DEF StoreBundle, MutexFree, retrierVars
    <3>3. lowestUsedKey <= highestUsedKey + 1
      BY DEF KeyCount, CycleWithinKeys
    <3>4. highestUsedKey \in Nat /\ lowestUsedKey \in Nat
      BY DEF KeyCount
    <3>5. DOMAIN blobs' \subseteq Nat
      BY <3>1, <3>4
    <3>6. \A k \in DOMAIN blobs' : lowestUsedKey <= k /\ k <= highestUsedKey + 1
      BY <3>1, <3>3, <3>4
    <3> QED BY <1>1, <3>1, <3>2, <3>5, <3>6
  <2>2. CASE TakeForForwarding
    BY <1>2, <2>2 DEF TakeForForwarding, flashVars, keyVars, retrierVars
  <2>3. CASE ForwardingSuccess
    BY <1>2, <2>3 DEF ForwardingSuccess, flashVars, keyVars, retrierVars
  <2>4. CASE ForwardingDelayed
    BY <1>2, <2>4 DEF ForwardingDelayed, flashVars, keyVars, retrierVars
  <2>5. CASE StartEviction
    BY <1>2, <2>5 DEF StartEviction, flashVars, keyVars, retrierVars
  <2>6. CASE LookUpOldest
    BY <1>2, <2>6 DEF LookUpOldest, flashVars, keyVars, retrierVars
  <2>7. CASE ReadOldest
    BY <1>2, <2>7 DEF ReadOldest, flashVars, keyVars, retrierVars
  <2>8. CASE EraseOldest
    BY <1>2, <1>3, <2>8 DEF EraseOldest, keyVars, retrierVars
  <2>9. CASE AdvanceOldest
    BY <1>2, <2>9 DEF AdvanceOldest, retrierVars
  <2> QED BY <1>5, <2>1, <2>2, <2>3, <2>4, <2>5, <2>6, <2>7, <2>8, <2>9 DEF Forwarder
<1>6. CASE Retrier
  <2>1. CASE StartCycle
    BY <1>2, <2>1 DEF StartCycle, beginRetryCycle
  <2>2. CASE StartBatch
    BY <1>2, <2>2 DEF StartBatch, flashVars, keyVars
  <2>3. CASE EndCycle
    BY <1>2, <2>3 DEF EndCycle, flashVars, keyVars
  <2>4. CASE LookUpLowest
    <3>1. UNCHANGED <<blobs, highestUsedKey, lowestUsedKey>>
      BY <2>4 DEF LookUpLowest, flashVars, keyVars
    <3>2. retrierAt' = "advance" => lowestUsedKey \notin DOMAIN blobs
      BY <2>4 DEF LookUpLowest, HasBlob
    <3> QED BY <1>1, <3>1, <3>2
  <2>5. CASE ReadLowest
    BY <1>2, <2>5 DEF ReadLowest, flashVars, keyVars
  <2>6. CASE EraseLowest
    <3>1. /\ DOMAIN blobs' = DOMAIN blobs \ {lowestUsedKey}
          /\ UNCHANGED <<highestUsedKey, lowestUsedKey>>
      BY <1>3, <2>6 DEF EraseLowest, keyVars
    <3> QED BY <1>1, <3>1
  <2>7. CASE AdvanceInBatch
    <3>1. /\ UNCHANGED <<blobs, highestUsedKey>>
          /\ lowestUsedKey' = lowestUsedKey + 1
          /\ retrierAt' = "batch"
          /\ lowestUsedKey \notin DOMAIN blobs
      BY <2>7 DEF AdvanceInBatch, AdvanceLowest
    <3>2. lowestUsedKey \in Nat
      BY DEF KeyCount
    <3>3. \A k \in DOMAIN blobs : lowestUsedKey + 1 <= k
      BY <3>1, <3>2
    <3> QED BY <1>1, <3>1, <3>3
  <2>8. CASE EndBatch
    BY <1>2, <2>8 DEF EndBatch, flashVars, keyVars
  <2>9. CASE RetryBundle
    BY <1>2, <2>9 DEF RetryBundle, flashVars, keyVars
  <2>10. CASE DropExpired
    BY <1>2, <2>10 DEF DropExpired, flashVars, keyVars
  <2> QED
    BY <1>6, <2>1, <2>2, <2>3, <2>4, <2>5, <2>6, <2>7, <2>8, <2>9, <2>10 DEF Retrier
<1>7. CASE Restart
  <2>1. DOMAIN blobs' = {} /\ retrierAt' = "sleep"
    BY <1>7 DEF Restart, NoBlobs
  <2> QED BY <1>1, <2>1
<1>9. CASE UNCHANGED vars
  BY <1>2, <1>9 DEF vars, flashVars, keyVars, retrierVars
<1> QED BY <1>4, <1>5, <1>6, <1>7, <1>9 DEF Next

(* No bundle in the flash gets out of the reach of getBundlesRetry:        *)
(* deleteOldest works among the keys without the mutex, but it only ever   *)
(* takes keys away.                                                        *)
THEOREM StoredStayReachable == Spec => []KeysReachable
<1>1. KeysInv => KeysReachable
  BY DEF KeysInv
<1> QED BY <1>1, KeysInvInit, KeysInvNext, PTL DEF Spec

-----------------------------------------------------------------------------
(* No bundle is lost.  What has to be known besides the keys: what         *)
(* getBundlesRetry has read is what is under lowestUsedKey when it erases  *)
(* that, or that has been evicted since; and delayBundle writes to a key   *)
(* that is free.                                                           *)

TasksTyped ==
  /\ arrived \subseteq Bundles
  /\ \A k \in DOMAIN blobs : blobs[k] \in AnyBundle
  /\ forwardQueue \in Seq(AnyBundle)
  /\ forwarding \in Seq(AnyBundle)
  /\ Len(forwarding) = IF forwarderAt = "idle" THEN 0 ELSE 1
  /\ popped \in AnyBundle
  /\ retrying \in Seq(AnyBundle)

ReadBeforeErase ==
  retrierAt = "erase" /\ lowestUsedKey \in DOMAIN blobs => popped = blobs[lowestUsedKey]

CustodyInv ==
  /\ KeysInv
  /\ TasksTyped
  /\ ReadBeforeErase
  /\ NothingLost

LEMMA CustodyInit == Init => CustodyInv
<1> SUFFICES ASSUME Init PROVE CustodyInv
  OBVIOUS
<1>1. KeysInv
  BY KeysInvInit
<1>2. TasksTyped
  BY DEF Init, TasksInit, FlashInit, NoBlobs, TasksTyped, AnyBundle
<1>3. ReadBeforeErase /\ NothingLost
  BY DEF Init, TasksInit, ReadBeforeErase, NothingLost
<1> QED BY <1>1, <1>2, <1>3 DEF CustodyInv

(* The types. *)
LEMMA TasksTypedNext ==
  ASSUME TasksTyped, [Next]_vars
  PROVE  TasksTyped'
<1> USE DEF TasksTyped
<1>1. Garbage \in AnyBundle /\ Bundles \subseteq AnyBundle
  BY DEF AnyBundle
<1>2. ASSUME NEW k PROVE GetBlob(k) \in AnyBundle
  BY <1>1 DEF GetBlob, HasBlob
<1>3. ASSUME NEW s \in Seq(AnyBundle), NEW b \in AnyBundle
      PROVE  Append(s, b) \in Seq(AnyBundle)
  BY QueueIdsAppend
<1>4. ASSUME NEW s \in Seq(AnyBundle), s # <<>>
      PROVE  Head(s) \in AnyBundle /\ Tail(s) \in Seq(AnyBundle)
  BY <1>4, QueueIdsHeadTail
<1>5. ASSUME NEW k, EraseKey(k)
      PROVE  \A j \in DOMAIN blobs' : blobs'[j] \in AnyBundle
  BY <1>5 DEF EraseKey
<1>6. forwarderAt # "idle" => forwarding[1] \in AnyBundle
  BY QueueIdsSmall
<1>7. ASSUME NEW b \in Bundles, Arrive(b) PROVE TasksTyped'
  BY <1>1, <1>3, <1>7 DEF Arrive, flashVars, forwarderVars, retrierVars
<1>8. CASE Forwarder
  <2>1. CASE TakeForForwarding
    BY <1>4, <2>1 DEF TakeForForwarding, flashVars, retrierVars
  <2>2. CASE ForwardingSuccess
    BY <2>2 DEF ForwardingSuccess, flashVars, retrierVars
  <2>3. CASE ForwardingDelayed
    BY <2>3 DEF ForwardingDelayed, flashVars, retrierVars
  <2>4. CASE StoreBundle
    BY <1>6, <2>4 DEF StoreBundle, Insert, SetBlob, retrierVars
  <2>5. CASE StartEviction
    BY <2>5 DEF StartEviction, flashVars, retrierVars
  <2>6. CASE LookUpOldest
    BY <2>6 DEF LookUpOldest, flashVars, retrierVars
  <2>7. CASE ReadOldest
    BY <2>7 DEF ReadOldest, flashVars, retrierVars
  <2>8. CASE EraseOldest
    BY <1>5, <2>8 DEF EraseOldest, retrierVars
  <2>9. CASE AdvanceOldest
    BY <2>9 DEF AdvanceOldest, retrierVars
  <2> QED BY <1>8, <2>1, <2>2, <2>3, <2>4, <2>5, <2>6, <2>7, <2>8, <2>9 DEF Forwarder
<1>9. CASE Retrier
  <2>1. CASE StartCycle
    BY <2>1 DEF StartCycle, beginRetryCycle, forwarderVars
  <2>2. CASE StartBatch
    BY <2>2 DEF StartBatch, flashVars, forwarderVars
  <2>3. CASE EndCycle
    BY <2>3 DEF EndCycle, flashVars, forwarderVars
  <2>4. CASE LookUpLowest
    BY <2>4 DEF LookUpLowest, flashVars, forwarderVars
  <2>5. CASE ReadLowest
    BY <1>2, <2>5 DEF ReadLowest, flashVars, forwarderVars
  <2>6. CASE EraseLowest
    BY <1>1, <1>3, <1>5, <2>6 DEF EraseLowest, forwarderVars
  <2>7. CASE AdvanceInBatch
    BY <2>7 DEF AdvanceInBatch, AdvanceLowest, forwarderVars
  <2>8. CASE EndBatch
    BY <2>8 DEF EndBatch, flashVars, forwarderVars
  <2>9. CASE RetryBundle
    BY <1>3, <1>4, <2>9 DEF RetryBundle, flashVars, forwarderVars
  <2>10. CASE DropExpired
    BY <1>4, <2>10 DEF DropExpired, flashVars, forwarderVars
  <2> QED
    BY <1>9, <2>1, <2>2, <2>3, <2>4, <2>5, <2>6, <2>7, <2>8, <2>9, <2>10 DEF Retrier
<1>10. CASE Restart
  <2>1. /\ arrived' = arrived /\ popped' = Garbage
        /\ forwardQueue' = <<>> /\ forwarding' = <<>> /\ retrying' = <<>>
        /\ forwarderAt' = "idle"
    BY <1>10 DEF Restart
  <2>2. blobs' = NoBlobs \/ blobs' = blobs
    BY <1>10 DEF Restart
  <2>3. \A k \in DOMAIN blobs' : blobs'[k] \in AnyBundle
    BY <2>2 DEF NoBlobs
  <2>4. <<>> \in Seq(AnyBundle) /\ Len(<<>>) = 0
    OBVIOUS
  <2> QED BY <1>1, <2>1, <2>3, <2>4
<1>11. CASE UNCHANGED vars
  BY <1>11 DEF vars, flashVars, forwarderVars, retrierVars
<1> QED BY <1>7, <1>8, <1>9, <1>10, <1>11 DEF Next

(* What getBundlesRetry has read. *)
LEMMA ReadBeforeEraseNext ==
  ASSUME KeysInv, ReadBeforeErase, [Next]_vars
  PROVE  ReadBeforeErase'
<1> USE DEF ReadBeforeErase
<1>1. ASSUME retrierAt' # "erase"
      PROVE  ReadBeforeErase'
  BY <1>1
<1>2. ASSUME UNCHANGED <<blobs, lowestUsedKey, retrierAt, popped>>
      PROVE  ReadBeforeErase'
  BY <1>2
<1>3. ASSUME NEW b \in Bundles, Arrive(b) PROVE ReadBeforeErase'
  BY <1>2, <1>3 DEF Arrive, flashVars, keyVars, retrierVars
<1>4. CASE Forwarder
  <2>1. CASE StoreBundle
    BY <1>1, <2>1 DEF StoreBundle, MutexFree, retrierVars
  <2>2. CASE EraseOldest
    <3>1. /\ DOMAIN blobs' \subseteq DOMAIN blobs
          /\ \A k \in DOMAIN blobs' : blobs'[k] = blobs[k]
      BY <2>2 DEF EraseOldest, EraseKey
    <3>2. UNCHANGED <<lowestUsedKey, retrierAt, popped>>
      BY <2>2 DEF EraseOldest, keyVars, retrierVars
    <3> QED BY <3>1, <3>2
  <2>3. CASE TakeForForwarding \/ ForwardingSuccess \/ ForwardingDelayed
    BY <1>2, <2>3 DEF TakeForForwarding, ForwardingSuccess, ForwardingDelayed,
                      flashVars, keyVars, retrierVars
  <2>4. CASE StartEviction \/ LookUpOldest \/ ReadOldest \/ AdvanceOldest
    BY <1>2, <2>4 DEF StartEviction, LookUpOldest, ReadOldest, AdvanceOldest,
                      flashVars, keyVars, retrierVars
  <2> QED BY <1>4, <2>1, <2>2, <2>3, <2>4 DEF Forwarder
<1>5. CASE Retrier
  <2>1. CASE ReadLowest
    BY <2>1 DEF ReadLowest, GetBlob, HasBlob, flashVars, keyVars
  <2>2. CASE RetryBundle \/ DropExpired
    BY <1>1, <2>2 DEF RetryBundle, DropExpired
  <2>3. CASE StartCycle \/ StartBatch \/ EndCycle \/ LookUpLowest
    BY <1>1, <2>3 DEF StartCycle, StartBatch, EndCycle, LookUpLowest
  <2>4. CASE EraseLowest \/ AdvanceInBatch \/ EndBatch
    BY <1>1, <2>4 DEF EraseLowest, AdvanceInBatch, EndBatch
  <2> QED BY <1>5, <2>1, <2>2, <2>3, <2>4 DEF Retrier
<1>6. CASE Restart
  BY <1>1, <1>6 DEF Restart
<1>7. CASE UNCHANGED vars
  BY <1>2, <1>7 DEF vars, flashVars, keyVars, retrierVars
<1> QED BY <1>3, <1>4, <1>5, <1>6, <1>7 DEF Next

(* The accounts: no step takes a bundle out of what the node has or has    *)
(* done with.                                                              *)
Accounts == Held \cup finished \cup erased \cup forgotten

LEMMA AccountsFrame ==
  ASSUME UNCHANGED <<blobs, forwardQueue, forwarding, retrying, finished, erased,
                     forgotten>>
  PROVE  Accounts' = Accounts
BY DEF Accounts, Held, InRam, QueueIds, Stored

LEMMA AccountsKept ==
  ASSUME KeysInv, TasksTyped, ReadBeforeErase, [Next]_vars,
         NEW b \in Accounts, b \in Bundles
  PROVE  b \in Accounts'
<1> DEFINE F == QueueIds(forwardQueue)
           W == QueueIds(forwarding)
           R == QueueIds(retrying)
<1>1. Accounts = F \cup W \cup R \cup Stored \cup finished \cup erased \cup forgotten
  BY DEF Accounts, Held, InRam
<1>2. Accounts' = F' \cup W' \cup R' \cup Stored' \cup finished' \cup erased'
                  \cup forgotten'
  BY DEF Accounts, Held, InRam
<1>3. ASSUME UNCHANGED <<blobs, forwardQueue, forwarding, retrying, finished, erased,
                         forgotten>>
      PROVE  b \in Accounts'
  BY <1>3, AccountsFrame
<1>4. /\ UNCHANGED blobs => Stored' = Stored
      /\ UNCHANGED forwardQueue => F' = F
      /\ UNCHANGED forwarding => W' = W
      /\ UNCHANGED retrying => R' = R
  BY DEF Stored
<1>5. b # Garbage
  BY FlashAssumption DEF Garbage
<1>6. \A e : QueueIds(<<e>>) = {e}
  BY QueueIdsSmall
<1>7. QueueIds(<<>>) = {}
  BY QueueIdsSmall
<1>8. forwarderAt # "idle" => W = {forwarding[1]}
  BY QueueIdsSmall DEF TasksTyped
<1>9. ASSUME NEW k, EraseKey(k), k \in DOMAIN blobs
      PROVE  Stored \subseteq Stored' \cup {blobs[k]}
  BY <1>9 DEF EraseKey, Stored
<1>10. ASSUME NEW k, EraseKey(k), k \notin DOMAIN blobs
      PROVE  Stored \subseteq Stored'
  BY <1>10 DEF EraseKey, Stored
<1>11. retrying # <<>> => R = {Head(retrying)} \cup QueueIds(Tail(retrying))
  BY QueueIdsHeadTail DEF TasksTyped
<1>12. forwardQueue # <<>> => F = {Head(forwardQueue)} \cup QueueIds(Tail(forwardQueue))
  BY QueueIdsHeadTail DEF TasksTyped
<1>13. ASSUME NEW c \in AnyBundle
       PROVE  /\ QueueIds(Append(forwardQueue, c)) = F \cup {c}
              /\ QueueIds(Append(retrying, c)) = R \cup {c}
  BY QueueIdsAppend DEF TasksTyped
<1>14. retrying # <<>> => Head(retrying) \in AnyBundle
  BY QueueIdsHeadTail DEF TasksTyped
<1> HIDE DEF F, W, R
<1>15. ASSUME NEW c \in Bundles, Arrive(c) PROVE b \in Accounts'
  <2>1. F' = F \cup {c}
    BY <1>13, <1>15 DEF Arrive, AnyBundle, F
  <2>2. UNCHANGED <<blobs, forwarding, retrying, finished, erased, forgotten>>
    BY <1>15 DEF Arrive, flashVars, forwarderVars, retrierVars, historyVars
  <2> QED BY <1>1, <1>2, <1>4, <2>1, <2>2
<1>16. CASE Forwarder
  <2>1. CASE TakeForForwarding
    <3>1. F = {Head(forwardQueue)} \cup F' /\ W' = {Head(forwardQueue)} /\ W = {}
      BY <1>6, <1>12, <2>1, QueueIdsSmall, EmptySeq DEF TakeForForwarding, TasksTyped, F, W
    <3>2. UNCHANGED <<blobs, retrying, finished, erased, forgotten>>
      BY <2>1 DEF TakeForForwarding, flashVars, retrierVars, historyVars
    <3> QED BY <1>1, <1>2, <1>4, <3>1, <3>2
  <2>2. CASE ForwardingSuccess
    <3>1. W = {forwarding[1]} /\ finished' = finished \cup {forwarding[1]}
      BY <1>8, <2>2 DEF ForwardingSuccess
    <3>2. UNCHANGED <<blobs, forwardQueue, retrying, erased, forgotten>>
      BY <2>2 DEF ForwardingSuccess, flashVars, retrierVars
    <3> QED BY <1>1, <1>2, <1>4, <3>1, <3>2
  <2>3. CASE ForwardingDelayed
    BY <1>3, <2>3 DEF ForwardingDelayed, flashVars, retrierVars, historyVars
  <2>4. CASE StoreBundle
    <3>1. W = {forwarding[1]}
      BY <1>8, <2>4 DEF StoreBundle
    <3>2. blobs' = [j \in DOMAIN blobs \cup {highestUsedKey + 1} |->
                      IF j = highestUsedKey + 1 THEN forwarding[1] ELSE blobs[j]]
      BY <2>4 DEF StoreBundle, Insert, SetBlob
    <3>3. highestUsedKey + 1 \notin DOMAIN blobs
      BY DEF KeysInv, KeyCount, KeysReachable
    <3>4. Stored' = Stored \cup {forwarding[1]}
      BY <3>2, <3>3 DEF Stored
    <3>5. UNCHANGED <<forwardQueue, retrying, finished, erased, forgotten>>
      BY <2>4 DEF StoreBundle, retrierVars, historyVars
    <3> QED BY <1>1, <1>2, <1>4, <3>1, <3>4, <3>5
  <2>5. CASE StartEviction
    BY <1>3, <2>5 DEF StartEviction, flashVars, retrierVars, historyVars
  <2>6. CASE LookUpOldest
    BY <1>3, <2>6 DEF LookUpOldest, flashVars, retrierVars, historyVars
  <2>7. CASE ReadOldest
    BY <1>3, <2>7 DEF ReadOldest, flashVars, retrierVars, historyVars
  <2>8. CASE EraseOldest
    <3>1. /\ EraseKey(oldestKey)
          /\ erased' = erased \cup ({GetBlob(oldestKey)} \ {Garbage})
          /\ UNCHANGED <<forwardQueue, forwarding, retrying, finished, forgotten>>
      BY <2>8 DEF EraseOldest, retrierVars
    <3>2. b \in Stored => b \in Stored' \cup erased'
      BY <1>5, <1>9, <1>10, <3>1 DEF GetBlob, HasBlob
    <3> QED BY <1>1, <1>2, <1>4, <3>1, <3>2
  <2>9. CASE AdvanceOldest
    BY <1>3, <2>9 DEF AdvanceOldest, retrierVars, historyVars
  <2> QED BY <1>16, <2>1, <2>2, <2>3, <2>4, <2>5, <2>6, <2>7, <2>8, <2>9 DEF Forwarder
<1>17. CASE Retrier
  <2>1. CASE StartCycle
    BY <1>3, <2>1 DEF StartCycle, beginRetryCycle, forwarderVars
  <2>2. CASE StartBatch
    BY <1>3, <2>2 DEF StartBatch, flashVars, forwarderVars, historyVars
  <2>3. CASE EndCycle
    BY <1>3, <2>3 DEF EndCycle, flashVars, forwarderVars, historyVars
  <2>4. CASE LookUpLowest
    BY <1>3, <2>4 DEF LookUpLowest, flashVars, forwarderVars, historyVars
  <2>5. CASE ReadLowest
    BY <1>3, <2>5 DEF ReadLowest, flashVars, forwarderVars, historyVars
  <2>6. CASE EraseLowest
    <3>1. /\ EraseKey(lowestUsedKey)
          /\ retrying' = Append(retrying, popped)
          /\ retrierAt = "erase"
          /\ UNCHANGED <<forwardQueue, forwarding, finished, erased, forgotten>>
      BY <2>6 DEF EraseLowest, forwarderVars
    <3>2. R' = R \cup {popped}
      BY <1>13, <3>1 DEF TasksTyped, R
    <3>3. lowestUsedKey \in DOMAIN blobs => blobs[lowestUsedKey] = popped
      BY <3>1 DEF ReadBeforeErase
    <3>4. Stored \subseteq Stored' \cup {popped}
      BY <1>9, <1>10, <3>1, <3>3
    <3> QED BY <1>1, <1>2, <1>4, <3>1, <3>2, <3>4
  <2>7. CASE AdvanceInBatch
    BY <1>3, <2>7 DEF AdvanceInBatch, AdvanceLowest, forwarderVars, historyVars
  <2>8. CASE EndBatch
    BY <1>3, <2>8 DEF EndBatch, flashVars, forwarderVars, historyVars
  <2>9. CASE RetryBundle
    <3>1. F' = F \cup {Head(retrying)} /\ R = {Head(retrying)} \cup R'
      BY <1>11, <1>13, <1>14, <2>9 DEF RetryBundle, F, R
    <3>2. UNCHANGED <<blobs, forwarding, finished, erased, forgotten>>
      BY <2>9 DEF RetryBundle, flashVars, forwarderVars, historyVars
    <3> QED BY <1>1, <1>2, <1>4, <3>1, <3>2
  <2>10. CASE DropExpired
    <3>1. R = {Head(retrying)} \cup R' /\ finished' = finished \cup {Head(retrying)}
      BY <1>11, <2>10 DEF DropExpired, R
    <3>2. UNCHANGED <<blobs, forwardQueue, forwarding, erased, forgotten>>
      BY <2>10 DEF DropExpired, flashVars, forwarderVars
    <3> QED BY <1>1, <1>2, <1>4, <3>1, <3>2
  <2> QED
    BY <1>17, <2>1, <2>2, <2>3, <2>4, <2>5, <2>6, <2>7, <2>8, <2>9, <2>10 DEF Retrier
<1>18. CASE Restart
  <2>1. /\ forgotten' = forgotten \cup InRam \cup Stored
        /\ UNCHANGED <<finished, erased>>
    BY <1>18 DEF Restart
  <2> QED BY <2>1, <1>2 DEF Accounts, Held
<1>20. CASE UNCHANGED vars
  BY <1>3, <1>20 DEF vars, flashVars, forwarderVars, retrierVars, historyVars
<1> QED BY <1>15, <1>16, <1>17, <1>18, <1>20 DEF Next

(* And a bundle that arrives goes into the accounts. *)
LEMMA ArrivalAccounted ==
  ASSUME TasksTyped, [Next]_vars
  PROVE  arrived' \ arrived \subseteq Accounts'
<1>1. ASSUME UNCHANGED arrived PROVE arrived' \ arrived \subseteq Accounts'
  BY <1>1
<1>2. ASSUME NEW c \in Bundles, Arrive(c) PROVE arrived' \ arrived \subseteq Accounts'
  <2>1. QueueIds(forwardQueue') = QueueIds(forwardQueue) \cup {c}
    BY <1>2, QueueIdsAppend DEF Arrive, TasksTyped, AnyBundle
  <2>2. arrived' = arrived \cup {c}
    BY <1>2 DEF Arrive
  <2> QED BY <2>1, <2>2 DEF Accounts, Held, InRam
<1>3. CASE Forwarder
  BY <1>1, <1>3 DEF Forwarder, TakeForForwarding, ForwardingSuccess, ForwardingDelayed,
                    StoreBundle, StartEviction, LookUpOldest, ReadOldest, EraseOldest,
                    AdvanceOldest
<1>4. CASE Retrier
  BY <1>1, <1>4 DEF Retrier, StartCycle, StartBatch, EndCycle, LookUpLowest, ReadLowest,
                    EraseLowest, AdvanceInBatch, EndBatch, RetryBundle, DropExpired
<1>5. CASE Restart
  BY <1>1, <1>5 DEF Restart
<1>6. CASE UNCHANGED vars
  BY <1>1, <1>6 DEF vars
<1> QED BY <1>2, <1>3, <1>4, <1>5, <1>6 DEF Next

LEMMA CustodyNext ==
  ASSUME CustodyInv, [Next]_vars
  PROVE  CustodyInv'
<1> USE DEF CustodyInv
<1>1. KeysInv'
  BY KeysInvNext
<1>2. TasksTyped'
  BY TasksTypedNext
<1>3. ReadBeforeErase'
  BY ReadBeforeEraseNext
<1>4. \A b \in Accounts : b \in Bundles => b \in Accounts'
  BY AccountsKept
<1>5. arrived' \ arrived \subseteq Accounts'
  BY ArrivalAccounted
<1>6. arrived \subseteq Accounts /\ arrived \subseteq Bundles
  BY DEF NothingLost, Accounts, TasksTyped
<1>7. arrived' \subseteq Accounts'
  BY <1>4, <1>5, <1>6
<1> QED BY <1>1, <1>2, <1>3, <1>7 DEF NothingLost, Accounts

(* With FlashStorage, too, every bundle the node has accepted is somewhere *)
(* in it until it is forwarded, expired or evicted - the evicted ones only *)
(* counted as such, since deleteOldest may return another bundle than the  *)
(* one it erases.                                                          *)
THEOREM NoBundleLostInFlash == Spec => []NothingLost
<1>1. CustodyInv => NothingLost
  BY DEF CustodyInv
<1> QED BY <1>1, CustodyInit, CustodyNext, PTL DEF Spec

-----------------------------------------------------------------------------
(* Types.  The counter stays within its 16 bits, and a batch within its    *)
(* size: it is looked at again before every key that is read.              *)

StatesTyped ==
  /\ forwarderAt \in {"idle", "route", "delay", "lookup", "read", "erase", "advance"}
  /\ victim \in AnyBundle
  /\ retrierAt \in {"sleep", "cycle", "batch", "read", "erase", "advance"}
  /\ restarts \in 0 .. MaxRestarts

KeysTyped ==
  /\ DOMAIN blobs \subseteq Nat
  /\ oldestKey \in Nat
  /\ bundlesToReturn < UINT16_RANGE

QueuesFit ==
  /\ Len(forwardQueue) <= FwdCap
  /\ Len(retrying) <= BatchSize
  /\ retrierAt \in {"read", "erase"} => Len(retrying) < BatchSize

HistoryTyped ==
  /\ finished \subseteq AnyBundle
  /\ forgotten \subseteq AnyBundle
  /\ erased \subseteq Bundles
  /\ cycleRest \subseteq Bundles

TypeInv ==
  KeyCount /\ TasksTyped /\ StatesTyped /\ KeysTyped /\ QueuesFit /\ HistoryTyped

LEMMA TypeInvInit == Init => TypeInv
<1> SUFFICES ASSUME Init PROVE TypeInv
  OBVIOUS
<1>1. TasksTyped
  BY DEF Init, TasksInit, FlashInit, NoBlobs, TasksTyped, AnyBundle
<1>2. StatesTyped
  BY FlashAgentAssumption DEF Init, TasksInit, StatesTyped, AnyBundle
<1>3. KeysTyped
  BY DEF Init, FlashInit, NoBlobs, KeysTyped, UINT16_RANGE
<1>4. QueuesFit
  BY FlashAgentAssumption, FlashAssumption DEF Init, TasksInit, QueuesFit
<1>5. HistoryTyped
  BY DEF Init, HistoryTyped
<1> QED BY <1>1, <1>2, <1>3, <1>4, <1>5, KeyCountInit DEF TypeInv

LEMMA StatesTypedNext ==
  ASSUME TasksTyped, StatesTyped, [Next]_vars
  PROVE  StatesTyped'
<1> USE DEF StatesTyped
<1>1. Garbage \in AnyBundle
  BY DEF AnyBundle
<1>2. GetBlob(oldestKey) \in AnyBundle
  BY <1>1 DEF GetBlob, HasBlob, TasksTyped
<1>3. ASSUME NEW b \in Bundles, Arrive(b) PROVE StatesTyped'
  BY <1>3 DEF Arrive, forwarderVars, retrierVars
<1>4. CASE Forwarder
  <2>1. CASE TakeForForwarding \/ ForwardingSuccess \/ ForwardingDelayed \/ StoreBundle
    BY <2>1 DEF TakeForForwarding, ForwardingSuccess, ForwardingDelayed, StoreBundle,
                retrierVars
  <2>2. CASE StartEviction \/ LookUpOldest \/ ReadOldest
    BY <1>2, <2>2 DEF StartEviction, LookUpOldest, ReadOldest, retrierVars
  <2>3. CASE EraseOldest \/ AdvanceOldest
    BY <1>1, <2>3 DEF EraseOldest, AdvanceOldest, retrierVars
  <2> QED BY <1>4, <2>1, <2>2, <2>3 DEF Forwarder
<1>5. CASE Retrier
  <2>1. CASE StartCycle \/ StartBatch \/ EndCycle \/ LookUpLowest \/ ReadLowest
    BY <2>1 DEF StartCycle, StartBatch, EndCycle, LookUpLowest, ReadLowest,
                forwarderVars
  <2>2. CASE EraseLowest \/ AdvanceInBatch \/ EndBatch \/ RetryBundle \/ DropExpired
    BY <2>2 DEF EraseLowest, AdvanceInBatch, EndBatch, RetryBundle, DropExpired,
                forwarderVars
  <2> QED BY <1>5, <2>1, <2>2 DEF Retrier
<1>6. CASE Restart
  <2>1. restarts' \in 0 .. MaxRestarts
    BY <1>6, FlashAgentAssumption DEF Restart
  <2> QED BY <1>1, <1>6, <2>1 DEF Restart
<1>7. CASE UNCHANGED vars
  BY <1>7 DEF vars, forwarderVars, retrierVars
<1> QED BY <1>3, <1>4, <1>5, <1>6, <1>7 DEF Next

LEMMA KeysTypedNext ==
  ASSUME KeyCount, KeysTyped, [Next]_vars
  PROVE  KeysTyped'
<1> USE DEF KeysTyped, KeyCount
<1>1. ASSUME UNCHANGED <<blobs, oldestKey, bundlesToReturn>> PROVE KeysTyped'
  BY <1>1
<1>2. ASSUME NEW k PROVE EraseKey(k) => DOMAIN blobs' \subseteq DOMAIN blobs
  BY DEF EraseKey
<1>3. ASSUME NEW b \in Bundles, Arrive(b) PROVE KeysTyped'
  BY <1>1, <1>3 DEF Arrive, flashVars, keyVars
<1>4. CASE Forwarder
  <2>1. CASE TakeForForwarding \/ ForwardingSuccess \/ ForwardingDelayed
    BY <1>1, <2>1 DEF TakeForForwarding, ForwardingSuccess, ForwardingDelayed, flashVars,
                      keyVars
  <2>2. CASE StartEviction \/ LookUpOldest \/ ReadOldest
    BY <1>1, <2>2 DEF StartEviction, LookUpOldest, ReadOldest, flashVars, keyVars
  <2>3. CASE StoreBundle
    BY <2>3 DEF StoreBundle, Insert, SetBlob
  <2>4. CASE EraseOldest
    BY <1>2, <2>4 DEF EraseOldest, keyVars
  <2>5. CASE AdvanceOldest
    <3>1. NextOldestKey \in Nat
      BY DEF NextOldestKey
    <3> QED BY <2>5, <3>1, FlashAgentAssumption DEF AdvanceOldest
  <2> QED BY <1>4, <2>1, <2>2, <2>3, <2>4, <2>5 DEF Forwarder
<1>5. CASE Retrier
  <2>1. CASE StartCycle
    <3> DEFINE n == highestUsedKey - lowestUsedKey + 1
    <3>1. n \in Nat
      BY DEF CycleWithinKeys
    <3>2. bundlesToReturn' = n % UINT16_RANGE /\ UNCHANGED <<blobs, oldestKey>>
      BY <2>1 DEF StartCycle, beginRetryCycle
    <3> HIDE DEF n
    <3>3. n % UINT16_RANGE < UINT16_RANGE
      BY <3>1 DEF UINT16_RANGE
    <3> QED BY <3>2, <3>3
  <2>2. CASE StartBatch \/ EndCycle \/ LookUpLowest \/ ReadLowest
    BY <1>1, <2>2 DEF StartBatch, EndCycle, LookUpLowest, ReadLowest, flashVars, keyVars
  <2>3. CASE EraseLowest
    BY <1>2, <2>3 DEF EraseLowest, keyVars
  <2>4. CASE AdvanceInBatch
    BY <2>4 DEF AdvanceInBatch, AdvanceLowest, UINT16_RANGE
  <2>5. CASE EndBatch \/ RetryBundle \/ DropExpired
    BY <1>1, <2>5 DEF EndBatch, RetryBundle, DropExpired, flashVars, keyVars
  <2> QED BY <1>5, <2>1, <2>2, <2>3, <2>4, <2>5 DEF Retrier
<1>6. CASE Restart
  BY <1>6 DEF Restart, NoBlobs,
              UINT16_RANGE
<1>7. CASE UNCHANGED vars
  BY <1>1, <1>7 DEF vars, flashVars, keyVars
<1> QED BY <1>3, <1>4, <1>5, <1>6, <1>7 DEF Next

LEMMA QueuesFitNext ==
  ASSUME TasksTyped, QueuesFit, [Next]_vars
  PROVE  QueuesFit'
<1> USE DEF QueuesFit
<1>1. ASSUME NEW s \in Seq(AnyBundle)
      PROVE  /\ Len(s) \in Nat
             /\ \A b \in AnyBundle : Len(Append(s, b)) = Len(s) + 1
             /\ s # <<>> => Len(Tail(s)) = Len(s) - 1 /\ Head(s) \in AnyBundle
  BY LenProperties, AppendProperties, HeadTailProperties
<1>2. /\ Len(forwardQueue) \in Nat /\ Len(retrying) \in Nat
      /\ FwdCap \in Nat \ {0} /\ BatchSize \in Nat \ {0}
  BY <1>1, FlashAssumption, FlashAgentAssumption DEF TasksTyped
<1>3. ASSUME UNCHANGED <<forwardQueue, retrying>>,
             UNCHANGED retrierAt \/ retrierAt' \notin {"read", "erase"}
      PROVE  QueuesFit'
  BY <1>3
<1>4. ASSUME NEW b \in Bundles, Arrive(b) PROVE QueuesFit'
  <2>1. Len(forwardQueue') = Len(forwardQueue) + 1 /\ Len(forwardQueue) < FwdCap
    BY <1>1, <1>4 DEF Arrive, TasksTyped, AnyBundle
  <2>2. UNCHANGED <<retrying, retrierAt>>
    BY <1>4 DEF Arrive, retrierVars
  <2> QED BY <1>2, <2>1, <2>2
<1>5. CASE Forwarder
  <2>1. CASE TakeForForwarding
    <3>1. Len(forwardQueue') = Len(forwardQueue) - 1 /\ UNCHANGED <<retrying, retrierAt>>
      BY <1>1, <2>1 DEF TakeForForwarding, TasksTyped, retrierVars
    <3> QED BY <1>2, <3>1
  <2>2. CASE ForwardingSuccess \/ ForwardingDelayed \/ StoreBundle \/ StartEviction
    BY <1>3, <2>2 DEF ForwardingSuccess, ForwardingDelayed, StoreBundle, StartEviction,
                      retrierVars
  <2>3. CASE LookUpOldest \/ ReadOldest \/ EraseOldest \/ AdvanceOldest
    BY <1>3, <2>3 DEF LookUpOldest, ReadOldest, EraseOldest, AdvanceOldest, retrierVars
  <2> QED BY <1>5, <2>1, <2>2, <2>3 DEF Forwarder
<1>6. CASE Retrier
  <2>1. CASE StartCycle \/ StartBatch \/ EndCycle \/ AdvanceInBatch \/ EndBatch
    BY <1>3, <2>1 DEF StartCycle, StartBatch, EndCycle, AdvanceInBatch, EndBatch
  <2>2. CASE LookUpLowest
    BY <1>2, <2>2 DEF LookUpLowest, BatchDone
  <2>3. CASE ReadLowest
    BY <2>3 DEF ReadLowest
  <2>4. CASE EraseLowest
    <3>1. Len(retrying') = Len(retrying) + 1 /\ UNCHANGED forwardQueue
      BY <1>1, <2>4 DEF EraseLowest, TasksTyped
    <3> QED BY <1>2, <2>4, <3>1 DEF EraseLowest
  <2>5. CASE RetryBundle
    <3>1. /\ Len(retrying') = Len(retrying) - 1
          /\ Len(forwardQueue') = Len(forwardQueue) + 1 /\ Len(forwardQueue) < FwdCap
          /\ retrierAt' = "cycle"
      BY <1>1, <2>5 DEF RetryBundle, TasksTyped
    <3> QED BY <1>2, <3>1
  <2>6. CASE DropExpired
    <3>1. /\ Len(retrying') = Len(retrying) - 1
          /\ UNCHANGED forwardQueue /\ retrierAt' = "cycle"
      BY <1>1, <2>6 DEF DropExpired, TasksTyped
    <3> QED BY <1>2, <3>1
  <2> QED BY <1>6, <2>1, <2>2, <2>3, <2>4, <2>5, <2>6 DEF Retrier
<1>7. CASE Restart
  <2>1. forwardQueue' = <<>> /\ retrying' = <<>> /\ retrierAt' = "sleep"
    BY <1>7 DEF Restart
  <2>2. Len(<<>>) = 0
    OBVIOUS
  <2> QED BY <1>2, <2>1, <2>2
<1>8. CASE UNCHANGED vars
  BY <1>3, <1>8 DEF vars, retrierVars
<1> QED BY <1>4, <1>5, <1>6, <1>7, <1>8 DEF Next

LEMMA HistoryTypedNext ==
  ASSUME TasksTyped, HistoryTyped, [Next]_vars
  PROVE  HistoryTyped'
<1> USE DEF HistoryTyped
<1>1. ASSUME UNCHANGED historyVars PROVE HistoryTyped'
  BY <1>1 DEF historyVars
<1>2. ASSUME NEW k PROVE GetBlob(k) \in AnyBundle
  BY DEF GetBlob, HasBlob, TasksTyped, AnyBundle
<1>3. Stored \subseteq AnyBundle
  BY DEF Stored, TasksTyped
<1>4. ASSUME NEW s \in Seq(AnyBundle) PROVE QueueIds(s) \subseteq AnyBundle
  <2>1. \A i \in DOMAIN s : s[i] \in AnyBundle
    BY ElementOfSeq
  <2> QED BY <2>1 DEF QueueIds
<1>5. InRam \subseteq AnyBundle
  BY <1>4 DEF InRam, TasksTyped
<1>6. forwarderAt # "idle" => forwarding[1] \in AnyBundle
  BY QueueIdsSmall DEF TasksTyped
<1>7. retrying # <<>> => Head(retrying) \in AnyBundle
  BY QueueIdsHeadTail DEF TasksTyped
<1>8. ASSUME NEW b \in Bundles, Arrive(b) PROVE HistoryTyped'
  BY <1>1, <1>8 DEF Arrive
<1>9. CASE Forwarder
  <2>1. CASE TakeForForwarding \/ ForwardingDelayed \/ StoreBundle \/ StartEviction
    BY <1>1, <2>1 DEF TakeForForwarding, ForwardingDelayed, StoreBundle, StartEviction
  <2>2. CASE ForwardingSuccess
    BY <1>6, <2>2 DEF ForwardingSuccess
  <2>3. CASE LookUpOldest \/ ReadOldest \/ AdvanceOldest
    BY <1>1, <2>3 DEF LookUpOldest, ReadOldest, AdvanceOldest
  <2>4. CASE EraseOldest
    BY <1>2, <2>4 DEF EraseOldest, AnyBundle
  <2> QED BY <1>9, <2>1, <2>2, <2>3, <2>4 DEF Forwarder
<1>10. CASE Retrier
  <2>1. CASE StartCycle
    BY <1>3, <2>1 DEF StartCycle, AnyBundle
  <2>2. CASE StartBatch \/ EndCycle \/ LookUpLowest \/ ReadLowest
    BY <1>1, <2>2 DEF StartBatch, EndCycle, LookUpLowest, ReadLowest
  <2>3. CASE EraseLowest
    BY <2>3 DEF EraseLowest
  <2>4. CASE AdvanceInBatch \/ EndBatch \/ RetryBundle
    BY <1>1, <2>4 DEF AdvanceInBatch, EndBatch, RetryBundle
  <2>5. CASE DropExpired
    BY <1>7, <2>5 DEF DropExpired
  <2> QED BY <1>10, <2>1, <2>2, <2>3, <2>4, <2>5 DEF Retrier
<1>11. CASE Restart
  BY <1>3, <1>5, <1>11
     DEF Restart
<1>12. CASE UNCHANGED vars
  BY <1>1, <1>12 DEF vars
<1> QED BY <1>8, <1>9, <1>10, <1>11, <1>12 DEF Next

(* Every variable keeps its type, over restarts too: the counter its       *)
(* 16 bits, the queue and the batches their sizes.                         *)
THEOREM TypeCorrect == Spec => []TypeOK
<1>1. TypeInv /\ [Next]_vars => TypeInv'
  BY KeyCountNext, TasksTypedNext, StatesTypedNext, KeysTypedNext, QueuesFitNext,
     HistoryTypedNext
     DEF TypeInv
<1>2. TypeInv => TypeOK
  <2> SUFFICES ASSUME TypeInv PROVE TypeOK
    OBVIOUS
  <2> USE DEF TypeInv
  <2>1. FlashTypeOK
    <3>1. \A k \in DOMAIN blobs : k \in Nat /\ blobs[k] \in Bundles \cup {Garbage}
      BY DEF KeysTyped, TasksTyped, AnyBundle
    <3>2. bundlesToReturn \in 0 .. UINT16_RANGE - 1
      <4>1. bundlesToReturn \in Nat
        BY DEF KeyCount
      <4>2. bundlesToReturn < 65536
        BY DEF KeysTyped, UINT16_RANGE
      <4>3. UINT16_RANGE - 1 = 65535
        BY DEF UINT16_RANGE
      <4> QED BY <4>1, <4>2, <4>3
    <3> QED BY <3>1, <3>2 DEF FlashTypeOK, KeyCount, KeysTyped
  <2>2. arrived \subseteq Bundles /\ forwardQueue \in Seq(AnyBundle)
        /\ forwarding \in Seq(AnyBundle) /\ popped \in AnyBundle
        /\ retrying \in Seq(AnyBundle)
        /\ Len(forwarding) = IF forwarderAt = "idle" THEN 0 ELSE 1
    BY DEF TasksTyped
  <2> QED BY <2>1, <2>2 DEF TypeOK, StatesTyped, QueuesFit, HistoryTyped
<1> QED BY TypeInvInit, <1>1, <1>2, PTL DEF Spec

-----------------------------------------------------------------------------
(* No bundle is in two places.  What has to be known besides: what         *)
(* getBundlesRetry has read and not yet erased is still under the key it   *)
(* came from, if it is anywhere; and only bundles that have arrived are    *)
(* anywhere.                                                               *)

Once(s) == \A i, j \in DOMAIN s : s[i] = s[j] /\ s[j] # Garbage => i = j

Apart(A, B) == A \cap B \subseteq {Garbage}

PlacesOnce ==
  /\ Once(forwardQueue)
  /\ Once(retrying)
  /\ \A j, k \in DOMAIN blobs : blobs[j] = blobs[k] /\ blobs[k] # Garbage => j = k

PlacesApart ==
  /\ Apart(QueueIds(forwardQueue), QueueIds(forwarding))
  /\ Apart(QueueIds(forwardQueue), QueueIds(retrying))
  /\ Apart(QueueIds(forwarding), QueueIds(retrying))
  /\ Apart(InRam, Stored)

ReadOnce ==
  popped # Garbage =>
    /\ retrierAt = "erase"
    /\ popped \notin InRam
    /\ \A k \in DOMAIN blobs : blobs[k] = popped => k = lowestUsedKey

OnlyArrived == InRam \cup Stored \cup {popped} \subseteq arrived \cup {Garbage}

CopiesInv == TasksTyped /\ PlacesOnce /\ PlacesApart /\ ReadOnce /\ OnlyArrived

LEMMA OnceAppend ==
  ASSUME NEW S, NEW s \in Seq(S), NEW e \in S, Once(s), e = Garbage \/ e \notin QueueIds(s)
  PROVE  Once(Append(s, e))
<1> DEFINE t == Append(s, e)
<1>1. /\ t \in Seq(S) /\ Len(t) = Len(s) + 1
      /\ \A i \in 1 .. Len(s) : t[i] = s[i]
      /\ t[Len(s) + 1] = e
  BY AppendProperties
<1>2. DOMAIN s = 1 .. Len(s) /\ DOMAIN t = 1 .. Len(s) + 1 /\ Len(s) \in Nat
  BY <1>1
<1> HIDE DEF t
<1>3. \A i \in DOMAIN t : (i \in DOMAIN s /\ t[i] = s[i]) \/ (i = Len(s) + 1 /\ t[i] = e)
  BY <1>1, <1>2
<1>4. \A i \in DOMAIN s : s[i] \in QueueIds(s)
  BY DEF QueueIds
<1>5. Once(t)
  <2> SUFFICES ASSUME NEW i \in DOMAIN t, NEW j \in DOMAIN t, t[i] = t[j], t[j] # Garbage
               PROVE  i = j
    BY DEF Once
  <2> QED BY <1>3, <1>4 DEF Once
<1> QED BY <1>5 DEF t

LEMMA OnceHeadTail ==
  ASSUME NEW S, NEW s \in Seq(S), s # <<>>, Once(s)
  PROVE  /\ Once(Tail(s))
         /\ Head(s) = Garbage \/ Head(s) \notin QueueIds(Tail(s))
<1> DEFINE t == Tail(s)
<1>1. /\ Head(s) = s[1]
      /\ t \in Seq(S) /\ Len(t) = Len(s) - 1
      /\ \A i \in 1 .. Len(t) : t[i] = s[i + 1]
      /\ Len(s) \in Nat /\ Len(s) # 0
  BY HeadTailProperties, EmptySeq
<1>2. DOMAIN s = 1 .. Len(s) /\ DOMAIN t = 1 .. Len(s) - 1
  BY <1>1
<1> HIDE DEF t
<1>3. \A i \in DOMAIN t : i \in Nat \ {0} /\ i + 1 \in DOMAIN s /\ t[i] = s[i + 1]
  BY <1>1, <1>2
<1>4. 1 \in DOMAIN s
  BY <1>1, <1>2
<1>5. Once(t)
  <2> SUFFICES ASSUME NEW i \in DOMAIN t, NEW j \in DOMAIN t, t[i] = t[j], t[j] # Garbage
               PROVE  i = j
    BY DEF Once
  <2>1. i + 1 = j + 1
    BY <1>3 DEF Once
  <2> QED BY <2>1, <1>3
<1>6. ASSUME s[1] # Garbage, s[1] \in QueueIds(t) PROVE FALSE
  <2>1. PICK i \in DOMAIN t : t[i] = s[1]
    BY <1>6 DEF QueueIds
  <2>2. i + 1 = 1
    BY <1>3, <1>4, <1>6, <2>1 DEF Once
  <2> QED BY <1>3, <2>2
<1> QED BY <1>1, <1>5, <1>6 DEF t

(* What the calls of the NVS do to the set of stored bundles. *)
LEMMA StoredErase ==
  ASSUME NEW k, EraseKey(k)
  PROVE  /\ Stored' \subseteq Stored
         /\ DOMAIN blobs' = DOMAIN blobs \ {k}
         /\ \A j \in DOMAIN blobs' : blobs'[j] = blobs[j]
  BY DEF EraseKey, Stored

LEMMA StoredSet ==
  ASSUME NEW k, NEW b, SetBlob(k, b)
  PROVE  /\ Stored' \subseteq Stored \cup {b}
         /\ \A j \in DOMAIN blobs' : IF j = k THEN blobs'[j] = b
                                     ELSE j \in DOMAIN blobs /\ blobs'[j] = blobs[j]
  BY DEF SetBlob, Stored

LEMMA CopiesInit == Init => CopiesInv
<1> SUFFICES ASSUME Init PROVE CopiesInv
  OBVIOUS
<1>1. /\ forwardQueue = <<>> /\ forwarding = <<>> /\ retrying = <<>>
      /\ popped = Garbage /\ DOMAIN blobs = {}
  BY DEF Init, TasksInit, FlashInit, NoBlobs
<1>2. InRam = {} /\ Stored = {}
  BY <1>1, QueueIdsSmall DEF InRam, Stored
<1>3. TasksTyped
  BY DEF Init, TasksInit, FlashInit, NoBlobs, TasksTyped, AnyBundle
<1>4. PlacesOnce
  BY <1>1 DEF PlacesOnce, Once
<1>5. PlacesApart
  BY <1>1, <1>2, QueueIdsSmall DEF PlacesApart, Apart
<1> QED BY <1>1, <1>2, <1>3, <1>4, <1>5 DEF CopiesInv, ReadOnce, OnlyArrived

LEMMA CopiesNext ==
  ASSUME CopiesInv, [Next]_vars
  PROVE  CopiesInv'
<1> DEFINE F == QueueIds(forwardQueue)
           W == QueueIds(forwarding)
           R == QueueIds(retrying)
<1>1. TasksTyped'
  BY TasksTypedNext DEF CopiesInv
<1>2. /\ TasksTyped /\ PlacesOnce /\ PlacesApart /\ ReadOnce /\ OnlyArrived
      /\ Once(forwardQueue) /\ Once(retrying)
      /\ \A j, k \in DOMAIN blobs : blobs[j] = blobs[k] /\ blobs[k] # Garbage => j = k
  BY DEF CopiesInv, PlacesOnce
<1>3. InRam = F \cup W \cup R /\ InRam' = F' \cup W' \cup R'
  BY DEF InRam
<1>4. /\ UNCHANGED blobs => Stored' = Stored
      /\ UNCHANGED forwardQueue => F' = F /\ Once(forwardQueue')
      /\ UNCHANGED forwarding => W' = W
      /\ UNCHANGED retrying => R' = R /\ Once(retrying')
  BY <1>2 DEF Stored
<1>5. /\ Apart(F, W \cup R \cup Stored) /\ Apart(W, R \cup Stored) /\ Apart(R, Stored)
      /\ F \cup W \cup R \cup Stored \cup {popped} \subseteq arrived \cup {Garbage}
      /\ popped # Garbage => popped \notin F \cup W \cup R
  BY <1>2, <1>3 DEF PlacesApart, Apart, OnlyArrived, ReadOnce
<1>6. ASSUME Apart(F', W' \cup R' \cup Stored'), Apart(W', R' \cup Stored'),
             Apart(R', Stored')
      PROVE  PlacesApart'
  BY <1>3, <1>6 DEF PlacesApart, Apart
<1>7. ASSUME UNCHANGED <<blobs, arrived, forwardQueue, forwarding, retrying, popped>>,
             popped = Garbage \/ UNCHANGED <<retrierAt, lowestUsedKey>>
      PROVE  CopiesInv'
  BY <1>1, <1>2, <1>3, <1>4, <1>7
     DEF CopiesInv, PlacesOnce, PlacesApart, ReadOnce, OnlyArrived
<1>8. retrierAt # "erase" => popped = Garbage
  BY <1>2 DEF ReadOnce
<1>9. \A e : QueueIds(<<e>>) = {e}
  BY QueueIdsSmall
<1>10. QueueIds(<<>>) = {}
  BY QueueIdsSmall
<1>11. forwarderAt # "idle" => W = {forwarding[1]}
  BY <1>2, QueueIdsSmall DEF TasksTyped
<1>12. retrying # <<>> => /\ R = {Head(retrying)} \cup QueueIds(Tail(retrying))
                          /\ Head(retrying) \in AnyBundle
                          /\ Once(Tail(retrying))
                          /\ \/ Head(retrying) = Garbage
                             \/ Head(retrying) \notin QueueIds(Tail(retrying))
  BY <1>2, QueueIdsHeadTail, OnceHeadTail DEF TasksTyped
<1>13. forwardQueue # <<>> => /\ F = {Head(forwardQueue)} \cup QueueIds(Tail(forwardQueue))
                              /\ Once(Tail(forwardQueue))
                              /\ \/ Head(forwardQueue) = Garbage
                                 \/ Head(forwardQueue) \notin QueueIds(Tail(forwardQueue))
  BY <1>2, QueueIdsHeadTail, OnceHeadTail DEF TasksTyped
<1>14. ASSUME NEW c \in AnyBundle
       PROVE  /\ QueueIds(Append(forwardQueue, c)) = F \cup {c}
              /\ QueueIds(Append(retrying, c)) = R \cup {c}
              /\ c = Garbage \/ c \notin F => Once(Append(forwardQueue, c))
              /\ c = Garbage \/ c \notin R => Once(Append(retrying, c))
  BY <1>2, QueueIdsAppend, OnceAppend DEF TasksTyped
<1> HIDE DEF F, W, R
<1>15. ASSUME NEW c \in Bundles, Arrive(c) PROVE CopiesInv'
  <2>1. c \notin arrived /\ c # Garbage /\ c \in AnyBundle /\ arrived' = arrived \cup {c}
    BY <1>15, FlashAssumption DEF Arrive, AnyBundle, Garbage
  <2>2. c \notin F \cup W \cup R \cup Stored \cup {popped}
    BY <1>5, <2>1
  <2>3. F' = F \cup {c} /\ Once(forwardQueue')
    BY <1>14, <1>15, <2>1, <2>2 DEF Arrive, F
  <2>4. UNCHANGED <<blobs, forwarding, retrying, popped, retrierAt, lowestUsedKey>>
    BY <1>15 DEF Arrive, flashVars, keyVars, forwarderVars, retrierVars
  <2>5. W' = W /\ R' = R /\ Once(retrying') /\ Stored' = Stored
    BY <1>4, <2>4
  <2>6. PlacesOnce'
    BY <1>2, <2>3, <2>4, <2>5 DEF PlacesOnce
  <2>7. PlacesApart'
    BY <1>5, <1>6, <2>2, <2>3, <2>5 DEF Apart
  <2>8. ReadOnce'
    BY <1>2, <1>3, <2>2, <2>3, <2>4, <2>5 DEF ReadOnce
  <2>9. OnlyArrived'
    BY <1>3, <1>5, <2>1, <2>3, <2>4, <2>5 DEF OnlyArrived
  <2> QED BY <1>1, <2>6, <2>7, <2>8, <2>9 DEF CopiesInv
<1>16. CASE Forwarder
  <2>1. CASE TakeForForwarding
    <3>1. /\ F = {Head(forwardQueue)} \cup F' /\ W' = {Head(forwardQueue)}
          /\ Head(forwardQueue) = Garbage \/ Head(forwardQueue) \notin F'
          /\ Once(forwardQueue')
      BY <1>9, <1>13, <2>1 DEF TakeForForwarding, F, W
    <3>2. /\ UNCHANGED <<blobs, arrived, retrying, popped, retrierAt, lowestUsedKey>>
      BY <2>1 DEF TakeForForwarding, flashVars, keyVars, retrierVars
    <3>3. R' = R /\ Once(retrying') /\ Stored' = Stored
      BY <1>4, <3>2
    <3>4. PlacesOnce'
      BY <1>2, <3>1, <3>2, <3>3 DEF PlacesOnce
    <3>5. PlacesApart'
      BY <1>5, <1>6, <3>1, <3>3 DEF Apart
    <3>6. ReadOnce'
      BY <1>2, <1>3, <3>1, <3>2, <3>3 DEF ReadOnce
    <3>7. OnlyArrived'
      BY <1>3, <1>5, <3>1, <3>2, <3>3 DEF OnlyArrived
    <3> QED BY <1>1, <3>4, <3>5, <3>6, <3>7 DEF CopiesInv
  <2>2. CASE ForwardingSuccess
    <3>1. W' = {}
      BY <1>10, <2>2 DEF ForwardingSuccess, W
    <3>2. UNCHANGED <<blobs, arrived, forwardQueue, retrying, popped, retrierAt,
                      lowestUsedKey>>
      BY <2>2 DEF ForwardingSuccess, flashVars, keyVars, retrierVars
    <3>3. F' = F /\ R' = R /\ Once(forwardQueue') /\ Once(retrying') /\ Stored' = Stored
      BY <1>4, <3>2
    <3>4. PlacesOnce'
      BY <1>2, <3>2, <3>3 DEF PlacesOnce
    <3>5. PlacesApart'
      BY <1>5, <1>6, <3>1, <3>3 DEF Apart
    <3>6. ReadOnce'
      BY <1>2, <1>3, <3>1, <3>2, <3>3 DEF ReadOnce
    <3>7. OnlyArrived'
      BY <1>3, <1>5, <3>1, <3>2, <3>3 DEF OnlyArrived
    <3> QED BY <1>1, <3>4, <3>5, <3>6, <3>7 DEF CopiesInv
  <2>3. CASE ForwardingDelayed \/ StartEviction \/ LookUpOldest \/ ReadOldest
    BY <1>7, <2>3 DEF ForwardingDelayed, StartEviction, LookUpOldest, ReadOldest,
                      flashVars, keyVars, retrierVars
  <2>4. CASE AdvanceOldest
    BY <1>7, <2>4 DEF AdvanceOldest, retrierVars
  <2>5. CASE StoreBundle
    <3> DEFINE b == forwarding[1]
               k == highestUsedKey + 1
    <3>1. W = {b} /\ W' = {} /\ SetBlob(k, b) /\ popped = Garbage
      BY <1>8, <1>10, <1>11, <2>5 DEF StoreBundle, Insert, MutexFree, W
    <3>2. UNCHANGED <<arrived, forwardQueue, retrying, popped>>
      BY <2>5 DEF StoreBundle, retrierVars
    <3>3. F' = F /\ R' = R /\ Once(forwardQueue') /\ Once(retrying')
      BY <1>4, <3>2
    <3> HIDE DEF b, k
    <3>4. Stored' \subseteq Stored \cup {b}
      BY <3>1, StoredSet
    <3>5. \A j \in DOMAIN blobs' : IF j = k THEN blobs'[j] = b
                                   ELSE j \in DOMAIN blobs /\ blobs'[j] = blobs[j]
      BY <3>1, StoredSet
    <3>6. b = Garbage \/ \A j \in DOMAIN blobs : blobs[j] # b
      BY <1>5, <3>1 DEF Apart, Stored
    <3>7. \A i, j \in DOMAIN blobs' : blobs'[i] = blobs'[j] /\ blobs'[j] # Garbage => i = j
      BY <1>2, <3>5, <3>6
    <3>8. PlacesOnce'
      BY <3>3, <3>7 DEF PlacesOnce
    <3>9. PlacesApart'
      BY <1>5, <1>6, <3>1, <3>3, <3>4 DEF Apart
    <3>10. ReadOnce'
      BY <3>1, <3>2 DEF ReadOnce
    <3>11. OnlyArrived'
      BY <1>3, <1>5, <3>1, <3>2, <3>3, <3>4 DEF OnlyArrived
    <3> QED BY <1>1, <3>8, <3>9, <3>10, <3>11 DEF CopiesInv
  <2>6. CASE EraseOldest
    <3>1. EraseKey(oldestKey)
      BY <2>6 DEF EraseOldest
    <3>2. UNCHANGED <<arrived, forwardQueue, forwarding, retrying, popped, retrierAt,
                      lowestUsedKey>>
      BY <2>6 DEF EraseOldest, keyVars, retrierVars
    <3>3. /\ F' = F /\ W' = W /\ R' = R /\ InRam' = InRam
          /\ Once(forwardQueue') /\ Once(retrying')
      BY <1>3, <1>4, <3>2
    <3>4. /\ Stored' \subseteq Stored
          /\ \A j \in DOMAIN blobs' : j \in DOMAIN blobs /\ blobs'[j] = blobs[j]
      BY <3>1, StoredErase
    <3>5. PlacesOnce'
      BY <1>2, <3>3, <3>4 DEF PlacesOnce
    <3>6. PlacesApart'
      BY <1>5, <1>6, <3>3, <3>4 DEF Apart
    <3>7. ReadOnce'
      BY <1>2, <3>2, <3>3, <3>4 DEF ReadOnce
    <3>8. OnlyArrived'
      BY <1>2, <3>2, <3>3, <3>4 DEF OnlyArrived
    <3> QED BY <1>1, <3>5, <3>6, <3>7, <3>8 DEF CopiesInv
  <2> QED BY <1>16, <2>1, <2>2, <2>3, <2>4, <2>5, <2>6 DEF Forwarder
<1>17. CASE Retrier
  <2>1. CASE StartCycle
    BY <1>7, <2>1, <1>8 DEF StartCycle, beginRetryCycle, forwarderVars
  <2>2. CASE StartBatch \/ EndCycle \/ LookUpLowest \/ EndBatch
    BY <1>7, <1>8, <2>2 DEF StartBatch, EndCycle, LookUpLowest, EndBatch, flashVars,
                            keyVars, forwarderVars
  <2>3. CASE AdvanceInBatch
    BY <1>7, <1>8, <2>3 DEF AdvanceInBatch, AdvanceLowest, forwarderVars
  <2>4. CASE ReadLowest
    <3>1. /\ popped' = GetBlob(lowestUsedKey) /\ retrierAt' = "erase"
          /\ UNCHANGED <<blobs, arrived, forwardQueue, forwarding, retrying, lowestUsedKey>>
      BY <2>4 DEF ReadLowest, flashVars, keyVars, forwarderVars
    <3>2. popped' # Garbage =>
            lowestUsedKey \in DOMAIN blobs /\ popped' = blobs[lowestUsedKey]
            /\ popped' \in Stored
      BY <3>1 DEF GetBlob, HasBlob, Stored
    <3>3. /\ F' = F /\ W' = W /\ R' = R /\ InRam' = InRam /\ Stored' = Stored
          /\ Once(forwardQueue') /\ Once(retrying')
      BY <1>3, <1>4, <3>1
    <3>4. PlacesOnce' /\ PlacesApart'
      BY <1>2, <3>1, <3>3 DEF PlacesOnce, PlacesApart
    <3>5. ReadOnce'
      <4>1. popped' # Garbage => popped' \notin InRam
        BY <1>2, <3>2 DEF PlacesApart, Apart
      <4>2. popped' # Garbage => \A k \in DOMAIN blobs : blobs[k] = popped' => k = lowestUsedKey
        BY <1>2, <3>2
      <4> QED BY <3>1, <3>3, <4>1, <4>2 DEF ReadOnce
    <3>6. OnlyArrived'
      BY <1>2, <3>1, <3>2, <3>3 DEF OnlyArrived
    <3> QED BY <1>1, <3>4, <3>5, <3>6 DEF CopiesInv
  <2>5. CASE EraseLowest
    <3>1. /\ EraseKey(lowestUsedKey) /\ popped' = Garbage
          /\ UNCHANGED <<arrived, forwardQueue, forwarding>>
      BY <2>5 DEF EraseLowest, forwarderVars
    <3>2. R' = R \cup {popped} /\ Once(retrying')
      <4>1. retrying' = Append(retrying, popped) /\ popped \in AnyBundle
        BY <1>2, <2>5 DEF EraseLowest, TasksTyped
      <4>2. popped = Garbage \/ popped \notin R
        BY <1>5
      <4>3. QueueIds(Append(retrying, popped)) = R \cup {popped}
            /\ Once(Append(retrying, popped))
        BY <1>14, <4>1, <4>2
      <4> QED BY <4>1, <4>3 DEF R
    <3>3. F' = F /\ W' = W /\ Once(forwardQueue')
      BY <1>4, <3>1
    <3>4. /\ Stored' \subseteq Stored
          /\ DOMAIN blobs' = DOMAIN blobs \ {lowestUsedKey}
          /\ \A j \in DOMAIN blobs' : blobs'[j] = blobs[j]
      BY <3>1, StoredErase
    <3>5. popped # Garbage => popped \notin Stored'
      BY <1>2, <3>4 DEF ReadOnce, Stored
    <3>6. PlacesOnce'
      BY <1>2, <3>2, <3>3, <3>4 DEF PlacesOnce
    <3>7. PlacesApart'
      BY <1>5, <1>6, <3>2, <3>3, <3>4, <3>5 DEF Apart
    <3>8. ReadOnce'
      BY <3>1 DEF ReadOnce
    <3>9. OnlyArrived'
      BY <1>3, <1>5, <3>1, <3>2, <3>3, <3>4 DEF OnlyArrived
    <3> QED BY <1>1, <3>6, <3>7, <3>8, <3>9 DEF CopiesInv
  <2>6. CASE RetryBundle
    <3>1. /\ R = {Head(retrying)} \cup R' /\ F' = F \cup {Head(retrying)}
          /\ Head(retrying) = Garbage \/ Head(retrying) \notin R'
          /\ Once(retrying')
      BY <1>12, <1>14, <2>6 DEF RetryBundle, F, R
    <3>2. /\ UNCHANGED <<blobs, arrived, forwarding, popped>> /\ popped = Garbage
      BY <1>8, <2>6 DEF RetryBundle, flashVars, forwarderVars
    <3>3. W' = W /\ Stored' = Stored
      BY <1>4, <3>2
    <3>4. Once(forwardQueue')
      <4>1. Head(retrying) = Garbage \/ Head(retrying) \notin F
        BY <1>5, <3>1 DEF Apart
      <4>2. forwardQueue' = Append(forwardQueue, Head(retrying)) /\ Head(retrying) \in AnyBundle
        BY <1>12, <2>6 DEF RetryBundle
      <4> QED BY <1>14, <4>1, <4>2
    <3>5. PlacesOnce'
      BY <1>2, <3>1, <3>2, <3>4 DEF PlacesOnce
    <3>6. PlacesApart'
      BY <1>5, <1>6, <3>1, <3>3 DEF Apart
    <3>7. ReadOnce'
      BY <3>2 DEF ReadOnce
    <3>8. OnlyArrived'
      BY <1>3, <1>5, <3>1, <3>2, <3>3 DEF OnlyArrived
    <3> QED BY <1>1, <3>5, <3>6, <3>7, <3>8 DEF CopiesInv
  <2>7. CASE DropExpired
    <3>1. R = {Head(retrying)} \cup R' /\ Once(retrying')
      BY <1>12, <2>7 DEF DropExpired, R
    <3>2. UNCHANGED <<blobs, arrived, forwardQueue, forwarding, popped>> /\ popped = Garbage
      BY <1>8, <2>7 DEF DropExpired, flashVars, forwarderVars
    <3>3. F' = F /\ W' = W /\ Once(forwardQueue') /\ Stored' = Stored
      BY <1>4, <3>2
    <3>4. PlacesOnce'
      BY <1>2, <3>1, <3>2, <3>3 DEF PlacesOnce
    <3>5. PlacesApart'
      BY <1>5, <1>6, <3>1, <3>3 DEF Apart
    <3>6. ReadOnce'
      BY <3>2 DEF ReadOnce
    <3>7. OnlyArrived'
      BY <1>3, <1>5, <3>1, <3>2, <3>3 DEF OnlyArrived
    <3> QED BY <1>1, <3>4, <3>5, <3>6, <3>7 DEF CopiesInv
  <2> QED BY <1>17, <2>1, <2>2, <2>3, <2>4, <2>5, <2>6, <2>7 DEF Retrier
<1>18. CASE Restart
  <2>1. /\ forwardQueue' = <<>> /\ forwarding' = <<>> /\ retrying' = <<>>
        /\ popped' = Garbage /\ UNCHANGED arrived
    BY <1>18 DEF Restart
  <2>2. blobs' = NoBlobs \/ blobs' = blobs
    BY <1>18 DEF Restart
  <2>3. F' = {} /\ W' = {} /\ R' = {}
    BY <1>10, <2>1 DEF F, W, R
  <2>4. Stored' \subseteq Stored
    BY <2>2 DEF Stored, NoBlobs
  <2>5. \A j, k \in DOMAIN blobs' : blobs'[j] = blobs'[k] /\ blobs'[k] # Garbage => j = k
    BY <1>2, <2>2 DEF NoBlobs
  <2>6. PlacesOnce'
    BY <2>1, <2>5 DEF PlacesOnce, Once
  <2>7. PlacesApart'
    BY <1>6, <2>3 DEF Apart
  <2>8. ReadOnce'
    BY <2>1 DEF ReadOnce
  <2>9. OnlyArrived'
    BY <1>3, <1>5, <2>1, <2>3, <2>4 DEF OnlyArrived
  <2> QED BY <1>1, <2>6, <2>7, <2>8, <2>9 DEF CopiesInv
<1>19. CASE UNCHANGED vars
  BY <1>7, <1>19 DEF vars, flashVars, keyVars, forwarderVars, retrierVars
<1> QED BY <1>15, <1>16, <1>17, <1>18, <1>19 DEF Next

(* What PlacesOnce and PlacesApart say is SingleCopy. *)
LEMMA PlacesSingle == TasksTyped /\ PlacesOnce /\ PlacesApart => SingleCopy
<1> SUFFICES ASSUME TasksTyped, PlacesOnce, PlacesApart PROVE SingleCopy
  OBVIOUS
<1>1. ASSUME NEW p \in DOMAIN HeldBy, NEW q \in DOMAIN HeldBy,
             NEW i \in DOMAIN HeldBy[p], NEW j \in DOMAIN HeldBy[q],
             HeldBy[p][i] = HeldBy[q][j], HeldBy[q][j] # Garbage
      PROVE  p = q /\ i = j
  <2>1. DOMAIN HeldBy = {"queue", "forwarder", "retrier"}
    BY DEF HeldBy
  <2>2. /\ HeldBy["queue"] = forwardQueue /\ HeldBy["forwarder"] = forwarding
        /\ HeldBy["retrier"] = retrying
    BY DEF HeldBy
  <2>3. HeldBy[p][i] \in QueueIds(HeldBy[p]) /\ HeldBy[q][j] \in QueueIds(HeldBy[q])
    BY DEF QueueIds
  <2>4. p = q
    BY <1>1, <2>1, <2>2, <2>3 DEF PlacesApart, Apart
  <2>5. Once(forwarding)
    <3>1. \A x, y \in DOMAIN forwarding : x = y
      BY DEF TasksTyped
    <3> QED BY <3>1 DEF Once
  <2>6. Once(HeldBy[p])
    BY <2>1, <2>2, <2>5 DEF PlacesOnce
  <2> QED BY <1>1, <2>4, <2>6 DEF Once
<1> QED BY <1>1 DEF SingleCopy, PlacesOnce, PlacesApart, Apart

(* No bundle is ever in two places or under two keys, over restarts too,   *)
(* although deleteOldest and getBundlesRetry read and erase in separate    *)
(* calls and only one of them has the mutex.                               *)
THEOREM NoCopiesInFlash == Spec => []SingleCopy
<1>1. CopiesInv /\ [Next]_vars => CopiesInv'
  BY CopiesNext
<1>2. CopiesInv => SingleCopy
  BY PlacesSingle DEF CopiesInv
<1> QED BY CopiesInit, <1>1, <1>2, PTL DEF Spec

-----------------------------------------------------------------------------
(* A retry cycle is complete as long as its counter can hold the keys that *)
(* are in use when it begins.                                              *)

KeysFitCounter == highestUsedKey - lowestUsedKey + 1 < UINT16_RANGE

CoverInv == KeysInv /\ TasksTyped /\ ReadBeforeErase /\ CycleCovers

LEMMA CoversNext ==
  ASSUME KeysFitCounter, CoverInv, [Next]_vars
  PROVE  CycleCovers'
<1> DEFINE Due(b, k) == k \in DOMAIN blobs /\ blobs[k] = b
                        /\ k < lowestUsedKey + bundlesToReturn
<1>1. KeysInv /\ ReadBeforeErase /\ \A b \in cycleRest : \E k : Due(b, k)
  BY DEF CoverInv, CycleCovers
<1>2. /\ lowestUsedKey \in Nat /\ highestUsedKey \in Nat /\ bundlesToReturn \in Nat
      /\ DOMAIN blobs \subseteq Nat
  BY <1>1 DEF KeysInv, KeyCount
<1>3. ASSUME \A b \in cycleRest' : \E k \in DOMAIN blobs' :
                 blobs'[k] = b /\ k < lowestUsedKey' + bundlesToReturn'
      PROVE  CycleCovers'
  BY <1>3 DEF CycleCovers
<1>4. ASSUME cycleRest' \subseteq cycleRest,
             UNCHANGED <<lowestUsedKey, bundlesToReturn>>,
             \A b \in cycleRest' : \A k : Due(b, k) => k \in DOMAIN blobs' /\ blobs'[k] = b
      PROVE  CycleCovers'
  BY <1>1, <1>3, <1>4
<1>5. ASSUME UNCHANGED <<cycleRest, blobs, lowestUsedKey, bundlesToReturn>>
      PROVE  CycleCovers'
  BY <1>4, <1>5
<1>6. ASSUME NEW b \in Bundles, Arrive(b) PROVE CycleCovers'
  BY <1>5, <1>6 DEF Arrive, flashVars, keyVars, historyVars
<1>7. CASE Forwarder
  <2>1. CASE TakeForForwarding \/ ForwardingSuccess \/ ForwardingDelayed
    BY <1>5, <2>1 DEF TakeForForwarding, ForwardingSuccess, ForwardingDelayed,
                      flashVars, keyVars, historyVars
  <2>2. CASE StartEviction \/ LookUpOldest \/ ReadOldest \/ AdvanceOldest
    BY <1>5, <2>2 DEF StartEviction, LookUpOldest, ReadOldest, AdvanceOldest,
                      flashVars, keyVars, historyVars
  <2>3. CASE StoreBundle
    <3>1. /\ SetBlob(highestUsedKey + 1, forwarding[1])
          /\ UNCHANGED <<cycleRest, lowestUsedKey, bundlesToReturn>>
      BY <2>3 DEF StoreBundle, Insert, historyVars
    <3>2. highestUsedKey + 1 \notin DOMAIN blobs
      BY <1>1, <1>2 DEF KeysInv, KeysReachable
    <3>3. \A k \in DOMAIN blobs : k \in DOMAIN blobs' /\ blobs'[k] = blobs[k]
      BY <3>1, <3>2 DEF SetBlob
    <3> QED BY <1>4, <3>1, <3>3
  <2>4. CASE EraseOldest
    <3>1. /\ EraseKey(oldestKey)
          /\ cycleRest' = cycleRest \ {GetBlob(oldestKey)}
          /\ UNCHANGED <<lowestUsedKey, bundlesToReturn>>
      BY <2>4 DEF EraseOldest, keyVars
    <3>2. ASSUME NEW b \in cycleRest', NEW k, Due(b, k)
          PROVE  k \in DOMAIN blobs' /\ blobs'[k] = b
      <4>1. k # oldestKey
        BY <3>1, <3>2 DEF GetBlob, HasBlob
      <4>2. /\ DOMAIN blobs' = DOMAIN blobs \ {oldestKey}
            /\ \A j \in DOMAIN blobs' : blobs'[j] = blobs[j]
        BY <3>1, StoredErase
      <4> QED BY <3>2, <4>1, <4>2
    <3> QED BY <1>4, <3>1, <3>2
  <2> QED BY <1>7, <2>1, <2>2, <2>3, <2>4 DEF Forwarder
<1>8. CASE Retrier
  <2>1. CASE StartCycle
    <3>1. /\ bundlesToReturn' = (highestUsedKey - lowestUsedKey + 1) % UINT16_RANGE
          /\ cycleRest' = Stored \ {Garbage}
          /\ UNCHANGED <<blobs, lowestUsedKey>>
      BY <2>1 DEF StartCycle, beginRetryCycle
    <3>2. highestUsedKey - lowestUsedKey + 1 \in Nat
      BY <1>1, <1>2 DEF KeysInv, KeyCount, CycleWithinKeys
    <3>3. bundlesToReturn' = highestUsedKey - lowestUsedKey + 1
      BY <3>1, <3>2 DEF KeysFitCounter, UINT16_RANGE
    <3>4. \A k \in DOMAIN blobs : k < lowestUsedKey' + bundlesToReturn'
      BY <1>1, <1>2, <3>1, <3>3 DEF KeysInv, KeysReachable
    <3> QED BY <1>3, <3>1, <3>4 DEF Stored
  <2>2. CASE StartBatch \/ EndCycle \/ LookUpLowest \/ ReadLowest
    BY <1>5, <2>2 DEF StartBatch, EndCycle, LookUpLowest, ReadLowest, flashVars, keyVars,
                      historyVars
  <2>3. CASE EraseLowest
    <3>1. /\ EraseKey(lowestUsedKey) /\ retrierAt = "erase"
          /\ cycleRest' = cycleRest \ {popped}
          /\ UNCHANGED <<lowestUsedKey, bundlesToReturn>>
      BY <2>3 DEF EraseLowest, keyVars
    <3>2. ASSUME NEW b \in cycleRest', NEW k, Due(b, k)
          PROVE  k \in DOMAIN blobs' /\ blobs'[k] = b
      <4>1. k # lowestUsedKey
        BY <1>1, <3>1, <3>2 DEF ReadBeforeErase
      <4>2. /\ DOMAIN blobs' = DOMAIN blobs \ {lowestUsedKey}
            /\ \A j \in DOMAIN blobs' : blobs'[j] = blobs[j]
        BY <3>1, StoredErase
      <4> QED BY <3>2, <4>1, <4>2
    <3> QED BY <1>4, <3>1, <3>2
  <2>4. CASE AdvanceInBatch
    <3>1. /\ lowestUsedKey' = lowestUsedKey + 1 /\ bundlesToReturn' = bundlesToReturn - 1
          /\ UNCHANGED <<blobs, cycleRest>>
      BY <2>4 DEF AdvanceInBatch, AdvanceLowest, historyVars
    <3>2. lowestUsedKey' + bundlesToReturn' = lowestUsedKey + bundlesToReturn
      BY <1>2, <3>1
    <3> QED BY <1>1, <1>3, <3>1, <3>2
  <2>5. CASE EndBatch \/ RetryBundle \/ DropExpired
    BY <1>5, <2>5 DEF EndBatch, RetryBundle, DropExpired, flashVars, keyVars, historyVars
  <2> QED BY <1>8, <2>1, <2>2, <2>3, <2>4, <2>5 DEF Retrier
<1>9. CASE Restart
  <2>1. cycleRest' = {}
    BY <1>9 DEF Restart
  <2> QED BY <1>3, <2>1
<1>10. CASE UNCHANGED vars
  BY <1>5, <1>10 DEF vars, flashVars, keyVars, historyVars
<1> QED BY <1>6, <1>7, <1>8, <1>9, <1>10 DEF Next

(* A retry cycle leaves out no bundle stored when it began and not evicted *)
(* since, as long as the keys between the lowest and the highest are fewer *)
(* than the 16-bit counter can count.  (Beyond that beginRetryCycle cuts   *)
(* their number, and the cycle ends early.)                                *)
THEOREM FlashCycleLeavesNoneOut ==
  Spec /\ []KeysFitCounter => []CycleCovers
<1>1. Init => CoverInv
  <2> SUFFICES ASSUME Init PROVE CoverInv
    OBVIOUS
  <2>1. CustodyInv
    BY CustodyInit
  <2>2. CycleCovers
    BY DEF Init, CycleCovers
  <2> QED BY <2>1, <2>2 DEF CustodyInv, CoverInv
<1>2. CoverInv /\ KeysFitCounter /\ [Next]_vars => CoverInv'
  BY KeysInvNext, TasksTypedNext, ReadBeforeEraseNext, CoversNext DEF CoverInv
<1>3. CoverInv => CycleCovers
  BY DEF CoverInv
<1> QED BY <1>1, <1>2, <1>3, PTL DEF Spec

=============================================================================
