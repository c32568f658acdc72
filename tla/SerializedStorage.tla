-------------------------- MODULE SerializedStorage --------------------------
(***************************************************************************)
(* The two storages that keep bundles serialized in memory,                *)
(* InMemoryStorageSerialized and InMemoryStorageSerializedIA.  They have   *)
(* no maximum number of bundles: delayBundle removes old ones until enough *)
(* heap is free, which other tasks use as well.                            *)
(*                                                                         *)
(* The variants differ in removeBundle: IA inherits it from                *)
(* InMemoryStorage, whose list of bundles it hides with its own, so that   *)
(* it searches a list that is always empty.                                *)
(***************************************************************************)
EXTENDS Integers, SequencesExt

CONSTANTS
  Bundles,     \* bundles by ID
  ReceivedAt,  \* ReceivedAt[b]: time stamp
  Size,        \* Size[b]: what b takes in the list; estimatedSize
  Serialized,  \* Serialized[b]: the buffer serialize() makes of b
  CopySize,    \* what a removed bundle takes while delayBundle returns it
  Heap,        \* the heap when nothing is stored
  TargetFree,  \* CONFIG_TargetFreeHeap
  MaxRemoved,  \* CONFIG_MaxRemovedBundles
  BatchSize,   \* CONFIG_RetryBatchSize
  MaxOther,    \* bound on the heap other tasks use
  MaxStores    \* bound on the calls of delayBundle

ASSUME SerializedAssumption ==
  /\ ReceivedAt \in [Bundles -> Nat] /\ Size \in [Bundles -> Nat \ {0}]
  /\ Serialized \in [Bundles -> Nat]
  /\ CopySize \in Nat /\ Heap \in Nat /\ TargetFree \in Nat /\ MaxRemoved \in Nat
  /\ BatchSize \in Nat \ {0} /\ MaxOther \in Nat /\ MaxStores \in Nat

VARIABLES
  variant,          \* "serialized" or "IA"
  bundles,          \* the list
  bundlesToReturn,
  forwarder,        \* delayBundle: where it is, its local variables
  other,            \* heap other tasks use
  stores,           \* calls of delayBundle so far
  fault,            \* the list that was empty when an element was taken
  added, gone,      \* history: bundles entered and removed in this cycle,
                    \* other than by getBundlesRetry
  call              \* history of this call of delayBundle: the number of
                    \* bundles at its begin, those other tasks took since,
                    \* those removed without need, those of them for which
                    \* the buffer was counted twice, and whether another
                    \* task changed the heap

cycle == <<added, gone>>
serializedVars == <<variant, bundles, bundlesToReturn, forwarder, other, stores, fault, cycle, call>>

Idle == [at |-> "idle", bundle |-> {}, free |-> 0, removed |-> 0]
NoCall == [stock |-> 0, taken |-> 0, needless |-> 0, doubled |-> 0, moved |-> FALSE]

Sum(s) == FoldLeft(LAMBDA n, b : n + Size[b], 0, s)

(* The local variable serialized of delayBundle, until it returns. *)
Buffer == IF forwarder.bundle = {} THEN 0
          ELSE Serialized[CHOOSE b \in forwarder.bundle : TRUE]

(* heap_caps_get_free_size *)
Used == Sum(bundles) + Buffer + CopySize * forwarder.removed + other
FreeHeap == IF Used < Heap THEN Heap - Used ELSE 0

SerializedTypeOK ==
  /\ variant \in {"serialized", "IA"}
  /\ bundles \in Seq(Bundles) /\ bundlesToReturn \in Nat
  /\ forwarder \in [at : {"idle", "test", "reread", "delete", "insert"},
                    bundle : SUBSET Bundles, free : Nat, removed : 0 .. MaxRemoved]
  /\ other \in 0 .. MaxOther /\ stores \in 0 .. MaxStores
  /\ fault \in {"none", "retry", "delete"}
  /\ added \in Nat /\ gone \in Nat
  /\ call \in [stock : Nat, taken : Nat, needless : Nat, doubled : Nat, moved : BOOLEAN]

SerializedInit ==
  /\ variant \in {"serialized", "IA"}
  /\ bundles = <<>> /\ bundlesToReturn = 0
  /\ forwarder = Idle
  /\ other \in 0 .. MaxOther
  /\ stores = 0 /\ fault = "none"
  /\ added = 0 /\ gone = 0 /\ call = NoCall

(* After undefined behaviour nothing is known of the node. *)
NoFault == fault = "none" /\ UNCHANGED fault

(* History: another task took n bundles. *)
Taken(n) == call' = IF forwarder.at = "idle" THEN call ELSE [call EXCEPT !.taken = @ + n]

-----------------------------------------------------------------------------
(* delayBundle: freeHeap is read, then the bundle is serialized, into a    *)
(* buffer that every later reading of the heap finds in use.               *)
delayBundle(b) ==
  /\ forwarder.at = "idle" /\ stores < MaxStores
  /\ b \notin ToSet(bundles)
  /\ stores' = stores + 1
  /\ forwarder' = [at |-> "test", bundle |-> {b}, free |-> FreeHeap, removed |-> 0]
  /\ call' = [NoCall EXCEPT !.stock = Len(bundles)]
  /\ UNCHANGED <<variant, bundles, bundlesToReturn, other, cycle>>
  /\ NoFault

Estimated == Sum(SetToSeq(forwarder.bundle))

(* freeHeap - estimatedSize <= CONFIG_TargetFreeHeap in size_t: with less  *)
(* free than the bundle needs the difference wraps and seems to be plenty. *)
Lean(free, size) == free >= size /\ free - size <= TargetFree

(* Whether a bundle is removed although there is room for the one to be    *)
(* stored. *)
Room(free) == free >= Estimated /\ ~Lean(free, Estimated)

(* Faulty: removes one bundle more than it may. *)
FaultyTestHeap ==
  /\ forwarder.at = "test"
  /\ forwarder' = [forwarder EXCEPT
       !.at = IF Lean(forwarder.free, Estimated) /\ forwarder.removed <= MaxRemoved
              THEN "reread" ELSE "insert"]
  /\ UNCHANGED <<variant, bundles, bundlesToReturn, other, stores, cycle, call>>
  /\ NoFault

(* At most CONFIG_MaxRemovedBundles are removed.                           *)
TestHeap ==
  /\ forwarder.at = "test"
  /\ forwarder' = [forwarder EXCEPT
       !.at = IF Lean(forwarder.free, Estimated) /\ forwarder.removed < MaxRemoved
              THEN "reread" ELSE "insert"]
  /\ UNCHANGED <<variant, bundles, bundlesToReturn, other, stores, cycle, call>>
  /\ NoFault

(* Faulty: freeHeap is not read in the loop. *)
FaultyReadHeap ==
  /\ forwarder.at = "reread"
  /\ forwarder' = [forwarder EXCEPT !.at = "delete"]
  /\ UNCHANGED <<variant, bundles, bundlesToReturn, other, stores, cycle, call>>
  /\ NoFault

(* The heap is read before the bundle is removed, so that the test that    *)
(* follows does not see what the removal freed.                            *)
ReadHeap ==
  /\ forwarder.at = "reread"
  /\ forwarder' = [forwarder EXCEPT !.at = "delete", !.free = FreeHeap]
  /\ UNCHANGED <<variant, bundles, bundlesToReturn, other, stores, cycle, call>>
  /\ NoFault

(* The first of the bundles that were received first. *)
IsOldest(i) ==
  /\ \A j \in DOMAIN bundles : ReceivedAt[bundles[i]] <= ReceivedAt[bundles[j]]
  /\ \A j \in 1 .. i - 1 : ReceivedAt[bundles[i]] < ReceivedAt[bundles[j]]

(* deleteOldest, all of it under the mutex; the list may have been empty.  *)
DeleteOldest ==
  /\ forwarder.at = "delete" /\ bundles # <<>>
  /\ \E i \in DOMAIN bundles : IsOldest(i) /\ bundles' = RemoveAt(bundles, i)
  /\ forwarder' = [forwarder EXCEPT !.at = "test", !.removed = @ + 1]
  /\ gone' = gone + 1
  /\ call' = [call EXCEPT
       !.needless = IF Room(FreeHeap + Buffer) THEN @ + 1 ELSE @,
       !.doubled = IF Room(FreeHeap + Buffer) /\ ~Room(FreeHeap) THEN @ + 1 ELSE @]
  /\ UNCHANGED <<variant, bundlesToReturn, other, stores, added>>
  /\ NoFault

DeleteFromEmpty ==
  /\ forwarder.at = "delete" /\ bundles = <<>>
  /\ fault = "none" /\ fault' = "delete"
  /\ UNCHANGED <<variant, bundles, bundlesToReturn, forwarder, other, stores, cycle, call>>

(* The bundle is stored, whether or not there is room now. *)
Insert ==
  /\ forwarder.at = "insert"
  /\ \E b \in forwarder.bundle : bundles' = Append(bundles, b)
  /\ forwarder' = Idle /\ call' = NoCall
  /\ added' = added + 1
  /\ UNCHANGED <<variant, bundlesToReturn, other, stores, gone>>
  /\ NoFault

-----------------------------------------------------------------------------
(* The retry task and the application                                      *)

beginRetryCycle ==
  /\ bundlesToReturn = 0
  /\ bundlesToReturn' = Len(bundles)
  /\ added' = 0 /\ gone' = 0
  /\ UNCHANGED <<variant, bundles, forwarder, other, stores, call>>
  /\ NoFault

BatchLength == IF bundlesToReturn < BatchSize THEN bundlesToReturn ELSE BatchSize

(* Faulty: counts a batch, not a bundle. *)
FaultyGetBundlesRetry ==
  /\ bundlesToReturn # 0 /\ BatchLength <= Len(bundles)
  /\ bundles' = SubSeq(bundles, BatchLength + 1, Len(bundles))
  /\ bundlesToReturn' = bundlesToReturn - 1
  /\ Taken(BatchLength)
  /\ UNCHANGED <<variant, forwarder, other, stores, cycle>>
  /\ NoFault

(* A batch from the front of the list ...                                  *)
getBundlesRetry ==
  /\ bundlesToReturn # 0 /\ BatchLength <= Len(bundles)
  /\ bundles' = SubSeq(bundles, BatchLength + 1, Len(bundles))
  /\ bundlesToReturn' = bundlesToReturn - BatchLength
  /\ Taken(BatchLength)
  /\ UNCHANGED <<variant, forwarder, other, stores, cycle>>
  /\ NoFault

(* ... without a look at its length.                                       *)
RetryFromEmpty ==
  /\ bundlesToReturn # 0 /\ BatchLength > Len(bundles)
  /\ fault = "none" /\ fault' = "retry"
  /\ UNCHANGED <<variant, bundles, bundlesToReturn, forwarder, other, stores, cycle, call>>

(* cancelTransmission of an application *)
removeBundle(b) ==
  /\ variant = "serialized"
  /\ \E i \in DOMAIN bundles : bundles[i] = b /\ bundles' = RemoveAt(bundles, i)
  /\ gone' = gone + 1
  /\ Taken(1)
  /\ UNCHANGED <<variant, bundlesToReturn, forwarder, other, stores, added>>
  /\ NoFault

OthersUseHeap ==
  /\ other' \in (0 .. MaxOther) \ {other}
  /\ call' = [call EXCEPT !.moved = (forwarder.at # "idle")]
  /\ UNCHANGED <<variant, bundles, bundlesToReturn, forwarder, stores, cycle>>
  /\ NoFault

SerializedNext ==
  \/ \E b \in Bundles : delayBundle(b) \/ removeBundle(b)
  \/ TestHeap
  \/ ReadHeap
  \/ DeleteOldest
  \/ DeleteFromEmpty
  \/ Insert
  \/ beginRetryCycle
  \/ getBundlesRetry
  \/ RetryFromEmpty
  \/ OthersUseHeap

SerializedSpec == SerializedInit /\ [][SerializedNext]_serializedVars

-----------------------------------------------------------------------------
(* What delayBundle deletes without need.  freeHeap is one removal old     *)
(* whenever it is tested; as long as no other task uses or frees memory    *)
(* meanwhile that costs one bundle.  From the second test on it lacks the  *)
(* buffer too, which estimatedSize takes off once more: every bundle more  *)
(* was deleted because there was no room for the new bundle and a second   *)
(* copy of it.                                                             *)
OneTooMany == ~call.moved /\ call.taken = 0 => call.needless <= 1 + call.doubled

(* The retry cycle counts bundles, not the bundles it began with: what     *)
(* bundlesToReturn lacks or exceeds the list by is what was stored and     *)
(* what was deleted or cancelled since.  Hence front() of an empty list is *)
(* taken only if more was deleted than stored, and, in the IA variant,     *)
(* never because of a cancelled bundle.                                    *)
CycleDebt ==
  /\ bundlesToReturn # 0 => Len(bundles) - bundlesToReturn = added - gone
  /\ fault = "retry" => gone > added

(* deleteOldest reads the first element of an empty list only if less than *)
(* CONFIG_MaxRemovedBundles bundles were stored when delayBundle began,    *)
(* not counting those the other tasks took meanwhile.                      *)
EmptyNeedsFew == fault = "delete" => call.stock - call.taken < MaxRemoved
=============================================================================
