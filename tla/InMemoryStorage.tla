-------------------------- MODULE InMemoryStorage --------------------------
(***************************************************************************)
(* The bundle side of the class InMemoryStorage: the list of delayed       *)
(* bundles, the counter of bundles still due in the running retry cycle    *)
(* and the set of bundle IDs seen before.                                  *)
(*                                                                         *)
(* The module holds the state and one operator per critical section of the *)
(* class (the code between taking and giving bundlesMutex): a critical     *)
(* section is atomic, what happens between two of them is not.  The tasks  *)
(* that call these operators are in BundleAgent.                           *)
(*                                                                         *)
(* Operators named Faulty... are the slips a maintainer could make in the  *)
(* operator that follows them; they replace it in mutation runs only.      *)
(***************************************************************************)
EXTENDS Integers, SequencesExt

CONSTANTS
  Bundles,    \* the bundle IDs (Bundle::getID) that occur
  Times,      \* the values Bundle::receivedAt takes
  MaxStored,  \* CONFIG_MaxStoredBundles
  BatchSize   \* CONFIG_RetryBatchSize

UINT16_MAX == 65535

(* bundlesToReturn is a uint16_t: a larger store would make it wrap. *)
ASSUME StorageAssumption ==
  /\ Times \subseteq Nat
  /\ MaxStored \in 1 .. UINT16_MAX
  /\ BatchSize \in Nat \ {0}

VARIABLES
  bundles,          \* std::list<BundleInfo> bundles
  bundlesToReturn,  \* uint16_t bundlesToReturn
  bundle_ids        \* std::set<std::string> bundle_ids

storageVars == <<bundles, bundlesToReturn, bundle_ids>>

(* What is kept of a BundleInfo: which bundle it is, and its time stamp. *)
Entry == [id : Bundles, receivedAt : Times]

(* The bundle IDs that occur in a sequence of entries. *)
Ids(s) == {s[i].id : i \in DOMAIN s}

StorageTypeOK ==
  /\ bundles \in Seq(Entry)
  /\ bundlesToReturn \in 0 .. UINT16_MAX
  /\ bundle_ids \subseteq Bundles

StorageInit ==
  /\ bundles = <<>>
  /\ bundlesToReturn = 0
  /\ bundle_ids = {}

-----------------------------------------------------------------------------
(* The seen set.                                                           *)

FaultyCheckSeen(b) == b \in Ids(bundles)

checkSeen(b) == b \in bundle_ids

FaultyStoreSeen(b) == UNCHANGED bundle_ids

storeSeen(b) == bundle_ids' = bundle_ids \cup {b}

-----------------------------------------------------------------------------
(* delayBundle, first critical section: is there room for one more?        *)

HasRoom == Len(bundles) < MaxStored

(* delayBundle, last critical section: the new bundle goes to the end. *)
FaultyInsert(e) == bundles' = <<e>> \o bundles

Insert(e) == bundles' = Append(bundles, e)

-----------------------------------------------------------------------------
(* deleteOldest: the first entry with the least receivedAt is removed.     *)

IsOldest(i) ==
  /\ i \in DOMAIN bundles
  /\ \A j \in DOMAIN bundles : bundles[i].receivedAt <= bundles[j].receivedAt
  /\ \A j \in DOMAIN bundles : j < i => bundles[i].receivedAt < bundles[j].receivedAt

RemoveEntry(i) == bundles' = RemoveAt(bundles, i)

-----------------------------------------------------------------------------
(* removeBundle: the first entry with the given ID is removed.  The answer *)
(* is left out: false whatever was found, and for applications only.       *)

IsFirstWithId(i, b) ==
  /\ i \in DOMAIN bundles
  /\ bundles[i].id = b
  /\ \A j \in DOMAIN bundles : bundles[j].id = b => i <= j

-----------------------------------------------------------------------------
(* The retry cycle: beginRetryCycle, hasBundlesToRetry, getBundlesRetry.   *)

FaultyBeginRetryCycle == bundlesToReturn' = (Len(bundles) - 1) % 65536

beginRetryCycle == bundlesToReturn' = Len(bundles)

FaultyHasBundlesToRetry == bundles # <<>>

hasBundlesToRetry == bundlesToReturn # 0

(* The number of front()/pop_front() pairs getBundlesRetry performs.  The *)
(* loop looks at bundlesToReturn alone, never at the list.                *)
BatchLength == IF bundlesToReturn < BatchSize THEN bundlesToReturn ELSE BatchSize

Batch == SubSeq(bundles, 1, BatchLength)

FaultyPopBatch ==
  /\ bundles' = SubSeq(bundles, BatchLength + 1, Len(bundles))
  /\ UNCHANGED bundlesToReturn

PopBatch ==
  /\ bundles' = SubSeq(bundles, BatchLength + 1, Len(bundles))
  /\ bundlesToReturn' = bundlesToReturn - BatchLength

=============================================================================
