---------------------------- MODULE FlashStorage ----------------------------
(***************************************************************************)
(* The bundle side of the class FlashStorage: serialized bundles as blobs  *)
(* of the NVS flash under ascending integer keys, and the three keys and   *)
(* the counter the class finds them by.                                    *)
(*                                                                         *)
(* The operators are what one NVS call or one group of assignments does;   *)
(* which of them are under bundlesMutex is FlashAgent's matter.            *)
(* All bundles take the same number of NVS entries: space is counted in    *)
(* bundles.  oldestReceivedTime is left out: it starts as 0, and only a    *)
(* time below it, of which there is none, would change it.                 *)
(***************************************************************************)
EXTENDS Integers, FiniteSets

CONSTANTS
  Bundles,   \* the bundles that occur, positive integers
  FlashCap,  \* how many bundles fit into the NVS partition
  BatchSize  \* CONFIG_RetryBatchSize

(* bundlesToReturn is a uint16_t. *)
UINT16_RANGE == 65536

ASSUME FlashAssumption ==
  /\ Bundles \subseteq Nat \ {0}
  /\ FlashCap \in Nat \ {0}
  /\ BatchSize \in Nat \ {0}

VARIABLES
  blobs,           \* the NVS contents: a function from keys to bundles
  highestUsedKey,  \* uint32_t highestUsedKey
  lowestUsedKey,   \* uint32_t lowestUsedKey
  oldestKey,       \* uint32_t oldestKey
  bundlesToReturn  \* uint16_t bundlesToReturn

keyVars == <<highestUsedKey, lowestUsedKey, oldestKey, bundlesToReturn>>
flashVars == <<blobs, keyVars>>

(* What reading a key that does not exist leaves in the buffer: a BundleInfo *)
(* made from it is no bundle, but it is forwarded and stored like one.       *)
Garbage == 0

Stored == {blobs[k] : k \in DOMAIN blobs}

FlashTypeOK ==
  /\ \A k \in DOMAIN blobs : k \in Nat /\ blobs[k] \in Bundles \cup {Garbage}
  /\ highestUsedKey \in Nat
  /\ lowestUsedKey \in Nat
  /\ oldestKey \in Nat
  /\ bundlesToReturn \in 0 .. UINT16_RANGE - 1

NoBlobs == [k \in {} |-> Garbage]

(* The constructor, on an erased flash. *)
FlashInit ==
  /\ blobs = NoBlobs
  /\ highestUsedKey = 0
  /\ lowestUsedKey = 0
  /\ oldestKey = 0
  /\ bundlesToReturn = 0

-----------------------------------------------------------------------------
(* NVS calls.                                                              *)

HasBlob(k) == k \in DOMAIN blobs

GetBlob(k) == IF HasBlob(k) THEN blobs[k] ELSE Garbage

SetBlob(k, b) ==
  blobs' = [j \in DOMAIN blobs \cup {k} |-> IF j = k THEN b ELSE blobs[j]]

EraseKey(k) == blobs' = [j \in DOMAIN blobs \ {k} |-> blobs[j]]

-----------------------------------------------------------------------------
(* delayBundle: the check for space, and the write under a new key.        *)

HasSpace == Cardinality(DOMAIN blobs) < FlashCap

FaultyInsert(b) ==
  /\ SetBlob(highestUsedKey, b)
  /\ highestUsedKey' = highestUsedKey + 1
  /\ UNCHANGED <<lowestUsedKey, oldestKey, bundlesToReturn>>

Insert(b) ==
  /\ highestUsedKey' = highestUsedKey + 1
  /\ SetBlob(highestUsedKey + 1, b)
  /\ UNCHANGED <<lowestUsedKey, oldestKey, bundlesToReturn>>

-----------------------------------------------------------------------------
(* deleteOldest: where to look for the oldest bundle next time.  Within a  *)
(* retry cycle it is guessed to be the first one stored since the cycle    *)
(* began.                                                                  *)

NextOldestKey ==
  IF /\ bundlesToReturn # 0
     /\ lowestUsedKey # oldestKey
     /\ lowestUsedKey + bundlesToReturn < highestUsedKey
  THEN lowestUsedKey + bundlesToReturn
  ELSE oldestKey + 1

-----------------------------------------------------------------------------
(* The retry cycle.  Keys of bundles evicted since are counted too, and    *)
(* before the first one so is key 0, which is never used.                  *)

FaultyBeginRetryCycle ==
  /\ bundlesToReturn' = (highestUsedKey - lowestUsedKey) % UINT16_RANGE
  /\ UNCHANGED <<blobs, highestUsedKey, lowestUsedKey, oldestKey>>

beginRetryCycle ==
  /\ bundlesToReturn' = (highestUsedKey - lowestUsedKey + 1) % UINT16_RANGE
  /\ UNCHANGED <<blobs, highestUsedKey, lowestUsedKey, oldestKey>>

hasBundlesToRetry == bundlesToReturn # 0

FaultyAdvanceLowest ==
  /\ oldestKey' = IF lowestUsedKey = oldestKey THEN oldestKey + 1 ELSE oldestKey
  /\ lowestUsedKey' = lowestUsedKey + 1
  /\ UNCHANGED <<blobs, highestUsedKey, bundlesToReturn>>

(* getBundlesRetry, after each key it has looked at. *)
AdvanceLowest ==
  /\ oldestKey' = IF lowestUsedKey = oldestKey THEN oldestKey + 1 ELSE oldestKey
  /\ lowestUsedKey' = lowestUsedKey + 1
  /\ bundlesToReturn' = bundlesToReturn - 1
  /\ UNCHANGED <<blobs, highestUsedKey>>

=============================================================================
