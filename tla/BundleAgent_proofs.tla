------------------------- MODULE BundleAgent_proofs -------------------------
(***************************************************************************)
(* Proofs about BundleAgent, for every set of bundles and every size of    *)
(* the queues, the batch and the store.                                    *)
(***************************************************************************)
EXTENDS BundleAgent, SequenceTheorems, TLAPS

-----------------------------------------------------------------------------
(* Lists of entries: how push_back, pop_front, erase and the batches of    *)
(* getBundlesRetry change the bundle IDs in a list.                        *)

(* No bundle ID occurs twice in a sequence of entries. *)
Distinct(s) == \A i, j \in DOMAIN s : s[i].id = s[j].id => i = j

-----------------------------------------------------------------------------
(* Lemmas: what the list operations of the code do to the bundle IDs.      *)

LEMMA EntryFields ==
  /\ \A e \in Entry : e.id \in Bundles /\ e.receivedAt \in Times
  /\ \A b \in Bundles, t \in Times : [id |-> b, receivedAt |-> t] \in Entry
  BY DEF Entry

LEMMA IdsEmpty ==
  /\ Ids(<<>>) = {}
  /\ Distinct(<<>>)
  BY DEF Ids, Distinct

LEMMA IdsOne ==
  ASSUME NEW e \in Entry
  PROVE  /\ Ids(<<e>>) = {e.id}
         /\ Distinct(<<e>>)
         /\ <<e>>[1] = e
         /\ <<e>> \in Seq(Entry)
         /\ Len(<<e>>) = 1
  BY DEF Ids, Distinct

LEMMA IdsSingle ==
  ASSUME NEW s \in Seq(Entry), Len(s) = 1
  PROVE  /\ Ids(s) = {s[1].id}
         /\ s[1] \in Entry
         /\ Distinct(s)
  BY DEF Ids, Distinct

LEMMA IdsMember ==
  ASSUME NEW s \in Seq(Entry)
  PROVE  /\ DOMAIN s = 1 .. Len(s)
         /\ Len(s) \in Nat
         /\ \A i \in 1 .. Len(s) : s[i] \in Entry
         /\ \A b : b \in Ids(s) <=> \E i \in 1 .. Len(s) : s[i].id = b
         /\ Ids(s) \subseteq Bundles
  BY EntryFields DEF Ids

LEMMA IdsAppend ==
  ASSUME NEW s \in Seq(Entry), NEW e \in Entry
  PROVE  /\ Append(s, e) \in Seq(Entry)
         /\ Len(Append(s, e)) = Len(s) + 1
         /\ Ids(Append(s, e)) = Ids(s) \cup {e.id}
         /\ Distinct(s) /\ e.id \notin Ids(s) => Distinct(Append(s, e))
<1> DEFINE t == Append(s, e)
<1>1. /\ t \in Seq(Entry) /\ Len(t) = Len(s) + 1
      /\ \A i \in 1 .. Len(s) : t[i] = s[i]
      /\ t[Len(s) + 1] = e
  BY AppendProperties
<1>2. /\ DOMAIN s = 1 .. Len(s) /\ DOMAIN t = 1 .. Len(t)
      /\ Len(s) \in Nat
  BY <1>1, IdsMember
<1> HIDE DEF t
<1>3. Ids(t) = Ids(s) \cup {e.id}
  <2>1. ASSUME NEW b \in Ids(t) PROVE b \in Ids(s) \cup {e.id}
    <3>1. PICK i \in 1 .. Len(t) : t[i].id = b
      BY <1>1, IdsMember
    <3>2. CASE i \in 1 .. Len(s)
      BY <3>1, <3>2, <1>1, IdsMember
    <3>3. CASE i = Len(s) + 1
      BY <3>1, <3>3, <1>1
    <3> QED BY <3>2, <3>3, <1>1, <1>2
  <2>2. ASSUME NEW b \in Ids(s) PROVE b \in Ids(t)
    <3>1. PICK i \in 1 .. Len(s) : s[i].id = b
      BY IdsMember
    <3>2. i \in 1 .. Len(t) /\ t[i].id = b
      BY <3>1, <1>1, <1>2
    <3> QED BY <3>2, <1>1, IdsMember
  <2>3. e.id \in Ids(t)
    <3>1. Len(s) + 1 \in 1 .. Len(t) /\ t[Len(s) + 1].id = e.id
      BY <1>1, <1>2
    <3> QED BY <3>1, <1>1, IdsMember
  <2> QED BY <2>1, <2>2, <2>3
<1>4. ASSUME Distinct(s), e.id \notin Ids(s) PROVE Distinct(t)
  <2>1. SUFFICES ASSUME NEW i \in 1 .. Len(t), NEW j \in 1 .. Len(t),
                        t[i].id = t[j].id
                 PROVE  i = j
    BY <1>2 DEF Distinct
  <2>2. \A k \in 1 .. Len(s) : t[k].id # e.id
    BY <1>1, <1>4, IdsMember
  <2>3. \A k \in 1 .. Len(t) : k \in 1 .. Len(s) \/ k = Len(s) + 1
    BY <1>1, <1>2
  <2>4. CASE i \in 1 .. Len(s) /\ j \in 1 .. Len(s)
    BY <2>1, <2>4, <1>1, <1>2, <1>4 DEF Distinct
  <2> QED BY <2>1, <2>2, <2>3, <2>4, <1>1
<1> QED BY <1>1, <1>3, <1>4 DEF t

(* Two pieces of a sequence: [1..n] of s, and what follows. *)
LEMMA IdsSplit ==
  ASSUME NEW s \in Seq(Entry), NEW n \in 0 .. Len(s)
  PROVE  LET a == SubSeq(s, 1, n)
             z == SubSeq(s, n + 1, Len(s))
         IN  /\ a \in Seq(Entry) /\ Len(a) = n
             /\ z \in Seq(Entry) /\ Len(z) = Len(s) - n
             /\ \A i \in 1 .. n : a[i] = s[i]
             /\ \A i \in 1 .. Len(s) - n : z[i] = s[i + n]
             /\ Ids(s) = Ids(a) \cup Ids(z)
             /\ Distinct(s) => /\ Distinct(a) /\ Distinct(z)
                               /\ Ids(a) \cap Ids(z) = {}
<1> DEFINE a == SubSeq(s, 1, n)
           z == SubSeq(s, n + 1, Len(s))
<1>0. /\ Len(s) \in Nat /\ n \in Nat /\ n <= Len(s)
      /\ DOMAIN s = 1 .. Len(s)
      /\ \A i \in 1 .. Len(s) : s[i] \in Entry
  BY IdsMember
<1>1. /\ a \in Seq(Entry) /\ Len(a) = n
      /\ \A i \in 1 .. n : a[i] = s[i]
  BY <1>0, SubSeqProperties
<1>2. /\ z \in Seq(Entry) /\ Len(z) = Len(s) - n
      /\ \A i \in 1 .. Len(s) - n : z[i] = s[i + n]
  <2>1. \A i \in n + 1 .. Len(s) : s[i] \in Entry
    BY <1>0
  <2>2. /\ z \in Seq(Entry)
        /\ Len(z) = IF n + 1 <= Len(s) THEN Len(s) - (n + 1) + 1 ELSE 0
        /\ \A i \in 1 .. Len(s) - (n + 1) + 1 : z[i] = s[n + 1 + i - 1]
    BY <1>0, <2>1, SubSeqProperties
  <2> HIDE DEF z
  <2>3. Len(z) = Len(s) - n
    <3>1. Len(z) = IF n + 1 <= Len(s) THEN Len(s) - (n + 1) + 1 ELSE 0
      BY <2>2
    <3>2. Len(s) \in Nat /\ n \in Nat /\ n <= Len(s)
      BY <1>0
    <3> QED BY <3>1, <3>2
  <2>4. ASSUME NEW i \in 1 .. Len(s) - n PROVE z[i] = s[i + n]
    <3>1. i \in 1 .. Len(s) - (n + 1) + 1 /\ n + 1 + i - 1 = i + n
      BY <1>0
    <3> QED BY <3>1, <2>2
  <2> QED BY <2>2, <2>3, <2>4
<1>4. DOMAIN a = 1 .. n /\ DOMAIN z = 1 .. Len(s) - n
  BY <1>1, <1>2, IdsMember
<1> HIDE DEF a, z
<1>5. Ids(s) = Ids(a) \cup Ids(z)
  <2>1. ASSUME NEW b \in Ids(s) PROVE b \in Ids(a) \cup Ids(z)
    <3>1. PICK i \in 1 .. Len(s) : s[i].id = b
      BY IdsMember
    <3>2. CASE i <= n
      <4>1. i \in 1 .. Len(a) /\ a[i].id = b
        BY <3>1, <3>2, <1>0, <1>1
      <4> QED BY <4>1, <1>1, IdsMember
    <3>3. CASE i > n
      <4>1. i - n \in 1 .. Len(z) /\ z[i - n].id = b
        BY <3>1, <3>3, <1>0, <1>2
      <4> QED BY <4>1, <1>2, IdsMember
    <3> QED BY <3>2, <3>3, <1>0
  <2>2. ASSUME NEW b \in Ids(a) PROVE b \in Ids(s)
    <3>1. PICK i \in 1 .. Len(a) : a[i].id = b
      BY <1>1, IdsMember
    <3>2. i \in 1 .. Len(s) /\ s[i].id = b
      BY <3>1, <1>0, <1>1
    <3> QED BY <3>2, IdsMember
  <2>3. ASSUME NEW b \in Ids(z) PROVE b \in Ids(s)
    <3>1. PICK i \in 1 .. Len(z) : z[i].id = b
      BY <1>2, IdsMember
    <3>2. i + n \in 1 .. Len(s) /\ s[i + n].id = b
      BY <3>1, <1>0, <1>2
    <3> QED BY <3>2, IdsMember
  <2> QED BY <2>1, <2>2, <2>3
<1>6. ASSUME Distinct(s) PROVE Distinct(a) /\ Distinct(z) /\ Ids(a) \cap Ids(z) = {}
  <2>1. Distinct(a)
    BY <1>6, <1>0, <1>1, <1>4 DEF Distinct
  <2>2. Distinct(z)
    <3>1. SUFFICES ASSUME NEW i \in 1 .. Len(s) - n, NEW j \in 1 .. Len(s) - n,
                          z[i].id = z[j].id
                   PROVE  i = j
      BY <1>4 DEF Distinct
    <3>2. i + n \in 1 .. Len(s) /\ j + n \in 1 .. Len(s)
      BY <1>0
    <3>3. s[i + n].id = s[j + n].id
      BY <3>1, <1>2
    <3>4. i + n = j + n
      BY <3>2, <3>3, <1>0, <1>6 DEF Distinct
    <3> QED BY <3>4, <1>0
  <2>3. ASSUME NEW b, b \in Ids(a), b \in Ids(z) PROVE FALSE
    <3>1. PICK i \in 1 .. Len(a) : a[i].id = b
      BY <2>3, <1>1, IdsMember
    <3>2. PICK j \in 1 .. Len(z) : z[j].id = b
      BY <2>3, <1>2, IdsMember
    <3>3. /\ i \in 1 .. Len(s) /\ s[i].id = b
          /\ j + n \in 1 .. Len(s) /\ s[j + n].id = b
          /\ i # j + n
      BY <3>1, <3>2, <1>0, <1>1, <1>2
    <3> QED BY <3>3, <1>0, <1>6 DEF Distinct
  <2> QED BY <2>1, <2>2, <2>3
<1> QED BY <1>1, <1>2, <1>5, <1>6 DEF a, z

LEMMA IdsHeadTail ==
  ASSUME NEW s \in Seq(Entry), s # <<>>
  PROVE  /\ Tail(s) \in Seq(Entry)
         /\ Head(s) \in Entry
         /\ Len(s) \in Nat \ {0}
         /\ Len(Tail(s)) = Len(s) - 1
         /\ Ids(s) = {Head(s).id} \cup Ids(Tail(s))
         /\ Distinct(s) => Distinct(Tail(s)) /\ Head(s).id \notin Ids(Tail(s))
<1> DEFINE a == SubSeq(s, 1, 1)
           z == SubSeq(s, 1 + 1, Len(s))
<1>1. /\ Tail(s) \in Seq(Entry)
      /\ Head(s) \in Entry
      /\ Len(Tail(s)) = Len(s) - 1
      /\ Head(s) = s[1]
      /\ Len(s) \in Nat \ {0}
  BY HeadTailProperties, EmptySeq
<1>2. Tail(s) = z
  BY TailIsSubSeq
<1>3. 1 \in 0 .. Len(s)
  BY <1>1
<1>4. /\ a \in Seq(Entry) /\ Len(a) = 1 /\ a[1] = s[1]
      /\ Ids(s) = Ids(a) \cup Ids(z)
      /\ Distinct(s) => Distinct(z) /\ Ids(a) \cap Ids(z) = {}
  BY <1>3, IdsSplit
<1> HIDE DEF a, z
<1>5. Ids(a) = {Head(s).id}
  BY <1>1, <1>4, IdsSingle
<1> QED BY <1>1, <1>2, <1>4, <1>5

(* The place of an entry after the one at i is removed. *)
LEMMA RemoveAtPlaces ==
  ASSUME NEW s \in Seq(Entry), NEW i \in 1 .. Len(s)
  PROVE  LET t == RemoveAt(s, i)
         IN  /\ t \in Seq(Entry)
             /\ Len(t) = Len(s) - 1
             /\ \A j \in 1 .. Len(s) - 1 : t[j] = IF j < i THEN s[j] ELSE s[j + 1]
<1> DEFINE a == SubSeq(s, 1, i - 1)
           z == SubSeq(s, i + 1, Len(s))
           t == RemoveAt(s, i)
<1>0. Len(s) \in Nat /\ i \in Nat /\ 1 <= i /\ i <= Len(s)
  BY IdsMember
<1>1. \A j \in 1 .. Len(s) : s[j] \in Entry
  BY IdsMember
<1>2. /\ a \in Seq(Entry) /\ Len(a) = i - 1
      /\ \A j \in 1 .. i - 1 : a[j] = s[j]
  BY <1>0, <1>1, SubSeqProperties
<1>3. /\ z \in Seq(Entry)
      /\ Len(z) = Len(s) - i
      /\ \A j \in 1 .. Len(s) - i : z[j] = s[j + i]
  <2>1. \A j \in (i + 1) .. Len(s) : s[j] \in Entry
    BY <1>0, <1>1
  <2>2. /\ z \in Seq(Entry)
        /\ Len(z)
             = IF i + 1 <= Len(s) THEN Len(s) - (i + 1) + 1 ELSE 0
        /\ \A j \in 1 .. Len(s) - (i + 1) + 1 :
             z[j] = s[i + 1 + j - 1]
    BY <1>0, <2>1, SubSeqProperties
  <2> HIDE DEF z
  <2> QED BY <1>0, <2>2
<1>4. t = a \o z
  BY DEF RemoveAt
<1> HIDE DEF a, z, t
<1>5. /\ t \in Seq(Entry)
      /\ Len(t) = Len(a) + Len(z)
      /\ \A j \in 1 .. Len(a) + Len(z) :
           t[j] = IF j <= Len(a) THEN a[j] ELSE z[j - Len(a)]
  BY <1>2, <1>3, <1>4, ConcatProperties
<1>6. ASSUME NEW j \in 1 .. Len(s) - 1
      PROVE  t[j] = IF j < i THEN s[j] ELSE s[j + 1]
  <2>1. CASE j < i
    BY <2>1, <1>0, <1>2, <1>5, SMTT(20)
  <2>2. CASE j >= i
    <3>1. /\ j - (i - 1) \in 1 .. Len(s) - i /\ (j - (i - 1)) + i = j + 1
          /\ j \in 1 .. Len(a) + Len(z) /\ ~(j <= Len(a)) /\ ~(j < i)
      BY <2>2, <1>0, <1>2, <1>3
    <3>2. t[j] = z[j - (i - 1)]
      BY <3>1, <1>2, <1>5
    <3>3. z[j - (i - 1)] = s[(j - (i - 1)) + i]
      BY <3>1, <1>3
    <3> QED BY <3>1, <3>2, <3>3
  <2> QED BY <2>1, <2>2, <1>0
<1>7. Len(t) = Len(s) - 1
  BY <1>0, <1>2, <1>3, <1>5
<1> QED BY <1>5, <1>6, <1>7 DEF t

LEMMA IdsRemoveAt ==
  ASSUME NEW s \in Seq(Entry), NEW i \in DOMAIN s
  PROVE  /\ RemoveAt(s, i) \in Seq(Entry)
         /\ Len(RemoveAt(s, i)) = Len(s) - 1
         /\ Distinct(s) => /\ Ids(RemoveAt(s, i)) = Ids(s) \ {s[i].id}
                           /\ Distinct(RemoveAt(s, i))
<1> DEFINE t == RemoveAt(s, i)
<1>0. /\ Len(s) \in Nat /\ i \in 1 .. Len(s) /\ i \in Nat
      /\ DOMAIN s = 1 .. Len(s)
  BY IdsMember
<1>1. /\ t \in Seq(Entry) /\ Len(t) = Len(s) - 1
      /\ \A j \in 1 .. Len(s) - 1 : t[j] = IF j < i THEN s[j] ELSE s[j + 1]
  BY <1>0, RemoveAtPlaces
<1> HIDE DEF t
<1>2. DOMAIN t = 1 .. Len(s) - 1
  BY <1>1, IdsMember
<1>3. ASSUME Distinct(s) PROVE Distinct(t) /\ Ids(t) = Ids(s) \ {s[i].id}
  <2>1. Distinct(t)
    <3>1. SUFFICES ASSUME NEW j \in 1 .. Len(s) - 1, NEW k \in 1 .. Len(s) - 1,
                          t[j].id = t[k].id
                   PROVE  j = k
      BY <1>2 DEF Distinct
    <3> DEFINE old(m) == IF m < i THEN m ELSE m + 1
    <3>2. /\ old(j) \in 1 .. Len(s) /\ old(k) \in 1 .. Len(s)
          /\ t[j] = s[old(j)] /\ t[k] = s[old(k)]
      BY <1>0, <1>1
    <3>3. old(j) = old(k)
      BY <3>1, <3>2, <1>0, <1>3 DEF Distinct
    <3> QED BY <3>3, <1>0
  <2>2. ASSUME NEW b \in Ids(t) PROVE b \in Ids(s) /\ b # s[i].id
    <3>1. PICK j \in 1 .. Len(t) : t[j].id = b
      BY <1>1, IdsMember
    <3> DEFINE k == IF j < i THEN j ELSE j + 1
    <3>2. k \in 1 .. Len(s) /\ k # i /\ s[k].id = b
      BY <3>1, <1>0, <1>1
    <3> HIDE DEF k
    <3> QED BY <3>2, <1>0, <1>3, IdsMember DEF Distinct
  <2>3. ASSUME NEW b \in Ids(s), b # s[i].id PROVE b \in Ids(t)
    <3>1. PICK k \in 1 .. Len(s) : s[k].id = b
      BY IdsMember
    <3> DEFINE j == IF k < i THEN k ELSE k - 1
    <3>2. k # i
      BY <3>1, <2>3
    <3>3. j \in 1 .. Len(t) /\ t[j] = s[k]
      BY <3>2, <1>0, <1>1
    <3> HIDE DEF j
    <3> QED BY <3>1, <3>3, <1>1, IdsMember
  <2> QED BY <2>1, <2>2, <2>3
<1> QED BY <1>1, <1>3 DEF t

(* A list with a bound on its length keeps within it when it gets shorter. *)
LEMMA ShorterFits ==
  ASSUME NEW s \in Seq(Entry), NEW n \in Nat, Len(s) <= n
  PROVE  /\ s # <<>> => Tail(s) \in Seq(Entry) /\ Len(Tail(s)) <= n
         /\ \A i \in DOMAIN s : RemoveAt(s, i) \in Seq(Entry) /\ Len(RemoveAt(s, i)) < n
         /\ \A m \in 0 .. Len(s) :
              /\ SubSeq(s, m + 1, Len(s)) \in Seq(Entry)
              /\ Len(SubSeq(s, m + 1, Len(s))) <= n - m
<1>0. Len(s) \in Nat
  BY IdsMember
<1>1. s # <<>> => Tail(s) \in Seq(Entry) /\ Len(Tail(s)) <= n
  BY <1>0, IdsHeadTail
<1>2. ASSUME NEW i \in DOMAIN s
      PROVE  RemoveAt(s, i) \in Seq(Entry) /\ Len(RemoveAt(s, i)) < n
  <2>1. RemoveAt(s, i) \in Seq(Entry) /\ Len(RemoveAt(s, i)) = Len(s) - 1
    BY IdsRemoveAt
  <2> QED BY <2>1, <1>0
<1>3. ASSUME NEW m \in 0 .. Len(s)
      PROVE  /\ SubSeq(s, m + 1, Len(s)) \in Seq(Entry)
             /\ Len(SubSeq(s, m + 1, Len(s))) <= n - m
  <2>1. /\ SubSeq(s, m + 1, Len(s)) \in Seq(Entry)
        /\ Len(SubSeq(s, m + 1, Len(s))) = Len(s) - m
    BY IdsSplit
  <2> QED BY <2>1, <1>0
<1> QED BY <1>1, <1>2, <1>3

-----------------------------------------------------------------------------
(* The agent.                                                              *)

(* While the forwarder is between deleteOldest and the insertion, only it  *)
(* adds to the store: the room it made is still there.                     *)
RoomForInsert == forwarderAt = "insert" => Len(bundles) < MaxStored

TypeInv == TypeOK /\ StorageBounded /\ RoomForInsert

LEMMA Sizes ==
  /\ UINT16_MAX \in Nat
  /\ MaxStored \in Nat /\ 0 < MaxStored /\ MaxStored <= UINT16_MAX
  /\ BatchSize \in Nat /\ 0 < BatchSize
  /\ RecvCap \in Nat /\ 0 < RecvCap
  /\ FwdCap \in Nat /\ 0 < FwdCap
  /\ MaxArrivals \in Nat
<1>1. UINT16_MAX \in Nat
  BY DEF UINT16_MAX
<1> QED BY <1>1, StorageAssumption, AgentAssumption DEF StorageAssumption, AgentAssumption

LEMMA BundleSets ==
  /\ Local \subseteq Bundles /\ Expiring \subseteq Bundles /\ Cancellable \subseteq Bundles
  /\ DOMAIN Reply \subseteq Local
  /\ \A b \in DOMAIN Reply : Reply[b] \in Bundles
  BY AgentAssumption DEF AgentAssumption

-----------------------------------------------------------------------------
(* Type correctness, and the bound on the store.                           *)

LEMMA TypeInit == Init => TypeInv
  BY Sizes, EmptySeq
     DEF Init, StorageInit, TypeInv, TypeOK, StorageTypeOK, QueueTypeOK, ReceiverTypeOK,
         ForwarderTypeOK, RetrierTypeOK, HistoryTypeOK, StorageBounded, RoomForInsert,
         Outcomes, Faults

(* A part of the invariant whose variables do not change still holds. *)
LEMMA TypeFrame ==
  /\ StorageTypeOK /\ UNCHANGED storageVars => StorageTypeOK'
  /\ QueueTypeOK /\ UNCHANGED <<arrivals, receiveQueue, forwardQueue>> => QueueTypeOK'
  /\ ReceiverTypeOK /\ UNCHANGED receiverVars => ReceiverTypeOK'
  /\ ForwarderTypeOK /\ UNCHANGED forwarderVars => ForwarderTypeOK'
  /\ RetrierTypeOK /\ UNCHANGED retrierVars => RetrierTypeOK'
  /\ HistoryTypeOK /\ UNCHANGED <<historyVars, fault>> => HistoryTypeOK'
  /\ StorageBounded /\ UNCHANGED bundles => StorageBounded'
  /\ RoomForInsert /\ UNCHANGED <<bundles, forwarderAt>> => RoomForInsert'
<1>1. StorageTypeOK /\ UNCHANGED storageVars => StorageTypeOK'
  BY DEF StorageTypeOK, storageVars
<1>2. QueueTypeOK /\ UNCHANGED <<arrivals, receiveQueue, forwardQueue>> => QueueTypeOK'
  BY DEF QueueTypeOK
<1>3. ReceiverTypeOK /\ UNCHANGED receiverVars => ReceiverTypeOK'
  BY DEF ReceiverTypeOK, receiverVars
<1>4. ForwarderTypeOK /\ UNCHANGED forwarderVars => ForwarderTypeOK'
  BY DEF ForwarderTypeOK, forwarderVars
<1>5. RetrierTypeOK /\ UNCHANGED retrierVars => RetrierTypeOK'
  BY DEF RetrierTypeOK, retrierVars
<1>6. HistoryTypeOK /\ UNCHANGED <<historyVars, fault>> => HistoryTypeOK'
  BY DEF HistoryTypeOK, historyVars
<1> QED
  BY <1>1, <1>2, <1>3, <1>4, <1>5, <1>6 DEF StorageBounded, RoomForInsert

(* An entry goes into a queue that has a free slot. *)
LEMMA EnqueueFits ==
  ASSUME NEW s \in Seq(Entry), NEW e \in Entry, NEW n \in Nat, Len(s) < n
  PROVE  Append(s, e) \in Seq(Entry) /\ Len(Append(s, e)) <= n
  BY IdsAppend, IdsMember

LEMMA TypeStep == TypeInv /\ [Next]_vars => TypeInv'
<1> SUFFICES ASSUME TypeInv, [Next]_vars PROVE TypeInv'
  OBVIOUS
<1> USE Sizes, BundleSets DEF TypeInv, TypeOK
<1> USE DEF storageVars, agentVars, receiverVars, forwarderVars, retrierVars, historyVars, NoFault
<1>1. ASSUME NEW e \in Entry, Arrive(e) PROVE TypeInv'
  <2>1. QueueTypeOK'
    BY <1>1, EnqueueFits DEF Arrive, QueueTypeOK
  <2> QED BY <1>1, <2>1, TypeFrame DEF Arrive
<1>2. CASE DiscardDuplicate
  <2>1. QueueTypeOK'
    BY <1>2, ShorterFits DEF DiscardDuplicate, TakeReceived, QueueTypeOK
  <2> QED BY <1>2, <2>1, TypeFrame DEF DiscardDuplicate
<1>3. CASE RefuseBundle
  <2>1. QueueTypeOK'
    BY <1>3, ShorterFits DEF RefuseBundle, TakeReceived, QueueTypeOK
  <2>2. Head(receiveQueue).id \in Bundles
    BY <1>3, IdsHeadTail, EntryFields DEF RefuseBundle, TakeReceived, QueueTypeOK
  <2>3. StorageTypeOK'
    BY <1>3, <2>2 DEF RefuseBundle, storeSeen, StorageTypeOK
  <2>4. HistoryTypeOK'
    BY <1>3, <2>2 DEF RefuseBundle, bundleDeletion, HistoryTypeOK, Outcomes
  <2> QED BY <1>3, <2>1, <2>3, <2>4, TypeFrame DEF RefuseBundle
<1>4. CASE AcceptBundle
  <2>1. QueueTypeOK'
    BY <1>4, ShorterFits DEF AcceptBundle, TakeReceived, QueueTypeOK
  <2>2. Head(receiveQueue) \in Entry /\ Head(receiveQueue).id \in Bundles
    BY <1>4, IdsHeadTail, EntryFields DEF AcceptBundle, TakeReceived, QueueTypeOK
  <2>3. StorageTypeOK'
    BY <1>4, <2>2 DEF AcceptBundle, storeSeen, StorageTypeOK
  <2>4. ReceiverTypeOK'
    BY <1>4, <2>2, IdsOne DEF AcceptBundle, ReceiverTypeOK
  <2> QED BY <1>4, <2>1, <2>3, <2>4, TypeFrame DEF AcceptBundle
<1>5. CASE DeliverLocally
  <2>1. ReceiverTypeOK'
    BY <1>5 DEF DeliverLocally, ReceiverTypeOK
  <2>2. HistoryTypeOK'
    BY <1>5 DEF DeliverLocally, HistoryTypeOK
  <2> QED BY <1>5, <2>1, <2>2, TypeFrame DEF DeliverLocally
<1>6. CASE SendReply
  <2>1. PICK t \in Times :
          receiveQueue' = Append(receiveQueue, [id |-> Reply[receiving[1].id], receivedAt |-> t])
    BY <1>6 DEF SendReply
  <2>2. [id |-> Reply[receiving[1].id], receivedAt |-> t] \in Entry
    BY <1>6, EntryFields DEF SendReply, ReceiverTypeOK
  <2>3. QueueTypeOK'
    BY <1>6, <2>1, <2>2, EnqueueFits DEF SendReply, QueueTypeOK
  <2>4. ReceiverTypeOK'
    BY <1>6 DEF SendReply, ReceiverTypeOK
  <2> QED BY <1>6, <2>3, <2>4, TypeFrame DEF SendReply
<1>7. CASE Dispatch
  <2>1. receiving[1] \in Entry
    BY <1>7, IdsSingle DEF Dispatch, ReceiverTypeOK
  <2>2. QueueTypeOK'
    BY <1>7, <2>1, EnqueueFits DEF Dispatch, QueueTypeOK
  <2>3. ReceiverTypeOK'
    BY <1>7, EmptySeq DEF Dispatch, ReceiverTypeOK
  <2> QED BY <1>7, <2>2, <2>3, TypeFrame DEF Dispatch
<1>8. CASE TakeForForwarding
  <2>1. QueueTypeOK'
    BY <1>8, ShorterFits DEF TakeForForwarding, QueueTypeOK
  <2>2. ForwarderTypeOK'
    BY <1>8, IdsHeadTail, IdsOne DEF TakeForForwarding, QueueTypeOK, ForwarderTypeOK
  <2>3. RoomForInsert'
    BY <1>8 DEF TakeForForwarding, RoomForInsert
  <2> QED BY <1>8, <2>1, <2>2, <2>3, TypeFrame DEF TakeForForwarding
<1>9. CASE ForwardingSuccess
  <2>1. ForwarderTypeOK' /\ RoomForInsert'
    BY <1>9, EmptySeq DEF ForwardingSuccess, ForwarderTypeOK, RoomForInsert
  <2>2. HistoryTypeOK'
    BY <1>9 DEF ForwardingSuccess, bundleDeletion, HistoryTypeOK, Outcomes
  <2> QED BY <1>9, <2>1, <2>2, TypeFrame DEF ForwardingSuccess
<1>10. CASE DelayBundle
  <2>1. forwarding[1] \in Entry
    BY <1>10, IdsSingle DEF DelayBundle, ForwarderTypeOK
  <2>2. bundles' \in Seq(Entry) /\ StorageBounded'
    BY <1>10, <2>1, EnqueueFits DEF DelayBundle, HasRoom, Insert, StorageTypeOK, StorageBounded
  <2>3. StorageTypeOK'
    BY <1>10, <2>2 DEF DelayBundle, StorageTypeOK
  <2>4. ForwarderTypeOK' /\ RoomForInsert'
    BY <1>10, EmptySeq DEF DelayBundle, ForwarderTypeOK, RoomForInsert
  <2> QED BY <1>10, <2>2, <2>3, <2>4, TypeFrame DEF DelayBundle
<1>11. CASE DelayBundleFull
  <2>1. ForwarderTypeOK' /\ RoomForInsert'
    BY <1>11 DEF DelayBundleFull, ForwarderTypeOK, RoomForInsert
  <2> QED BY <1>11, <2>1, TypeFrame DEF DelayBundleFull
<1>12. CASE EvictOldest
  <2>1. PICK i \in DOMAIN bundles :
          /\ bundles' = RemoveAt(bundles, i)
          /\ outcome' = [outcome EXCEPT ![bundles[i].id] = "depleted"]
          /\ cycleRest' = cycleRest \ {bundles[i].id}
    BY <1>12 DEF EvictOldest, RemoveEntry, bundleDeletion
  <2>2. bundles' \in Seq(Entry) /\ Len(bundles') < MaxStored
    BY <2>1, ShorterFits DEF StorageTypeOK, StorageBounded
  <2>3. StorageTypeOK'
    BY <1>12, <2>2 DEF EvictOldest, StorageTypeOK
  <2>4. StorageBounded' /\ RoomForInsert'
    BY <2>2, LenProperties DEF StorageBounded, RoomForInsert
  <2>5. ForwarderTypeOK'
    BY <1>12 DEF EvictOldest, ForwarderTypeOK
  <2>6. HistoryTypeOK'
    BY <1>12, <2>1 DEF EvictOldest, HistoryTypeOK, Outcomes
  <2> QED BY <1>12, <2>3, <2>4, <2>5, <2>6, TypeFrame DEF EvictOldest
<1>13. CASE EvictFromEmptyList
  <2>1. HistoryTypeOK'
    BY <1>13 DEF EvictFromEmptyList, HistoryTypeOK, Faults
  <2> QED BY <1>13, <2>1, TypeFrame DEF EvictFromEmptyList
<1>14. CASE InsertDelayed
  <2>1. forwarding[1] \in Entry
    BY <1>14, IdsSingle DEF InsertDelayed, ForwarderTypeOK
  <2>2. bundles' \in Seq(Entry) /\ StorageBounded'
    BY <1>14, <2>1, EnqueueFits
       DEF InsertDelayed, Insert, StorageTypeOK, StorageBounded, RoomForInsert
  <2>3. StorageTypeOK'
    BY <1>14, <2>2 DEF InsertDelayed, StorageTypeOK
  <2>4. ForwarderTypeOK' /\ RoomForInsert'
    BY <1>14, EmptySeq DEF InsertDelayed, ForwarderTypeOK, RoomForInsert
  <2> QED BY <1>14, <2>2, <2>3, <2>4, TypeFrame DEF InsertDelayed
<1>15. CASE StartCycle
  <2>1. bundles \in Seq(Entry) /\ Len(bundles) \in Nat /\ Len(bundles) <= MaxStored
    BY LenProperties DEF StorageTypeOK, StorageBounded
  <2>2. StorageTypeOK'
    BY <1>15, <2>1 DEF StartCycle, beginRetryCycle, StorageTypeOK
  <2>3. RetrierTypeOK'
    BY <1>15 DEF StartCycle, RetrierTypeOK
  <2>4. HistoryTypeOK'
    BY <1>15, <2>1, IdsMember DEF StartCycle, HistoryTypeOK
  <2> QED BY <1>15, <2>2, <2>3, <2>4, TypeFrame DEF StartCycle
<1>16. CASE GetBundlesRetry
  <2> DEFINE n == BatchLength
  <2>1. /\ bundles \in Seq(Entry) /\ Len(bundles) \in Nat
        /\ n \in 0 .. Len(bundles) /\ n \in Nat
        /\ n <= BatchSize /\ n <= bundlesToReturn
    BY <1>16, LenProperties DEF GetBundlesRetry, BatchLength, StorageTypeOK
  <2>2. /\ retrying' = SubSeq(bundles, 1, n)
        /\ bundles' = SubSeq(bundles, n + 1, Len(bundles))
        /\ bundlesToReturn' = bundlesToReturn - n
    BY <1>16 DEF GetBundlesRetry, Batch, PopBatch
  <2> HIDE DEF n
  <2>3. /\ retrying' \in Seq(Entry) /\ Len(retrying') = n
        /\ bundles' \in Seq(Entry) /\ Len(bundles') = Len(bundles) - n
    BY <2>1, <2>2, IdsSplit
  <2>4. StorageTypeOK'
    BY <1>16, <2>1, <2>2, <2>3 DEF GetBundlesRetry, StorageTypeOK
  <2>5. StorageBounded'
    BY <2>1, <2>3 DEF StorageBounded
  <2>6. RoomForInsert'
    BY <1>16, <2>1, <2>3 DEF GetBundlesRetry, RoomForInsert
  <2>7. RetrierTypeOK'
    BY <1>16, <2>1, <2>3 DEF GetBundlesRetry, RetrierTypeOK
  <2>8. HistoryTypeOK'
    BY <1>16 DEF GetBundlesRetry, HistoryTypeOK
  <2> QED BY <1>16, <2>4, <2>5, <2>6, <2>7, <2>8, TypeFrame DEF GetBundlesRetry
<1>17. CASE GetFromEmptyList
  <2>1. HistoryTypeOK'
    BY <1>17 DEF GetFromEmptyList, HistoryTypeOK, Faults
  <2> QED BY <1>17, <2>1, TypeFrame DEF GetFromEmptyList
<1>18. CASE RetryBundle
  <2>1. RetrierTypeOK'
    BY <1>18, ShorterFits DEF RetryBundle, RetrierTypeOK
  <2>2. Head(retrying) \in Entry
    BY <1>18, IdsHeadTail DEF RetryBundle, RetrierTypeOK
  <2>3. QueueTypeOK'
    BY <1>18, <2>2, EnqueueFits DEF RetryBundle, QueueTypeOK
  <2> QED BY <1>18, <2>1, <2>3, TypeFrame DEF RetryBundle
<1>19. CASE DropExpired
  <2>1. RetrierTypeOK'
    BY <1>19, ShorterFits DEF DropExpired, RetrierTypeOK
  <2>2. HistoryTypeOK'
    BY <1>19 DEF DropExpired, bundleDeletion, HistoryTypeOK, Outcomes
  <2> QED BY <1>19, <2>1, <2>2, TypeFrame DEF DropExpired
<1>20. CASE EndRetryCycle
  <2>1. RetrierTypeOK'
    BY <1>20 DEF EndRetryCycle, RetrierTypeOK
  <2> QED BY <1>20, <2>1, TypeFrame DEF EndRetryCycle
<1>21. ASSUME NEW b \in Cancellable, CancelStored(b) PROVE TypeInv'
  <2>1. PICK i \in DOMAIN bundles : bundles' = RemoveAt(bundles, i)
    BY <1>21 DEF CancelStored, IsFirstWithId, RemoveEntry
  <2>2. bundles' \in Seq(Entry) /\ Len(bundles') < MaxStored
    BY <2>1, ShorterFits DEF StorageTypeOK, StorageBounded
  <2>3. StorageTypeOK'
    BY <1>21, <2>2 DEF CancelStored, StorageTypeOK
  <2>4. StorageBounded' /\ RoomForInsert'
    BY <2>2, LenProperties DEF StorageBounded, RoomForInsert
  <2>5. HistoryTypeOK'
    BY <1>21 DEF CancelStored, bundleDeletion, HistoryTypeOK, Outcomes
  <2> QED BY <1>21, <2>3, <2>4, <2>5, TypeFrame DEF CancelStored
<1>22. CASE UNCHANGED vars
  BY <1>22, TypeFrame DEF vars
<1> QED
  BY <1>1, <1>2, <1>3, <1>4, <1>5, <1>6, <1>7, <1>8, <1>9, <1>10, <1>11, <1>12, <1>13,
     <1>14, <1>15, <1>16, <1>17, <1>18, <1>19, <1>20, <1>21, <1>22
     DEF Next, Receiver, Forwarder, Retrier

(* The variables keep the types the code declares, the queues their length *)
(* limits, and each task has a bundle in hand exactly when its position in *)
(* the code says so.                                                       *)
THEOREM TypeCorrect == Spec => []TypeOK
<1>1. Spec => []TypeInv
  BY TypeInit, TypeStep, PTL DEF Spec
<1>2. TypeInv => TypeOK
  BY DEF TypeInv
<1> QED BY <1>1, <1>2, PTL

(* delayBundle never lets the store grow beyond maxStoredBundles, although *)
(* it checks the size in one critical section and inserts in another one.  *)
THEOREM StoreNeverOverfull == Spec => []StorageBounded
<1>1. Spec => []TypeInv
  BY TypeInit, TypeStep, PTL DEF Spec
<1>2. TypeInv => StorageBounded
  BY DEF TypeInv
<1> QED BY <1>1, <1>2, PTL

-----------------------------------------------------------------------------
(* Custody: no bundle is duplicated, lost or delivered twice.              *)

(* The lists that hold bundles share no bundle and repeat none. *)
Apart(s1, s2, s3, s4, s5) ==
  /\ s1 \cap s2 = {} /\ s1 \cap s3 = {} /\ s1 \cap s4 = {} /\ s1 \cap s5 = {}
  /\ s2 \cap s3 = {} /\ s2 \cap s4 = {} /\ s2 \cap s5 = {}
  /\ s3 \cap s4 = {} /\ s3 \cap s5 = {}
  /\ s4 \cap s5 = {}

PlacesDistinct ==
  /\ Distinct(receiving)
  /\ Distinct(forwardQueue)
  /\ Distinct(forwarding)
  /\ Distinct(bundles)
  /\ Distinct(retrying)

PlacesApart ==
  Apart(Ids(receiving), Ids(forwardQueue), Ids(forwarding), Ids(bundles), Ids(retrying))

CustodyInv ==
  /\ TypeInv
  /\ PlacesDistinct
  /\ PlacesApart
  /\ NothingLost
  /\ DeliveredExactlyOnce

LEMMA HeldInBundles == TypeOK => HeldIds \subseteq Bundles
  BY IdsMember
     DEF TypeOK, StorageTypeOK, QueueTypeOK, ReceiverTypeOK, ForwarderTypeOK, RetrierTypeOK, HeldIds

(* What a step can do to the custody of a bundle: each step does one of    *)
(* the five, or leaves everything about custody alone.                     *)
NotDelivering ==
  \/ UNCHANGED receiverVars
  \/ receiverAt # "deliver" /\ receiverAt' # "deliver"

Moves ==
  /\ HeldIds' = HeldIds
  /\ UNCHANGED <<bundle_ids, outcome, delivered>>

Releases(b, reason) ==
  /\ b \in HeldIds
  /\ HeldIds' = HeldIds \ {b}
  /\ outcome' = [outcome EXCEPT ![b] = reason]
  /\ UNCHANGED <<bundle_ids, delivered>>

Refuses(b) ==
  /\ b \in Bundles /\ b \notin bundle_ids
  /\ bundle_ids' = bundle_ids \cup {b}
  /\ HeldIds' = HeldIds
  /\ outcome' = [outcome EXCEPT ![b] = "refused"]
  /\ UNCHANGED <<delivered, receiverVars>>

Accepts(b) ==
  /\ b \in Bundles /\ b \notin bundle_ids
  /\ bundle_ids' = bundle_ids \cup {b}
  /\ HeldIds' = HeldIds \cup {b}
  /\ receiverAt = "idle" /\ receiverAt' = "deliver" /\ receiving'[1].id = b
  /\ UNCHANGED <<outcome, delivered>>

Delivers(b) ==
  /\ b \in HeldIds
  /\ receiverAt = "deliver" /\ receiving[1].id = b /\ receiverAt' # "deliver"
  /\ HeldIds' = HeldIds
  /\ delivered' = IF b \in Local THEN [delivered EXCEPT ![b] = @ + 1] ELSE delivered
  /\ UNCHANGED <<bundle_ids, outcome>>

Effect ==
  \/ Moves /\ NotDelivering
  \/ \E b \in Bundles, reason \in {"forwarded", "expired", "depleted", "cancelled"} :
       Releases(b, reason) /\ NotDelivering
  \/ \E b \in Bundles : Refuses(b) \/ Accepts(b) \/ Delivers(b)

LEMMA MovesKeeps ==
  ASSUME NothingLost, Moves
  PROVE  NothingLost'
  BY DEF NothingLost, Moves

LEMMA ReleasesKeeps ==
  ASSUME TypeOK, NothingLost, NEW b, NEW reason, reason # "none", Releases(b, reason)
  PROVE  /\ NothingLost'
         /\ outcome[b] = "none" /\ b \in bundle_ids /\ b \in Bundles
         /\ outcome' \in [Bundles -> {reason} \cup Outcomes]
         /\ \A c \in Bundles : outcome'[c] = IF c = b THEN reason ELSE outcome[c]
<1>1. b \in Bundles
  BY HeldInBundles DEF Releases
<1>2. outcome \in [Bundles -> Outcomes]
  BY DEF TypeOK, HistoryTypeOK
<1>3. \A c \in Bundles : outcome'[c] = IF c = b THEN reason ELSE outcome[c]
  BY <1>1, <1>2 DEF Releases
<1>4. outcome' \in [Bundles -> {reason} \cup Outcomes]
  BY <1>1, <1>2 DEF Releases
<1>5. outcome[b] = "none" /\ b \in bundle_ids
  BY <1>1 DEF NothingLost, Releases
<1>6. ASSUME NEW c \in Bundles
      PROVE  /\ c \in HeldIds' <=> (c \in bundle_ids' /\ outcome'[c] = "none")
             /\ outcome'[c] # "none" => c \in bundle_ids'
  <2>1. CASE c = b
    BY <2>1, <1>3, <1>5 DEF Releases
  <2>2. CASE c # b
    BY <2>2, <1>3 DEF Releases, NothingLost
  <2> QED BY <2>1, <2>2
<1>7. NothingLost'
  BY <1>6 DEF NothingLost
<1> QED BY <1>1, <1>3, <1>4, <1>5, <1>7

(* Delivery counts are untouched while no delivery is in progress and no   *)
(* bundle is refused.                                                      *)
LEMMA DeliveredKeeps ==
  ASSUME DeliveredExactlyOnce, UNCHANGED <<delivered, bundle_ids>>,
         \A b \in Bundles : outcome'[b] = "refused" <=> outcome[b] = "refused",
         \/ UNCHANGED receiverVars
         \/ receiverAt # "deliver" /\ receiverAt' # "deliver"
  PROVE  DeliveredExactlyOnce'
  BY DEF DeliveredExactlyOnce, receiverVars

LEMMA CustodyInvInit == Init => CustodyInv
<1> SUFFICES ASSUME Init PROVE CustodyInv
  OBVIOUS
<1>1. TypeInv
  BY TypeInit
<1>2. PlacesDistinct /\ PlacesApart
  BY IdsEmpty DEF Init, StorageInit, PlacesDistinct, PlacesApart, Apart
<1>3. HeldIds = {}
  BY IdsEmpty DEF Init, StorageInit, HeldIds
<1>4. NothingLost
  BY <1>3 DEF Init, StorageInit, NothingLost
<1>5. DeliveredExactlyOnce
  BY DEF Init, StorageInit, DeliveredExactlyOnce
<1> QED BY <1>1, <1>2, <1>4, <1>5 DEF CustodyInv

LEMMA PlacesFrame ==
  ASSUME PlacesDistinct, PlacesApart,
         UNCHANGED <<receiving, forwardQueue, forwarding, bundles, retrying>>
  PROVE  PlacesDistinct' /\ PlacesApart' /\ HeldIds' = HeldIds
<1>1. Ids(receiving)' = Ids(receiving) /\ Ids(forwardQueue)' = Ids(forwardQueue)
  BY DEF Ids
<1>2. Ids(forwarding)' = Ids(forwarding) /\ Ids(bundles)' = Ids(bundles)
  BY DEF Ids
<1>3. Ids(retrying)' = Ids(retrying)
  BY DEF Ids
<1> QED BY <1>1, <1>2, <1>3 DEF PlacesDistinct, PlacesApart, HeldIds, Distinct, Apart

(* Every step moves bundles between the lists without duplicating any, and *)
(* has one of the effects on custody.                                      *)
LEMMA StepEffect ==
  ASSUME CustodyInv, [Next]_vars
  PROVE  PlacesDistinct' /\ PlacesApart' /\ Effect
<1> USE DEF storageVars, agentVars, receiverVars, forwarderVars, retrierVars, historyVars, NoFault
<1>t. /\ bundles \in Seq(Entry) /\ receiveQueue \in Seq(Entry) /\ forwardQueue \in Seq(Entry)
      /\ receiving \in Seq(Entry) /\ forwarding \in Seq(Entry) /\ retrying \in Seq(Entry)
  BY DEF CustodyInv, TypeInv, TypeOK, StorageTypeOK, QueueTypeOK, ReceiverTypeOK,
         ForwarderTypeOK, RetrierTypeOK
<1>i. /\ PlacesDistinct /\ PlacesApart /\ NothingLost /\ HeldIds \subseteq Bundles
  BY HeldInBundles DEF CustodyInv, TypeInv
<1>r. /\ receiverAt # "idle" => Len(receiving) = 1
      /\ receiverAt = "idle" => receiving = <<>>
      /\ forwarderAt # "idle" => Len(forwarding) = 1
      /\ forwarderAt = "idle" => forwarding = <<>>
  BY EmptySeq DEF CustodyInv, TypeInv, TypeOK, ReceiverTypeOK, ForwarderTypeOK
<1>e. Ids(<<>>) = {} /\ Distinct(<<>>)
  BY IdsEmpty
<1>1. ASSUME NEW e \in Entry, Arrive(e) PROVE PlacesDistinct' /\ PlacesApart' /\ Effect
  <2>1. UNCHANGED <<receiving, forwardQueue, forwarding, bundles, retrying>>
    BY <1>1 DEF Arrive
  <2> QED BY <1>1, <2>1, <1>i, PlacesFrame DEF Arrive, Effect, Moves, NotDelivering
<1>2. CASE DiscardDuplicate
  <2>1. UNCHANGED <<receiving, forwardQueue, forwarding, bundles, retrying>>
    BY <1>2 DEF DiscardDuplicate
  <2> QED BY <1>2, <2>1, <1>i, PlacesFrame DEF DiscardDuplicate, Effect, Moves, NotDelivering
<1>3. CASE RefuseBundle
  <2> DEFINE b == Head(receiveQueue).id
  <2>1. b \in Bundles
    BY <1>3, <1>t, IdsHeadTail, EntryFields DEF RefuseBundle, TakeReceived
  <2>2. UNCHANGED <<receiving, forwardQueue, forwarding, bundles, retrying>>
    BY <1>3 DEF RefuseBundle
  <2>3. PlacesDistinct' /\ PlacesApart' /\ HeldIds' = HeldIds
    BY <2>2, <1>i, PlacesFrame
  <2>4. Refuses(b)
    BY <1>3, <2>1, <2>3 DEF RefuseBundle, checkSeen, storeSeen, bundleDeletion, Refuses
  <2> QED BY <2>1, <2>3, <2>4 DEF Effect
<1>4. CASE AcceptBundle
  <2> DEFINE e == Head(receiveQueue)
  <2>1. e \in Entry /\ e.id \in Bundles
    BY <1>4, <1>t, IdsHeadTail, EntryFields DEF AcceptBundle, TakeReceived
  <2>2. /\ receiverAt = "idle" /\ receiving = <<>> /\ receiverAt' = "deliver"
        /\ receiving' = <<e>> /\ e.id \notin bundle_ids /\ bundle_ids' = bundle_ids \cup {e.id}
        /\ UNCHANGED <<forwardQueue, forwarding, bundles, retrying, outcome, delivered>>
    BY <1>4, <1>r DEF AcceptBundle, TakeReceived, checkSeen, storeSeen
  <2>3. e.id \notin HeldIds
    BY <2>1, <2>2, <1>i DEF NothingLost
  <2> HIDE DEF e
  <2>4. Ids(receiving') = {e.id} /\ Distinct(receiving') /\ receiving'[1].id = e.id
    BY <2>1, <2>2, IdsOne
  <2>5. PlacesDistinct' /\ PlacesApart'
    BY <2>2, <2>3, <2>4, <1>i DEF PlacesDistinct, PlacesApart, Apart, HeldIds
  <2>6. HeldIds' = HeldIds \cup {e.id}
    BY <2>2, <2>4, <1>e DEF HeldIds
  <2>7. Accepts(e.id)
    BY <2>1, <2>2, <2>4, <2>6 DEF Accepts
  <2> QED BY <2>1, <2>5, <2>7 DEF Effect
<1>5. CASE DeliverLocally
  <2> DEFINE b == receiving[1].id
  <2>1. UNCHANGED <<receiving, forwardQueue, forwarding, bundles, retrying>>
    BY <1>5 DEF DeliverLocally
  <2>2. PlacesDistinct' /\ PlacesApart' /\ HeldIds' = HeldIds
    BY <2>1, <1>i, PlacesFrame
  <2>3. b \in HeldIds /\ b \in Bundles
    BY <1>5, <1>t, <1>i, <1>r, IdsSingle DEF DeliverLocally, HeldIds
  <2>4. Delivers(b)
    BY <1>5, <2>2, <2>3 DEF DeliverLocally, Delivers
  <2> QED BY <2>2, <2>3, <2>4 DEF Effect
<1>6. CASE SendReply
  <2>1. UNCHANGED <<receiving, forwardQueue, forwarding, bundles, retrying>>
    BY <1>6 DEF SendReply
  <2> QED BY <1>6, <2>1, <1>i, PlacesFrame DEF SendReply, Effect, Moves, NotDelivering
<1>7. CASE Dispatch
  <2>1. /\ receiverAt = "dispatch" /\ receiverAt' = "idle"
        /\ receiving' = <<>> /\ forwardQueue' = Append(forwardQueue, receiving[1])
        /\ UNCHANGED <<bundle_ids, forwarding, bundles, retrying, outcome, delivered>>
    BY <1>7 DEF Dispatch
  <2>2. receiving[1] \in Entry /\ Ids(receiving) = {receiving[1].id}
    BY <2>1, <1>t, <1>r, IdsSingle
  <2>3. receiving[1].id \notin Ids(forwardQueue)
    BY <2>2, <1>i DEF PlacesApart, Apart
  <2>4. /\ Ids(forwardQueue') = Ids(forwardQueue) \cup Ids(receiving)
        /\ Distinct(forwardQueue')
    BY <2>1, <2>2, <2>3, <1>t, <1>i, IdsAppend DEF PlacesDistinct
  <2>5. Ids(receiving') = {} /\ Distinct(receiving')
    BY <2>1, <1>e
  <2>6. PlacesDistinct' /\ PlacesApart'
    BY <2>1, <2>4, <2>5, <1>i DEF PlacesDistinct, PlacesApart, Apart
  <2>7. HeldIds' = HeldIds
    BY <2>1, <2>4, <2>5 DEF HeldIds
  <2> QED BY <2>1, <2>6, <2>7 DEF Effect, Moves, NotDelivering
<1>8. CASE TakeForForwarding
  <2> DEFINE e == Head(forwardQueue)
  <2>1. /\ forwarding = <<>> /\ forwardQueue # <<>>
        /\ forwarding' = <<e>> /\ forwardQueue' = Tail(forwardQueue)
        /\ UNCHANGED <<bundle_ids, receiving, receiverAt, bundles, retrying, outcome, delivered>>
    BY <1>8, <1>r DEF TakeForForwarding
  <2>2. /\ e \in Entry
        /\ Ids(forwardQueue) = {e.id} \cup Ids(forwardQueue')
        /\ Distinct(forwardQueue') /\ e.id \notin Ids(forwardQueue')
    BY <2>1, <1>t, <1>i, IdsHeadTail DEF PlacesDistinct
  <2> HIDE DEF e
  <2>3. Ids(forwarding') = {e.id} /\ Distinct(forwarding')
    BY <2>1, <2>2, IdsOne
  <2>4. PlacesDistinct' /\ PlacesApart'
    BY <2>1, <2>2, <2>3, <1>i DEF PlacesDistinct, PlacesApart, Apart
  <2>5. HeldIds' = HeldIds
    BY <2>1, <2>2, <2>3, <1>e DEF HeldIds
  <2> QED BY <2>1, <2>4, <2>5 DEF Effect, Moves, NotDelivering
<1>9. CASE ForwardingSuccess
  <2> DEFINE b == forwarding[1].id
  <2>1. /\ forwarderAt = "route" /\ forwarding' = <<>>
        /\ outcome' = [outcome EXCEPT ![b] = "forwarded"]
        /\ UNCHANGED <<bundle_ids, receiving, receiverAt, forwardQueue, bundles, retrying, delivered>>
    BY <1>9 DEF ForwardingSuccess, bundleDeletion
  <2>2. Ids(forwarding) = {b}
    BY <2>1, <1>t, <1>r, IdsSingle
  <2>3. Ids(forwarding') = {} /\ Distinct(forwarding')
    BY <2>1, <1>e
  <2> HIDE DEF b
  <2>4. PlacesDistinct' /\ PlacesApart'
    BY <2>1, <2>3, <1>i DEF PlacesDistinct, PlacesApart, Apart
  <2>5. b \in HeldIds /\ HeldIds' = HeldIds \ {b}
    BY <2>1, <2>2, <2>3, <1>i DEF HeldIds, PlacesApart, Apart
  <2> QED BY <2>1, <2>4, <2>5, <1>i DEF Effect, Releases, NotDelivering
<1>10. CASE DelayBundle
  <2>1. /\ forwarderAt = "route" /\ forwarding' = <<>>
        /\ bundles' = Append(bundles, forwarding[1])
        /\ UNCHANGED <<bundle_ids, receiving, receiverAt, forwardQueue, retrying, outcome, delivered>>
    BY <1>10 DEF DelayBundle, Insert
  <2>2. PlacesDistinct' /\ PlacesApart' /\ HeldIds' = HeldIds
    <3>1. forwarding[1] \in Entry /\ Ids(forwarding) = {forwarding[1].id}
      BY <2>1, <1>t, <1>r, IdsSingle
    <3>2. forwarding[1].id \notin Ids(bundles)
      BY <3>1, <1>i DEF PlacesApart, Apart
    <3>3. Ids(bundles') = Ids(bundles) \cup Ids(forwarding) /\ Distinct(bundles')
      BY <2>1, <3>1, <3>2, <1>t, <1>i, IdsAppend DEF PlacesDistinct
    <3>4. Ids(forwarding') = {} /\ Distinct(forwarding')
      BY <2>1, <1>e
    <3> QED BY <2>1, <3>3, <3>4, <1>i DEF PlacesDistinct, PlacesApart, Apart, HeldIds
  <2> QED BY <2>1, <2>2 DEF Effect, Moves, NotDelivering
<1>11. CASE DelayBundleFull
  <2>1. UNCHANGED <<receiving, forwardQueue, forwarding, bundles, retrying>>
    BY <1>11 DEF DelayBundleFull
  <2> QED BY <1>11, <2>1, <1>i, PlacesFrame DEF DelayBundleFull, Effect, Moves, NotDelivering
<1>12. CASE EvictOldest
  <2>1. PICK i \in DOMAIN bundles :
          /\ bundles' = RemoveAt(bundles, i)
          /\ outcome' = [outcome EXCEPT ![bundles[i].id] = "depleted"]
    BY <1>12 DEF EvictOldest, RemoveEntry, bundleDeletion
  <2> DEFINE b == bundles[i].id
  <2>2. UNCHANGED <<bundle_ids, receiving, receiverAt, forwardQueue, forwarding, retrying, delivered>>
    BY <1>12 DEF EvictOldest
  <2>3. b \in Ids(bundles) /\ Ids(bundles') = Ids(bundles) \ {b} /\ Distinct(bundles')
    BY <2>1, <1>t, <1>i, IdsRemoveAt, IdsMember DEF PlacesDistinct
  <2> HIDE DEF b
  <2>4. PlacesDistinct' /\ PlacesApart'
    BY <2>2, <2>3, <1>i DEF PlacesDistinct, PlacesApart, Apart
  <2>5. b \in HeldIds /\ HeldIds' = HeldIds \ {b}
    BY <2>2, <2>3, <1>i DEF HeldIds, PlacesApart, Apart
  <2>6. outcome' = [outcome EXCEPT ![b] = "depleted"]
    BY <2>1 DEF b
  <2> QED BY <2>2, <2>4, <2>5, <2>6, <1>i DEF Effect, Releases, NotDelivering
<1>13. CASE EvictFromEmptyList
  <2>1. UNCHANGED <<receiving, forwardQueue, forwarding, bundles, retrying>>
    BY <1>13 DEF EvictFromEmptyList
  <2> QED BY <1>13, <2>1, <1>i, PlacesFrame DEF EvictFromEmptyList, Effect, Moves, NotDelivering
<1>14. CASE InsertDelayed
  <2>1. /\ forwarderAt = "insert" /\ forwarding' = <<>>
        /\ bundles' = Append(bundles, forwarding[1])
        /\ UNCHANGED <<bundle_ids, receiving, receiverAt, forwardQueue, retrying, outcome, delivered>>
    BY <1>14 DEF InsertDelayed, Insert
  <2>2. PlacesDistinct' /\ PlacesApart' /\ HeldIds' = HeldIds
    <3>1. forwarding[1] \in Entry /\ Ids(forwarding) = {forwarding[1].id}
      BY <2>1, <1>t, <1>r, IdsSingle
    <3>2. forwarding[1].id \notin Ids(bundles)
      BY <3>1, <1>i DEF PlacesApart, Apart
    <3>3. Ids(bundles') = Ids(bundles) \cup Ids(forwarding) /\ Distinct(bundles')
      BY <2>1, <3>1, <3>2, <1>t, <1>i, IdsAppend DEF PlacesDistinct
    <3>4. Ids(forwarding') = {} /\ Distinct(forwarding')
      BY <2>1, <1>e
    <3> QED BY <2>1, <3>3, <3>4, <1>i DEF PlacesDistinct, PlacesApart, Apart, HeldIds
  <2> QED BY <2>1, <2>2 DEF Effect, Moves, NotDelivering
<1>15. CASE StartCycle
  <2>1. UNCHANGED <<receiving, forwardQueue, forwarding, bundles, retrying>>
    BY <1>15 DEF StartCycle
  <2> QED BY <1>15, <2>1, <1>i, PlacesFrame DEF StartCycle, Effect, Moves, NotDelivering
<1>16. CASE GetBundlesRetry
  <2> DEFINE n == BatchLength
  <2>1. n \in 0 .. Len(bundles)
    BY <1>16, <1>t, IdsMember, Sizes
       DEF GetBundlesRetry, BatchLength, CustodyInv, TypeInv, TypeOK, StorageTypeOK
  <2>2. /\ retrying = <<>>
        /\ retrying' = SubSeq(bundles, 1, n)
        /\ bundles' = SubSeq(bundles, n + 1, Len(bundles))
        /\ UNCHANGED <<bundle_ids, receiving, receiverAt, forwardQueue, forwarding, outcome, delivered>>
    BY <1>16 DEF GetBundlesRetry, Batch, PopBatch
  <2> HIDE DEF n
  <2>3. /\ Ids(bundles) = Ids(retrying') \cup Ids(bundles')
        /\ Distinct(retrying') /\ Distinct(bundles')
        /\ Ids(retrying') \cap Ids(bundles') = {}
    BY <2>1, <2>2, <1>t, <1>i, IdsSplit DEF PlacesDistinct
  <2>4. PlacesDistinct' /\ PlacesApart'
    BY <2>2, <2>3, <1>i DEF PlacesDistinct, PlacesApart, Apart
  <2>5. HeldIds' = HeldIds
    BY <2>2, <2>3, <1>e DEF HeldIds
  <2> QED BY <2>2, <2>4, <2>5 DEF Effect, Moves, NotDelivering
<1>17. CASE GetFromEmptyList
  <2>1. UNCHANGED <<receiving, forwardQueue, forwarding, bundles, retrying>>
    BY <1>17 DEF GetFromEmptyList
  <2> QED BY <1>17, <2>1, <1>i, PlacesFrame DEF GetFromEmptyList, Effect, Moves, NotDelivering
<1>18. CASE RetryBundle
  <2> DEFINE e == Head(retrying)
  <2>1. /\ retrying # <<>>
        /\ retrying' = Tail(retrying) /\ forwardQueue' = Append(forwardQueue, e)
        /\ UNCHANGED <<bundle_ids, receiving, receiverAt, forwarding, bundles, outcome, delivered>>
    BY <1>18 DEF RetryBundle
  <2>2. /\ e \in Entry
        /\ Ids(retrying) = {e.id} \cup Ids(retrying')
        /\ Distinct(retrying') /\ e.id \notin Ids(retrying')
    BY <2>1, <1>t, <1>i, IdsHeadTail DEF PlacesDistinct
  <2> HIDE DEF e
  <2>3. e.id \notin Ids(forwardQueue)
    BY <2>2, <1>i DEF PlacesApart, Apart
  <2>4. Ids(forwardQueue') = Ids(forwardQueue) \cup {e.id} /\ Distinct(forwardQueue')
    BY <2>1, <2>2, <2>3, <1>t, <1>i, IdsAppend DEF PlacesDistinct
  <2>5. PlacesDistinct' /\ PlacesApart'
    BY <2>1, <2>2, <2>4, <1>i DEF PlacesDistinct, PlacesApart, Apart
  <2>6. HeldIds' = HeldIds
    BY <2>1, <2>2, <2>4 DEF HeldIds
  <2> QED BY <2>1, <2>5, <2>6 DEF Effect, Moves, NotDelivering
<1>19. CASE DropExpired
  <2> DEFINE b == Head(retrying).id
  <2>1. /\ retrying # <<>> /\ retrying' = Tail(retrying)
        /\ outcome' = [outcome EXCEPT ![b] = "expired"]
        /\ UNCHANGED <<bundle_ids, receiving, receiverAt, forwardQueue, forwarding, bundles, delivered>>
    BY <1>19 DEF DropExpired, bundleDeletion
  <2>2. /\ Ids(retrying) = {b} \cup Ids(retrying')
        /\ Distinct(retrying') /\ b \notin Ids(retrying')
    BY <2>1, <1>t, <1>i, IdsHeadTail DEF PlacesDistinct
  <2> HIDE DEF b
  <2>3. PlacesDistinct' /\ PlacesApart'
    BY <2>1, <2>2, <1>i DEF PlacesDistinct, PlacesApart, Apart
  <2>4. b \in HeldIds /\ HeldIds' = HeldIds \ {b}
    BY <2>1, <2>2, <1>i DEF HeldIds, PlacesApart, Apart
  <2> QED BY <2>1, <2>3, <2>4, <1>i DEF Effect, Releases, NotDelivering
<1>20. CASE EndRetryCycle
  <2>1. UNCHANGED <<receiving, forwardQueue, forwarding, bundles, retrying>>
    BY <1>20 DEF EndRetryCycle
  <2> QED BY <1>20, <2>1, <1>i, PlacesFrame DEF EndRetryCycle, Effect, Moves, NotDelivering
<1>21. ASSUME NEW b \in Cancellable, CancelStored(b) PROVE PlacesDistinct' /\ PlacesApart' /\ Effect
  <2>1. PICK i \in DOMAIN bundles : bundles[i].id = b /\ bundles' = RemoveAt(bundles, i)
    BY <1>21 DEF CancelStored, IsFirstWithId, RemoveEntry
  <2>2. /\ outcome' = [outcome EXCEPT ![b] = "cancelled"]
        /\ UNCHANGED <<bundle_ids, receiving, receiverAt, forwardQueue, forwarding, retrying, delivered>>
    BY <1>21 DEF CancelStored, bundleDeletion
  <2>3. b \in Ids(bundles) /\ Ids(bundles') = Ids(bundles) \ {b} /\ Distinct(bundles')
    BY <2>1, <1>t, <1>i, IdsRemoveAt, IdsMember DEF PlacesDistinct
  <2>4. PlacesDistinct' /\ PlacesApart'
    BY <2>2, <2>3, <1>i DEF PlacesDistinct, PlacesApart, Apart
  <2>5. b \in HeldIds /\ HeldIds' = HeldIds \ {b}
    BY <2>2, <2>3, <1>i DEF HeldIds, PlacesApart, Apart
  <2> QED BY <2>2, <2>4, <2>5, <1>i DEF Effect, Releases, NotDelivering
<1>22. CASE UNCHANGED vars
  <2>1. UNCHANGED <<receiving, forwardQueue, forwarding, bundles, retrying>>
    BY <1>22 DEF vars
  <2> QED BY <1>22, <2>1, <1>i, PlacesFrame DEF vars, Effect, Moves, NotDelivering
<1> QED
  BY <1>1, <1>2, <1>3, <1>4, <1>5, <1>6, <1>7, <1>8, <1>9, <1>10, <1>11, <1>12, <1>13,
     <1>14, <1>15, <1>16, <1>17, <1>18, <1>19, <1>20, <1>21, <1>22
     DEF Next, Receiver, Forwarder, Retrier

LEMMA CustodyInvStep == CustodyInv /\ [Next]_vars => CustodyInv'
<1> SUFFICES ASSUME CustodyInv, [Next]_vars PROVE CustodyInv'
  OBVIOUS
<1>1. TypeInv'
  BY TypeStep DEF CustodyInv
<1>2. PlacesDistinct' /\ PlacesApart' /\ Effect
  BY StepEffect
<1>3. /\ TypeOK /\ NothingLost /\ DeliveredExactlyOnce
      /\ outcome \in [Bundles -> Outcomes] /\ delivered \in [Bundles -> Nat]
  BY DEF CustodyInv, TypeInv, TypeOK, HistoryTypeOK
<1>4. NothingLost' /\ DeliveredExactlyOnce'
  <2>1. CASE Moves /\ NotDelivering
    <3>1. NothingLost'
      BY <2>1, <1>3, MovesKeeps
    <3>2. DeliveredExactlyOnce'
      BY <2>1, <1>3, DeliveredKeeps DEF Moves, NotDelivering
    <3> QED BY <3>1, <3>2
  <2>2. ASSUME NEW b \in Bundles, NEW reason \in {"forwarded", "expired", "depleted", "cancelled"},
               Releases(b, reason), NotDelivering
        PROVE  NothingLost' /\ DeliveredExactlyOnce'
    <3>1. /\ NothingLost' /\ outcome[b] = "none"
          /\ \A c \in Bundles : outcome'[c] = IF c = b THEN reason ELSE outcome[c]
      BY <2>2, <1>3, ReleasesKeeps
    <3>2. \A c \in Bundles : outcome'[c] = "refused" <=> outcome[c] = "refused"
      BY <3>1
    <3>3. DeliveredExactlyOnce'
      BY <2>2, <3>2, <1>3, DeliveredKeeps DEF Releases, NotDelivering
    <3> QED BY <3>1, <3>3
  <2>3. ASSUME NEW b \in Bundles, Refuses(b)
        PROVE  NothingLost' /\ DeliveredExactlyOnce'
    <3>1. b \notin bundle_ids /\ b \notin HeldIds /\ outcome[b] = "none"
      BY <2>3, <1>3 DEF Refuses, NothingLost
    <3>2. \A c \in Bundles : outcome'[c] = IF c = b THEN "refused" ELSE outcome[c]
      BY <2>3, <1>3 DEF Refuses
    <3>3. NothingLost'
      BY <2>3, <3>1, <3>2, <1>3 DEF Refuses, NothingLost
    <3>4. DeliveredExactlyOnce'
      BY <2>3, <3>1, <3>2, <1>3 DEF Refuses, receiverVars, DeliveredExactlyOnce
    <3> QED BY <3>3, <3>4
  <2>4. ASSUME NEW b \in Bundles, Accepts(b)
        PROVE  NothingLost' /\ DeliveredExactlyOnce'
    <3>1. b \notin bundle_ids /\ b \notin HeldIds /\ outcome[b] = "none"
      BY <2>4, <1>3 DEF Accepts, NothingLost
    <3>2. NothingLost'
      BY <2>4, <3>1, <1>3 DEF Accepts, NothingLost
    <3>3. DeliveredExactlyOnce'
      BY <2>4, <3>1, <1>3 DEF Accepts, DeliveredExactlyOnce
    <3> QED BY <3>2, <3>3
  <2>5. ASSUME NEW b \in Bundles, Delivers(b)
        PROVE  NothingLost' /\ DeliveredExactlyOnce'
    <3>1. b \in bundle_ids /\ outcome[b] = "none" /\ delivered[b] = 0
      BY <2>5, <1>3 DEF Delivers, NothingLost, DeliveredExactlyOnce
    <3>2. NothingLost'
      BY <2>5, <1>3 DEF Delivers, NothingLost
    <3>3. \A c \in Bundles : delivered'[c] = IF c = b /\ b \in Local THEN 1 ELSE delivered[c]
      BY <2>5, <3>1, <1>3 DEF Delivers
    <3>4. DeliveredExactlyOnce'
      BY <2>5, <3>1, <3>3, <1>3 DEF Delivers, DeliveredExactlyOnce
    <3> QED BY <3>2, <3>4
  <2> QED BY <1>2, <2>1, <2>2, <2>3, <2>4, <2>5 DEF Effect
<1> QED BY <1>1, <1>2, <1>4 DEF CustodyInv

LEMMA CustodyHolds == Spec => []CustodyInv
  BY CustodyInvInit, CustodyInvStep, PTL DEF Spec

LEMMA PlacesSingle == TypeOK /\ PlacesDistinct /\ PlacesApart => SingleCopy
<1> SUFFICES ASSUME TypeOK, PlacesDistinct, PlacesApart,
                    NEW p \in DOMAIN HeldBy, NEW q \in DOMAIN HeldBy,
                    NEW i \in DOMAIN HeldBy[p], NEW j \in DOMAIN HeldBy[q],
                    HeldBy[p][i].id = HeldBy[q][j].id
             PROVE  p = q /\ i = j
  BY DEF SingleCopy
<1>1. DOMAIN HeldBy = {"receiver", "forwardQueue", "forwarder", "storage", "retrier"}
  BY DEF HeldBy
<1>2. /\ HeldBy["receiver"] = receiving /\ HeldBy["forwardQueue"] = forwardQueue
      /\ HeldBy["forwarder"] = forwarding /\ HeldBy["storage"] = bundles
      /\ HeldBy["retrier"] = retrying
  BY DEF HeldBy
<1>3. HeldBy[p][i].id \in Ids(HeldBy[p]) /\ HeldBy[q][j].id \in Ids(HeldBy[q])
  BY DEF Ids
<1>4. p = q
  BY <1>1, <1>2, <1>3 DEF PlacesApart, Apart
<1>5. Distinct(HeldBy[p])
  BY <1>1, <1>2 DEF PlacesDistinct
<1>6. i = j
  BY <1>4, <1>5 DEF Distinct
<1> QED BY <1>4, <1>6

(* A node never holds two copies of a bundle, whichever tasks it passes    *)
(* through and however they interleave.                                    *)
THEOREM NoCopies == Spec => []SingleCopy
<1>1. CustodyInv => SingleCopy
  BY PlacesSingle DEF CustodyInv, TypeInv
<1> QED BY <1>1, CustodyHolds, PTL

(* A bundle the node accepted is in one of its lists until one of the      *)
(* reasons to let go of it applies, and in none of them afterwards.        *)
THEOREM NoBundleLost == Spec => []NothingLost
<1>1. CustodyInv => NothingLost
  BY DEF CustodyInv
<1> QED BY <1>1, CustodyHolds, PTL

(* A bundle for a local endpoint is delivered once, however often it       *)
(* arrives and however often it is retried.                                *)
THEOREM DeliveryExactlyOnce == Spec => []DeliveredExactlyOnce
<1>1. CustodyInv => DeliveredExactlyOnce
  BY DEF CustodyInv
<1> QED BY <1>1, CustodyHolds, PTL

(* The tasks, the queues and the store together keep the promises of       *)
(* BundleCustody: each step is a step of it or changes nothing it sees.    *)
THEOREM AgentImplementsCustody == Spec => ImplementsCustody
<1>1. Init => Custody!CustodyInit
  <2> SUFFICES ASSUME Init PROVE Custody!CustodyInit
    OBVIOUS
  <2>1. HeldIds = {}
    BY IdsEmpty DEF Init, StorageInit, HeldIds
  <2> QED BY <2>1 DEF Init, StorageInit, Custody!CustodyInit
<1>2. CustodyInv /\ [Next]_vars => [Custody!CustodyNext]_(Custody!custodyVars)
  <2> SUFFICES ASSUME CustodyInv, [Next]_vars
               PROVE  Custody!CustodyNext \/ UNCHANGED Custody!custodyVars
    OBVIOUS
  <2>1. Effect
    BY StepEffect
  <2>2. NothingLost /\ DeliveredExactlyOnce /\ delivered \in [Bundles -> Nat]
    BY DEF CustodyInv, TypeInv, TypeOK, HistoryTypeOK
  <2>3. CASE Moves
    BY <2>3 DEF Moves, Custody!custodyVars
  <2>4. ASSUME NEW b \in Bundles, NEW reason, Releases(b, reason)
        PROVE  Custody!CustodyNext
    BY <2>4 DEF Releases, Custody!CustodyNext, Custody!Release
  <2>5. ASSUME NEW b \in Bundles, Refuses(b) PROVE Custody!CustodyNext
    BY <2>5 DEF Refuses, Custody!CustodyNext, Custody!Refuse
  <2>6. ASSUME NEW b \in Bundles, Accepts(b) PROVE Custody!CustodyNext
    BY <2>6 DEF Accepts, Custody!CustodyNext, Custody!TakeCustody
  <2>7. ASSUME NEW b \in Bundles, Delivers(b)
        PROVE  Custody!CustodyNext \/ UNCHANGED Custody!custodyVars
    <3>1. CASE b \in Local
      <4>1. delivered[b] = 0
        BY <2>7, <2>2 DEF Delivers, DeliveredExactlyOnce
      <4>2. delivered' = [delivered EXCEPT ![b] = 1]
        BY <2>7, <3>1, <4>1, <2>2 DEF Delivers
      <4> QED BY <2>7, <3>1, <4>1, <4>2 DEF Delivers, Custody!CustodyNext, Custody!Deliver
    <3>2. CASE b \notin Local
      BY <2>7, <3>2 DEF Delivers, Custody!custodyVars
    <3> QED BY <3>1, <3>2
  <2> QED BY <2>1, <2>3, <2>4, <2>5, <2>6, <2>7 DEF Effect
<1> QED BY <1>1, <1>2, CustodyHolds, PTL DEF Spec, ImplementsCustody, Custody!CustodySpec

-----------------------------------------------------------------------------
(* Retry cycles.                                                           *)

(* b is among the first n entries of s. *)
AmongFirst(b, s, n) == \E i \in DOMAIN s : s[i].id = b /\ i <= n

LEMMA CoversRemove ==
  ASSUME NEW s \in Seq(Entry), NEW i \in DOMAIN s, NEW n \in Nat, NEW b,
         AmongFirst(b, s, n), b # s[i].id
  PROVE  AmongFirst(b, RemoveAt(s, i), n)
<1>1. DOMAIN s = 1 .. Len(s) /\ Len(s) \in Nat
  BY IdsMember
<1> DEFINE t == RemoveAt(s, i)
<1>2. /\ t \in Seq(Entry) /\ Len(t) = Len(s) - 1
      /\ \A j \in 1 .. Len(s) - 1 : t[j] = IF j < i THEN s[j] ELSE s[j + 1]
  BY <1>1, RemoveAtPlaces
<1>3. PICK k \in DOMAIN s : s[k].id = b /\ k <= n
  BY DEF AmongFirst
<1> HIDE DEF t
<1>4. DOMAIN t = 1 .. Len(s) - 1
  BY <1>2, IdsMember
<1>5. CASE k < i
  <2>1. k \in DOMAIN t /\ t[k] = s[k]
    BY <1>1, <1>2, <1>4, <1>5
  <2> QED BY <2>1, <1>3 DEF AmongFirst, t
<1>6. CASE k > i
  <2>1. k - 1 \in DOMAIN t /\ t[k - 1] = s[k] /\ k - 1 <= n
    BY <1>1, <1>2, <1>3, <1>4, <1>6
  <2> QED BY <2>1, <1>3 DEF AmongFirst, t
<1> QED BY <1>1, <1>3, <1>5, <1>6

LEMMA CoversAppend ==
  ASSUME NEW s \in Seq(Entry), NEW e \in Entry, NEW n \in Nat, NEW b, AmongFirst(b, s, n)
  PROVE  AmongFirst(b, Append(s, e), n)
<1>1. DOMAIN s = 1 .. Len(s) /\ Len(s) \in Nat
  BY IdsMember
<1>2. /\ DOMAIN Append(s, e) = 1 .. Len(s) + 1
      /\ \A i \in 1 .. Len(s) : Append(s, e)[i] = s[i]
  BY AppendProperties, IdsMember
<1> QED BY <1>1, <1>2 DEF AmongFirst

LEMMA CoversPop ==
  ASSUME NEW s \in Seq(Entry), NEW m \in 0 .. Len(s), NEW n \in Nat, m <= n, NEW b,
         AmongFirst(b, s, n), b \notin Ids(SubSeq(s, 1, m))
  PROVE  AmongFirst(b, SubSeq(s, m + 1, Len(s)), n - m)
<1> DEFINE a == SubSeq(s, 1, m)
           z == SubSeq(s, m + 1, Len(s))
<1>1. DOMAIN s = 1 .. Len(s) /\ Len(s) \in Nat /\ m \in Nat /\ m <= Len(s)
  BY IdsMember
<1>2. /\ a \in Seq(Entry) /\ Len(a) = m /\ \A i \in 1 .. m : a[i] = s[i]
      /\ z \in Seq(Entry) /\ Len(z) = Len(s) - m /\ \A i \in 1 .. Len(s) - m : z[i] = s[i + m]
  BY IdsSplit
<1>3. PICK k \in DOMAIN s : s[k].id = b /\ k <= n
  BY DEF AmongFirst
<1> HIDE DEF a, z
<1>4. k > m
  <2>1. SUFFICES ASSUME k <= m PROVE FALSE
    BY <1>1
  <2>2. k \in 1 .. Len(a) /\ a[k].id = b
    BY <2>1, <1>1, <1>2, <1>3
  <2>3. b \in Ids(a)
    BY <2>2, <1>2, IdsMember
  <2> QED BY <2>3 DEF a
<1>5. k - m \in 1 .. Len(z) /\ z[k - m] = s[k] /\ k - m <= n - m
  BY <1>1, <1>2, <1>3, <1>4
<1>6. DOMAIN z = 1 .. Len(z)
  BY <1>2, IdsMember
<1> QED BY <1>3, <1>5, <1>6 DEF AmongFirst, z

CycleInv == TypeInv /\ CycleCovers

LEMMA CycleInvInit == Init => CycleInv
  BY TypeInit DEF Init, CycleInv, CycleCovers

LEMMA CycleInvStep == CycleInv /\ [Next]_vars => CycleInv'
<1> SUFFICES ASSUME CycleInv, [Next]_vars PROVE CycleCovers'
  BY TypeStep DEF CycleInv
<1> USE DEF storageVars, agentVars, receiverVars, forwarderVars, retrierVars, historyVars
<1>1. /\ bundles \in Seq(Entry) /\ bundlesToReturn \in Nat
      /\ forwarding \in Seq(Entry) /\ cycleRest \subseteq Bundles
      /\ forwarderAt # "idle" => forwarding[1] \in Entry
  BY IdsSingle, Sizes
     DEF CycleInv, TypeInv, TypeOK, StorageTypeOK, ForwarderTypeOK, HistoryTypeOK
<1>2. \A b \in cycleRest : AmongFirst(b, bundles, bundlesToReturn)
  BY DEF CycleInv, CycleCovers, AmongFirst
<1>3. ASSUME \A b \in cycleRest' : AmongFirst(b, bundles', bundlesToReturn')
      PROVE  CycleCovers'
  BY <1>3 DEF CycleCovers, AmongFirst
<1>4. CASE UNCHANGED <<bundles, bundlesToReturn, cycleRest>>
  BY <1>2, <1>3, <1>4 DEF AmongFirst
<1>5. CASE DelayBundle \/ InsertDelayed
  <2>1. /\ forwarderAt # "idle" /\ bundles' = Append(bundles, forwarding[1])
        /\ UNCHANGED <<bundlesToReturn, cycleRest>>
    BY <1>5 DEF DelayBundle, InsertDelayed, Insert
  <2> QED BY <2>1, <1>1, <1>2, <1>3, CoversAppend
<1>6. CASE EvictOldest
  <2>1. PICK i \in DOMAIN bundles :
          /\ bundles' = RemoveAt(bundles, i)
          /\ cycleRest' = cycleRest \ {bundles[i].id}
    BY <1>6 DEF EvictOldest, RemoveEntry
  <2>2. UNCHANGED bundlesToReturn
    BY <1>6 DEF EvictOldest
  <2> QED BY <2>1, <2>2, <1>1, <1>2, <1>3, CoversRemove
<1>7. ASSUME NEW c \in Cancellable, CancelStored(c) PROVE CycleCovers'
  <2>1. PICK i \in DOMAIN bundles : bundles[i].id = c /\ bundles' = RemoveAt(bundles, i)
    BY <1>7 DEF CancelStored, IsFirstWithId, RemoveEntry
  <2>2. cycleRest' = cycleRest \ {c} /\ UNCHANGED bundlesToReturn
    BY <1>7 DEF CancelStored
  <2> QED BY <2>1, <2>2, <1>1, <1>2, <1>3, CoversRemove
<1>8. CASE StartCycle
  <2>1. cycleRest' = Ids(bundles) /\ bundles' = bundles /\ bundlesToReturn' = Len(bundles)
    BY <1>8 DEF StartCycle, beginRetryCycle
  <2>2. \A b \in Ids(bundles) : AmongFirst(b, bundles, Len(bundles))
    BY <1>1, IdsMember DEF AmongFirst
  <2> QED BY <2>1, <2>2, <1>3
<1>9. CASE GetBundlesRetry
  <2> DEFINE n == BatchLength
  <2>1. n \in 0 .. Len(bundles) /\ n <= bundlesToReturn
    BY <1>9, <1>1, IdsMember, Sizes DEF GetBundlesRetry, BatchLength
  <2>2. /\ bundles' = SubSeq(bundles, n + 1, Len(bundles))
        /\ bundlesToReturn' = bundlesToReturn - n
        /\ cycleRest' = cycleRest \ Ids(SubSeq(bundles, 1, n))
    BY <1>9 DEF GetBundlesRetry, PopBatch, Batch
  <2> HIDE DEF n
  <2> QED BY <2>1, <2>2, <1>1, <1>2, <1>3, CoversPop
<1>10. ASSUME NEW e \in Entry, Arrive(e) PROVE UNCHANGED <<bundles, bundlesToReturn, cycleRest>>
  BY <1>10 DEF Arrive
<1>11. CASE Receiver
  BY <1>11, <1>4
     DEF Receiver, DiscardDuplicate, RefuseBundle, AcceptBundle, DeliverLocally, SendReply, Dispatch
<1>12. CASE TakeForForwarding \/ ForwardingSuccess \/ DelayBundleFull \/ EvictFromEmptyList
  BY <1>12, <1>4 DEF TakeForForwarding, ForwardingSuccess, DelayBundleFull, EvictFromEmptyList
<1>13. CASE GetFromEmptyList \/ RetryBundle \/ DropExpired \/ EndRetryCycle
  BY <1>13, <1>4 DEF GetFromEmptyList, RetryBundle, DropExpired, EndRetryCycle
<1>14. CASE UNCHANGED vars
  BY <1>14, <1>4 DEF vars
<1> QED
  BY <1>4, <1>5, <1>6, <1>7, <1>8, <1>9, <1>10, <1>11, <1>12, <1>13, <1>14
     DEF Next, Forwarder, Retrier

(* A retry cycle leaves no bundle out, although evictions, cancellations   *)
(* and insertions shift the list while bundlesToReturn stays as it is.     *)
THEOREM CycleLeavesNoneOut == Spec => []CycleCovers
<1>1. Spec => []CycleInv
  BY CycleInvInit, CycleInvStep, PTL DEF Spec
<1>2. CycleInv => CycleCovers
  BY DEF CycleInv
<1> QED BY <1>1, <1>2, PTL

-----------------------------------------------------------------------------
(* The size a store needs.                                                 *)

(* Bundles that are in the store or on their way back to the forwarder. *)
Around == Len(bundles) + Len(retrying) + Len(forwardQueue)

(* Between deleteOldest and the insertion the store is short of one bundle *)
(* that the counter may still stand for.                                   *)
Missing == IF forwarderAt = "insert" THEN 1 ELSE 0

CapacityInv ==
  /\ TypeInv
  /\ fault = "none"
  /\ bundlesToReturn <= Len(bundles) + Missing
  /\ forwarderAt = "evict" => Around >= MaxStored
  /\ forwarderAt = "insert" => Around >= MaxStored - 1

LEMMA CapacityInit == Init => CapacityInv
  BY TypeInit, EmptySeq DEF Init, StorageInit, CapacityInv, Missing

LEMMA CapacityStep ==
  ASSUME Expiring = {}, Cancellable = {}, MaxStored > FwdCap + BatchSize,
         CapacityInv, [Next]_vars
  PROVE  CapacityInv'
<1> USE DEF storageVars, agentVars, receiverVars, forwarderVars, retrierVars, historyVars, NoFault
<1>1. TypeInv'
  BY TypeStep DEF CapacityInv
<1>2. /\ bundles \in Seq(Entry) /\ retrying \in Seq(Entry) /\ forwardQueue \in Seq(Entry)
      /\ forwarding \in Seq(Entry) /\ receiving \in Seq(Entry)
      /\ Len(bundles) \in Nat /\ Len(retrying) \in Nat /\ Len(forwardQueue) \in Nat
      /\ Len(forwardQueue) <= FwdCap /\ Len(retrying) <= BatchSize
      /\ bundlesToReturn \in Nat
      /\ forwarderAt # "idle" => forwarding[1] \in Entry
      /\ receiverAt # "idle" => receiving[1] \in Entry
  BY IdsSingle, LenProperties, Sizes
     DEF CapacityInv, TypeInv, TypeOK, StorageTypeOK, QueueTypeOK, ReceiverTypeOK,
         ForwarderTypeOK, RetrierTypeOK
<1>3. /\ fault = "none"
      /\ bundlesToReturn <= Len(bundles) + Missing
      /\ forwarderAt = "evict" => Around >= MaxStored
      /\ forwarderAt = "insert" => Around >= MaxStored - 1
  BY DEF CapacityInv
<1>4. ASSUME fault' = "none",
             bundlesToReturn' <= Len(bundles') + Missing',
             forwarderAt' = "evict" => Around' >= MaxStored,
             forwarderAt' = "insert" => Around' >= MaxStored - 1
      PROVE  CapacityInv'
  BY <1>1, <1>4 DEF CapacityInv
<1> HIDE DEF CapacityInv
<1>5. CASE UNCHANGED <<bundles, bundlesToReturn, forwardQueue, forwarderAt, retrying, fault>>
  BY <1>3, <1>4, <1>5 DEF Around, Missing
<1>6. ASSUME NEW e \in Entry, Arrive(e) PROVE CapacityInv'
  BY <1>6, <1>5 DEF Arrive
<1>7. CASE DiscardDuplicate \/ RefuseBundle \/ AcceptBundle \/ DeliverLocally \/ SendReply
  BY <1>7, <1>5 DEF DiscardDuplicate, RefuseBundle, AcceptBundle, DeliverLocally, SendReply
<1>8. CASE Dispatch
  <2>1. /\ forwardQueue' = Append(forwardQueue, receiving[1]) /\ receiverAt # "idle"
        /\ UNCHANGED <<bundles, bundlesToReturn, forwarderAt, retrying, fault>>
    BY <1>8 DEF Dispatch
  <2>2. Len(forwardQueue') = Len(forwardQueue) + 1
    BY <2>1, <1>2, IdsAppend
  <2> QED BY <2>1, <2>2, <1>2, <1>3, <1>4, Sizes, SMTT(20) DEF Around, Missing
<1>9. CASE TakeForForwarding \/ ForwardingSuccess
  BY <1>9, <1>3, <1>4 DEF TakeForForwarding, ForwardingSuccess, Missing
<1>10. CASE DelayBundle
  <2>1. /\ bundles' = Append(bundles, forwarding[1])
        /\ forwarderAt = "route" /\ forwarderAt' = "idle"
        /\ UNCHANGED <<bundlesToReturn, fault>>
    BY <1>10 DEF DelayBundle, Insert
  <2>2. Len(bundles') = Len(bundles) + 1
    BY <2>1, <1>2, IdsAppend
  <2> QED BY <2>1, <2>2, <1>2, <1>3, <1>4 DEF Missing
<1>11. CASE DelayBundleFull
  <2>1. /\ Len(bundles) >= MaxStored
        /\ forwarderAt = "route" /\ forwarderAt' = "evict"
        /\ UNCHANGED <<bundles, retrying, forwardQueue, bundlesToReturn, fault>>
    BY <1>11, <1>2, Sizes DEF DelayBundleFull, HasRoom
  <2> QED BY <2>1, <1>2, <1>3, <1>4, Sizes DEF Around, Missing
<1>12. CASE EvictOldest
  <2>1. PICK i \in DOMAIN bundles : bundles' = RemoveAt(bundles, i)
    BY <1>12 DEF EvictOldest, RemoveEntry
  <2>2. Len(bundles') = Len(bundles) - 1
    BY <2>1, <1>2, IdsRemoveAt
  <2>3. /\ forwarderAt = "evict" /\ forwarderAt' = "insert"
        /\ UNCHANGED <<retrying, forwardQueue, bundlesToReturn, fault>>
    BY <1>12 DEF EvictOldest
  <2> QED BY <2>2, <2>3, <1>2, <1>3, <1>4, Sizes DEF Around, Missing
<1>13. CASE EvictFromEmptyList
  <2>1. forwarderAt = "evict" /\ Len(bundles) = 0
    BY <1>13, EmptySeq DEF EvictFromEmptyList
  <2> QED BY <2>1, <1>2, <1>3, Sizes DEF Around, Missing
<1>14. CASE InsertDelayed
  <2>1. /\ bundles' = Append(bundles, forwarding[1])
        /\ forwarderAt = "insert" /\ forwarderAt' = "idle"
        /\ UNCHANGED <<bundlesToReturn, fault>>
    BY <1>14 DEF InsertDelayed, Insert
  <2>2. Len(bundles') = Len(bundles) + 1
    BY <2>1, <1>2, IdsAppend
  <2> QED BY <2>1, <2>2, <1>2, <1>3, <1>4 DEF Missing
<1>15. CASE StartCycle
  <2>1. /\ bundlesToReturn' = Len(bundles)
        /\ UNCHANGED <<bundles, retrying, forwardQueue, forwarderAt, fault>>
    BY <1>15 DEF StartCycle, beginRetryCycle
  <2> QED BY <2>1, <1>2, <1>3, <1>4, Sizes DEF Around, Missing
<1>16. CASE GetBundlesRetry
  <2> DEFINE n == BatchLength
  <2>1. n \in 0 .. Len(bundles) /\ n <= bundlesToReturn
    BY <1>16, <1>2, Sizes DEF GetBundlesRetry, BatchLength
  <2>2. /\ retrying = <<>> /\ retrying' = SubSeq(bundles, 1, n)
        /\ bundles' = SubSeq(bundles, n + 1, Len(bundles))
        /\ bundlesToReturn' = bundlesToReturn - n
        /\ UNCHANGED <<forwardQueue, forwarderAt, fault>>
    BY <1>16 DEF GetBundlesRetry, PopBatch, Batch
  <2> HIDE DEF n
  <2>3. Len(retrying') = n /\ Len(bundles') = Len(bundles) - n /\ Len(retrying) = 0
    BY <2>1, <2>2, <1>2, IdsSplit, EmptySeq
  <2>4. n \in Nat
    BY <2>1, <1>2
  <2>5. Around' = (Len(bundles) - n) + n + Len(forwardQueue)
    BY <2>2, <2>3 DEF Around
  <2>6. Around = Len(bundles) + 0 + Len(forwardQueue)
    BY <2>3 DEF Around
  <2>7. Around' = Around
    BY <2>4, <2>5, <2>6, <1>2
  <2>8. Missing' = Missing /\ Missing \in {0, 1}
    BY <2>2 DEF Missing
  <2>9. bundlesToReturn' <= Len(bundles') + Missing'
    <3>1. bundlesToReturn - n <= (Len(bundles) - n) + Missing
      BY <2>4, <2>8, <1>2, <1>3
    <3> QED BY <3>1, <2>2, <2>3, <2>8
  <2> QED BY <2>2, <2>7, <2>9, <1>3, <1>4
<1>17. CASE GetFromEmptyList
  <2>1. /\ Len(retrying) = 0 /\ BatchLength > Len(bundles)
    BY <1>17, EmptySeq DEF GetFromEmptyList
  <2>2. BatchLength <= BatchSize /\ BatchLength <= bundlesToReturn /\ BatchLength \in Nat
    BY <1>2, Sizes DEF BatchLength
  <2>3. forwarderAt = "insert"
    BY <2>1, <2>2, <1>2, <1>3 DEF Missing
  <2>4. Len(bundles) + Len(retrying) + Len(forwardQueue) >= MaxStored - 1
    BY <2>3, <1>3 DEF Around, Missing
  <2> QED BY <2>1, <2>2, <2>4, <1>2, Sizes
<1>18. CASE RetryBundle
  <2>1. /\ retrying # <<>> /\ retrying' = Tail(retrying)
        /\ forwardQueue' = Append(forwardQueue, Head(retrying))
        /\ UNCHANGED <<bundles, bundlesToReturn, forwarderAt, fault>>
    BY <1>18 DEF RetryBundle
  <2>2. Len(retrying') = Len(retrying) - 1 /\ Len(forwardQueue') = Len(forwardQueue) + 1
    BY <2>1, <1>2, IdsHeadTail, IdsAppend
  <2> QED BY <2>1, <2>2, <1>2, <1>3, <1>4 DEF Around, Missing
<1>19. CASE DropExpired
  BY <1>19 DEF DropExpired
<1>20. CASE EndRetryCycle
  BY <1>20, <1>5 DEF EndRetryCycle
<1>21. CASE UNCHANGED vars
  BY <1>21, <1>5 DEF vars
<1> QED
  BY <1>6, <1>7, <1>8, <1>9, <1>10, <1>11, <1>12, <1>13, <1>14, <1>15, <1>16, <1>17,
     <1>18, <1>19, <1>20, <1>21
     DEF Next, Receiver, Forwarder, Retrier

(* A store for more bundles than the forward queue and a retry batch       *)
(* together never has getBundlesRetry or deleteOldest take an entry from   *)
(* an empty list, as long as no bundle expires or is cancelled.            *)
THEOREM CapacitySuffices ==
  ASSUME Expiring = {}, Cancellable = {}, MaxStored > FwdCap + BatchSize
  PROVE  Spec => []NoEmptyAccess
<1>1. CapacityInv /\ [Next]_vars => CapacityInv'
  BY CapacityStep
<1>2. CapacityInv => NoEmptyAccess
  BY DEF CapacityInv, NoEmptyAccess
<1> QED BY <1>1, <1>2, CapacityInit, PTL DEF Spec

=============================================================================
