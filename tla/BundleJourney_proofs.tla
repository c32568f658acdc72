------------------------- MODULE BundleJourney_proofs -------------------------
(***************************************************************************)
(* Proofs about BundleJourney, for any line of nodes, any GoodBundles to   *)
(* begin with, and any number of transmissions, storings and disturbances: *)
(* that the bundle stays what it was, that its counts are true, that       *)
(* records keep the neighbours, and that polls take what is there.         *)
(*                                                                         *)
(* From the bottom up: induction and sequences; blocks and bundles that    *)
(* are read as they were written; copies on the line and what a poll makes *)
(* of them; cargo and counts; one lemma per action; the theorems.          *)
(***************************************************************************)
EXTENDS GoodBundles, FiniteSetTheorems, SequenceTheorems, WellFoundedInduction, TLAPS

-----------------------------------------------------------------------------
(* Induction and sequences.                                                *)

(* Sets of numbers have a least element: the sets 0 .. n - 1 are finite, and *)
(* inclusion is well-founded on finite sets.                                 *)
LEMMA LeastNatural ==
  ASSUME NEW T \in SUBSET Nat, T # {}
  PROVE  \E x \in T : \A y \in T : x <= y
<1> DEFINE Below(n) == 0 .. n - 1
           F == {Below(n) : n \in T}
           R == StrictSubsetOrdering(Nat)
<1>1. \A n \in Nat : IsFiniteSet(Below(n))
  BY FS_Interval
<1>2. F \subseteq FiniteSubsetsOf(Nat) /\ F # {}
  <2>1. \A n \in Nat : Below(n) \in SUBSET Nat
    OBVIOUS
  <2> HIDE DEF Below
  <2> QED BY <1>1, <2>1 DEF FiniteSubsetsOf
<1>3. IsWellFoundedOn(R, FiniteSubsetsOf(Nat))
  BY FS_StrictSubsetOrderingWellFounded
<1> HIDE DEF R, F
<1>4. PICK B \in F : \A C \in F : ~(<<C, B>> \in R)
  BY <1>2, <1>3, WFMin, Zenon
<1>5. PICK x \in T : B = Below(x)
  BY DEF F
<1>6. ASSUME NEW y \in T, y < x PROVE FALSE
  <2>1. Below(y) \subseteq Below(x) /\ y \in Below(x) /\ y \notin Below(y)
    BY <1>6
  <2>2. Below(y) \in SUBSET Nat /\ Below(x) \in SUBSET Nat
    OBVIOUS
  <2>3. <<Below(y), Below(x)>> \in R
    BY <2>1, <2>2 DEF R, StrictSubsetOrdering
  <2> QED BY <1>4, <1>5, <2>3 DEF F
<1> QED BY <1>6

(* Induction, over a set of numbers. *)
LEMMA SetInduction ==
  ASSUME NEW n \in Nat, NEW T, 0 \in T, \A k \in 0 .. n - 1 : k \in T => k + 1 \in T
  PROVE  0 .. n \subseteq T
<1> DEFINE F == {k \in 0 .. n : k \notin T}
<1> SUFFICES ASSUME F # {} PROVE FALSE
  OBVIOUS
<1>1. PICK x \in F : \A y \in F : x <= y
  <2>1. F \in SUBSET Nat
    OBVIOUS
  <2> HIDE DEF F
  <2> QED BY <2>1, LeastNatural
<1>2. x \in 1 .. n /\ x - 1 \in 0 .. n - 1
  BY <1>1
<1>3. x - 1 \in T
  BY <1>1, <1>2
<1>4. x - 1 + 1 = x
  BY <1>2
<1> QED BY <1>1, <1>2, <1>3, <1>4

LEMMA MaxOfTop ==
  ASSUME NEW k \in Nat, NEW s \in SUBSET (1 .. k), k \in s
  PROVE  Max(s) = k
<1>1. k \in s /\ \A y \in s : k >= y
  OBVIOUS
<1>2. \A x \in s : (\A y \in s : x >= y) => x = k
  OBVIOUS
<1> QED BY <1>1, <1>2 DEF Max

LEMMA SeqSets == \A s : IsSeq(s) <=> \E S : s \in Seq(S)
<1>1. ASSUME NEW s, IsSeq(s) PROVE \E S : s \in Seq(S)
  <2> DEFINE n == Len(s)
             S == {s[i] : i \in 1 .. n}
  <2>1. n \in Nat /\ s = [i \in 1 .. n |-> s[i]]
    BY <1>1 DEF IsSeq
  <2>2. \A i \in 1 .. n : s[i] \in S
    OBVIOUS
  <2> HIDE DEF n, S
  <2>3. s \in [1 .. n -> S]
    BY <2>1, <2>2
  <2> QED BY <2>1, <2>3, SeqDef
<1>2. ASSUME NEW s, NEW S, s \in Seq(S) PROVE IsSeq(s)
  BY <1>2, LenProperties DEF IsSeq
<1> QED BY <1>1, <1>2

LEMMA SeqBasics ==
  ASSUME NEW s, IsSeq(s)
  PROVE  Len(s) \in Nat /\ DOMAIN s = 1 .. Len(s)
  BY SeqSets

LEMMA SeqEquals ==
  ASSUME NEW s, NEW t, IsSeq(s), IsSeq(t), Len(s) = Len(t),
         \A i \in 1 .. Len(s) : s[i] = t[i]
  PROVE  s = t
<1>1. PICK S : s \in Seq(S)
  BY SeqSets
<1>2. PICK T : t \in Seq(T)
  BY SeqSets
<1>3. s \in Seq(S \cup T) /\ t \in Seq(S \cup T)
  BY <1>1, <1>2, SeqMonotonic
<1> QED BY <1>3, SeqEqual

LEMMA SeqOfFunction ==
  ASSUME NEW n \in Nat, NEW f, f = [i \in 1 .. n |-> f[i]]
  PROVE  IsSeq(f) /\ Len(f) = n
<1> DEFINE S == {f[i] : i \in 1 .. n}
<1>1. f \in [1 .. n -> S]
  OBVIOUS
<1>2. f \in Seq(S)
  BY <1>1, SeqDef
<1>3. DOMAIN f = 1 .. n /\ DOMAIN f = 1 .. Len(f) /\ Len(f) \in Nat
  BY <1>1, <1>2, LenProperties
<1>4. ASSUME NEW k \in Nat, 1 .. k = 1 .. n PROVE k = n
  <2>1. ~(k < n)
    <3>1. k < n => n \in 1 .. n /\ n \notin 1 .. k
      OBVIOUS
    <3> QED BY <1>4, <3>1
  <2>2. ~(n < k)
    <3>1. n < k => k \in 1 .. k /\ k \notin 1 .. n
      OBVIOUS
    <3> QED BY <1>4, <3>1
  <2> QED BY <2>1, <2>2
<1> QED BY <1>2, <1>3, <1>4, SeqSets

LEMMA SeqConcat ==
  ASSUME NEW s, NEW t, IsSeq(s), IsSeq(t)
  PROVE  /\ IsSeq(s \o t) /\ Len(s \o t) = Len(s) + Len(t)
         /\ \A i \in 1 .. Len(s) : (s \o t)[i] = s[i]
         /\ \A i \in 1 .. Len(t) : (s \o t)[Len(s) + i] = t[i]
<1>1. PICK S : s \in Seq(S)
  BY SeqSets
<1>2. PICK T : t \in Seq(T)
  BY SeqSets
<1>3. s \in Seq(S \cup T) /\ t \in Seq(S \cup T)
  BY <1>1, <1>2, SeqMonotonic
<1>4. /\ s \o t \in Seq(S \cup T) /\ Len(s \o t) = Len(s) + Len(t)
      /\ \A i \in 1 .. Len(s) + Len(t) :
           (s \o t)[i] = IF i <= Len(s) THEN s[i] ELSE t[i - Len(s)]
  BY <1>3, ConcatProperties
<1>5. Len(s) \in Nat /\ Len(t) \in Nat
  BY SeqBasics
<1>6. \A i \in 1 .. Len(t) : (s \o t)[Len(s) + i] = t[i]
  <2> TAKE i \in 1 .. Len(t)
  <2>1. Len(s) + i \in 1 .. Len(s) + Len(t) /\ ~(Len(s) + i <= Len(s))
        /\ Len(s) + i - Len(s) = i
    BY <1>5
  <2> QED BY <1>4, <2>1
<1>7. IsSeq(s \o t)
  BY <1>4, SeqSets
<1> QED BY <1>4, <1>5, <1>6, <1>7

LEMMA SeqPart ==
  ASSUME NEW s, IsSeq(s), NEW m \in Int, NEW n \in Int, 1 <= m, n <= Len(s)
  PROVE  /\ IsSeq(SubSeq(s, m, n))
         /\ Len(SubSeq(s, m, n)) = IF m <= n THEN n - m + 1 ELSE 0
         /\ \A i \in 1 .. n - m + 1 : SubSeq(s, m, n)[i] = s[m + i - 1]
<1>1. PICK S : s \in Seq(S)
  BY SeqSets
<1>2. \A i \in m .. n : s[i] \in S
  BY <1>1
<1>3. /\ SubSeq(s, m, n) \in Seq(S)
      /\ Len(SubSeq(s, m, n)) = IF m <= n THEN n - m + 1 ELSE 0
      /\ \A i \in 1 .. n - m + 1 : SubSeq(s, m, n)[i] = s[m + i - 1]
  BY <1>2, SubSeqProperties
<1>4. IsSeq(SubSeq(s, m, n))
  BY <1>3, SeqSets
<1> QED BY <1>3, <1>4

LEMMA SeqAppend ==
  ASSUME NEW s, NEW e, IsSeq(s)
  PROVE  /\ IsSeq(Append(s, e)) /\ Len(Append(s, e)) = Len(s) + 1
         /\ \A i \in 1 .. Len(s) : Append(s, e)[i] = s[i]
         /\ Append(s, e)[Len(s) + 1] = e
<1>1. PICK S : s \in Seq(S)
  BY SeqSets
<1>2. s \in Seq(S \cup {e}) /\ e \in S \cup {e}
  BY <1>1, SeqMonotonic
<1>3. IsSeq(Append(s, e))
  BY <1>2, AppendProperties, SeqSets
<1> QED BY <1>2, <1>3, AppendProperties

LEMMA SeqTail ==
  ASSUME NEW s, IsSeq(s), s # <<>>
  PROVE  /\ IsSeq(Tail(s)) /\ Len(Tail(s)) = Len(s) - 1 /\ Len(s) >= 1
         /\ \A i \in 1 .. Len(s) - 1 : Tail(s)[i] = s[i + 1]
         /\ Head(s) = s[1]
<1>1. PICK S : s \in Seq(S)
  BY SeqSets
<1>2. Len(s) \in Nat /\ Len(s) # 0
  BY <1>1, EmptySeq
<1>3. /\ Tail(s) \in Seq(S) /\ Len(Tail(s)) = Len(s) - 1
      /\ \A i \in 1 .. Len(Tail(s)) : Tail(s)[i] = s[i + 1]
  BY <1>1, HeadTailProperties
<1>4. Head(s) = s[1]
  BY <1>1
<1>5. IsSeq(Tail(s))
  BY <1>3, SeqSets
<1> QED BY <1>2, <1>3, <1>4, <1>5

LEMMA SeqEmpty == IsSeq(<<>>) /\ Len(<<>>) = 0
  BY EmptySeq, SeqSets

LEMMA SeqWithout ==
  ASSUME NEW s, IsSeq(s), NEW p \in 1 .. Len(s)
  PROVE  /\ IsSeq(RemoveAt(s, p)) /\ Len(RemoveAt(s, p)) = Len(s) - 1
         /\ \A i \in 1 .. Len(s) - 1 :
              RemoveAt(s, p)[i] = IF i < p THEN s[i] ELSE s[i + 1]
<1> DEFINE a == SubSeq(s, 1, p - 1)
           z == SubSeq(s, p + 1, Len(s))
<1>1. Len(s) \in Nat
  BY SeqBasics
<1>2. /\ IsSeq(a) /\ Len(a) = p - 1
      /\ \A i \in 1 .. p - 1 : a[i] = s[i]
  BY <1>1, SeqPart
<1>3. /\ IsSeq(z) /\ Len(z) = Len(s) - p
      /\ \A i \in 1 .. Len(s) - p : z[i] = s[p + i]
  BY <1>1, SeqPart
<1>4. RemoveAt(s, p) = a \o z
  BY DEF RemoveAt
<1> HIDE DEF a, z
<1>5. /\ IsSeq(a \o z) /\ Len(a \o z) = Len(a) + Len(z)
      /\ \A i \in 1 .. Len(a) : (a \o z)[i] = a[i]
      /\ \A i \in 1 .. Len(z) : (a \o z)[Len(a) + i] = z[i]
  BY <1>2, <1>3, SeqConcat
<1>6. ASSUME NEW i \in 1 .. Len(s) - 1
      PROVE  (a \o z)[i] = IF i < p THEN s[i] ELSE s[i + 1]
  <2>1. CASE i < p
    BY <1>2, <1>5, <2>1
  <2>2. CASE ~(i < p)
    <3>1. i - (p - 1) \in 1 .. Len(s) - p /\ Len(a) + (i - (p - 1)) = i
          /\ p + (i - (p - 1)) = i + 1
      BY <1>1, <1>2, <2>2
    <3> QED BY <1>3, <1>5, <2>2, <3>1
  <2> QED BY <2>1, <2>2
<1> QED BY <1>1, <1>2, <1>3, <1>4, <1>5, <1>6

(* The first element that passes a test, as SelectInSeq gives it. *)
LEMMA LeastOf ==
  ASSUME NEW n \in Nat, NEW T \in SUBSET (1 .. n), T # {}
  PROVE  Min(T) \in T /\ \A y \in T : Min(T) <= y
<1>1. T \in SUBSET Nat
  OBVIOUS
<1>2. \E x \in T : \A y \in T : x <= y
  BY <1>1, LeastNatural
<1> QED BY <1>2 DEF Min

-----------------------------------------------------------------------------
LEMMA CrcOfItem ==
  ASSUME NEW n, NEW f, f.crcType \in CrcTypes
  PROVE  CrcHolds(Item(n, f)) = TRUE
  BY DEF CrcHolds, Item, checkCRC, calculateCRC, CrcTypes, X25, Crc32c

(* A changed block with a CRC does not pass. *)
LEMMA CrcFindsChange ==
  ASSUME NEW n, NEW f, NEW g, f.crcType \in {X25, Crc32c}, g.crcType = f.crcType,
         CrcHolds([Item(n, f) EXCEPT !.fields = g])
  PROVE  g = f
<1>1. [Item(n, f) EXCEPT !.fields = g] = [is |-> "block", len |-> n, fields |-> g, crc |-> f]
  BY DEF Item, calculateCRC
<1>2. CrcHolds([is |-> "block", len |-> n, fields |-> g, crc |-> f]) => g = f
  BY DEF CrcHolds, checkCRC, calculateCRC, X25, Crc32c
<1> QED BY <1>1, <1>2

LEMMA PrimaryReadsBack ==
  ASSUME NEW p, GoodPrimary(p)
  PROVE  /\ PrimaryToCbor(p).is = "block" /\ PrimaryToCbor(p).len \notin {5, 6}
         /\ fromCborPrimary(PrimaryToCbor(p)) = p
<1> DEFINE item == PrimaryToCbor(p)
           f == [version |-> p.version, flags |-> p.flags, crcType |-> p.crcType,
                 dest |-> EidToCbor(p.dest), source |-> EidToCbor(p.source),
                 reportTo |-> EidToCbor(p.reportTo), timestamp |-> p.timestamp,
                 lifetime |-> p.lifetime,
                 fragment |-> IF IsFragment \in p.flags THEN p.fragment ELSE <<>>]
           n == 8 + (IF p.crcType = 0 THEN 0 ELSE 1)
                  + (IF IsFragment \in p.flags THEN 2 ELSE 0)
<1>1. item = Item(n, f)
  BY DEF PrimaryToCbor
<1>2. n \notin {5, 6} /\ (n \in {10, 11} <=> IsFragment \in p.flags)
  OBVIOUS
<1>3. p.version = 7 /\ f.crcType \in CrcTypes
  BY DEF GoodPrimary
<1>4. /\ EidFromCbor(f.dest) = p.dest /\ p.dest.valid
      /\ EidFromCbor(f.source) = p.source /\ p.source.valid
      /\ EidFromCbor(f.reportTo) = p.reportTo /\ p.reportTo.valid
  BY DEF GoodPrimary, Readable
<1> HIDE DEF n
<1>5. item.fields = f /\ item.is = "block" /\ item.len = n /\ CrcHolds(item) = TRUE
  <2>1. CrcHolds(Item(n, f)) = TRUE
    BY <1>3, CrcOfItem
  <2> QED BY <1>1, <2>1 DEF Item
<1>6. ReadEids(f) = <<p.dest, p.source, p.reportTo>>
  BY <1>4 DEF ReadEids
<1>7. ReadFragment(item) = p.fragment
  <2>1. CASE IsFragment \in p.flags
    <3>1. item.fields.fragment = p.fragment
      BY <1>5, <2>1
    <3> QED BY <1>2, <1>5, <2>1, <3>1 DEF ReadFragment
  <2>2. CASE IsFragment \notin p.flags
    BY <1>2, <1>5, <2>2 DEF ReadFragment, GoodPrimary
  <2> QED BY <2>1, <2>2
<1> DEFINE q == [PrimaryBlock(p.dest, p.source, p.reportTo, p.timestamp, p.lifetime, p.crcType)
                   EXCEPT !.valid = TRUE, !.flags = p.flags, !.fragment = p.fragment]
<1>8. fromCborPrimary(item) = q
  <2>1. /\ f.version = 7 /\ f.timestamp = p.timestamp /\ f.lifetime = p.lifetime
        /\ f.crcType = p.crcType /\ f.flags = p.flags
    BY <1>3
  <2> HIDE DEF f, item
  <2> QED BY <1>4, <1>5, <1>6, <1>7, <2>1 DEF fromCborPrimary
<1>9. q = p
  <2> DEFINE yes == TRUE
             dest == p.dest
             source == p.source
             report == p.reportTo
             stamp == p.timestamp
             life == p.lifetime
             crc == p.crcType
             flags == p.flags
             part == p.fragment
             Made(fl, fr) ==
               [valid |-> yes, version |-> 7, flags |-> fl, crcType |-> crc, dest |-> dest,
                source |-> source, reportTo |-> report, timestamp |-> stamp,
                lifetime |-> life, fragment |-> fr]
             r == PrimaryBlock(dest, source, report, stamp, life, crc)
  <2>1. r = Made({}, <<0, 0>>)
    BY DEF PrimaryBlock
  <2>2. q = [[[r EXCEPT !.valid = yes] EXCEPT !.flags = flags] EXCEPT !.fragment = part]
    OBVIOUS
  <2>3. p = Made(flags, part)
    BY DEF GoodPrimary
  <2> HIDE DEF yes, dest, source, report, stamp, life, crc, flags, part, r, q
  <2>4. [Made({}, <<0, 0>>) EXCEPT !.valid = yes] = Made({}, <<0, 0>>)
    OBVIOUS
  <2>5. [Made({}, <<0, 0>>) EXCEPT !.flags = flags] = Made(flags, <<0, 0>>)
    OBVIOUS
  <2>6. [Made(flags, <<0, 0>>) EXCEPT !.fragment = part] = Made(flags, part)
    OBVIOUS
  <2> HIDE DEF Made
  <2> QED BY <2>1, <2>2, <2>3, <2>4, <2>5, <2>6
<1> QED BY <1>2, <1>5, <1>8, <1>9

LEMMA BlockReadsBack ==
  ASSUME NEW b, IsBlock(b)
  PROVE  /\ BlockToCbor(b).is = "block" /\ BlockToCbor(b).len \in {5, 6}
         /\ fromCborCanonical(BlockToCbor(b)) = b
<1> DEFINE f == FieldsOf(b)
           n == IF b.crcType = 0 THEN 5 ELSE 6
<1>1. BlockToCbor(b) = Item(n, f)
  BY DEF BlockToCbor
<1>2. /\ f.type = b.type /\ f.number = b.number /\ f.flags = b.flags
      /\ f.crcType = b.crcType /\ f.data = b.data
  BY DEF FieldsOf
<1> HIDE DEF f
<1>3. CrcHolds(Item(n, f)) = TRUE
  BY <1>2, CrcOfItem DEF IsBlock
<1>4. ReadCanonical(Item(n, f)) = Block(b.type, b.number, b.flags, b.data, b.crcType)
  BY <1>2 DEF ReadCanonical, Item
<1>5. [Block(b.type, b.number, b.flags, b.data, b.crcType) EXCEPT !.valid = TRUE] = b
  BY DEF Block, IsBlock
<1>6. fromCborCanonical(Item(n, f)) = b
  BY <1>3, <1>4, <1>5 DEF fromCborCanonical
<1>7. Item(n, f).is = "block" /\ Item(n, f).len = n
  BY DEF Item
<1> HIDE DEF n
<1>8. n \in {5, 6}
  BY DEF n
<1> QED BY <1>1, <1>6, <1>7, <1>8

-----------------------------------------------------------------------------
(* fromCbor: one turn of its loop, and the loop.                           *)

LEMMA BundleFields ==
  ASSUME NEW v, NEW p, NEW y, NEW e, NEW u, NEW h, NEW t, NEW k
  PROVE  LET b == BundleOf(v, p, y, e, u, h, t, k)
         IN  /\ b.valid = v /\ b.primary = p /\ b.payload = y /\ b.ext = e
             /\ b.used = u /\ b.has = h /\ b.receivedAt = t /\ b.retention = k
             /\ \A z : [b EXCEPT !.valid = z] = BundleOf(z, p, y, e, u, h, t, k)
             /\ \A z : [b EXCEPT !.primary = z] = BundleOf(v, z, y, e, u, h, t, k)
             /\ \A z : [b EXCEPT !.payload = z] = BundleOf(v, p, z, e, u, h, t, k)
             /\ \A z : [b EXCEPT !.ext = z] = BundleOf(v, p, y, z, u, h, t, k)
             /\ \A z : [b EXCEPT !.used = z] = BundleOf(v, p, y, e, z, h, t, k)
             /\ \A z : [b EXCEPT !.has = z] = BundleOf(v, p, y, e, u, z, t, k)
             /\ \A z : [b EXCEPT !.receivedAt = z] = BundleOf(v, p, y, e, u, h, z, k)
             /\ \A z : [b EXCEPT !.retention = z] = BundleOf(v, p, y, e, u, h, t, z)
  BY DEF BundleOf

(* A valid one, with the retention constraint it has after reading. *)
Whole(primary, payload, ext, used, has, t) ==
  BundleOf(TRUE, primary, payload, ext, used, has, t, 0)

LEMMA TurnPrimary ==
  ASSUME NEW p, GoodPrimary(p), NEW q, NEW y, NEW e, NEW u, NEW h, NEW t
  PROVE  AddBlock(Whole(q, y, e, u, h, t), PrimaryToCbor(p))
           = Whole(p, y, e, u, h, t)
<1> DEFINE yes == TRUE
           b == BundleOf(yes, q, y, e, u, h, t, 0)
           c == BundleOf(yes, p, y, e, u, h, t, 0)
           item == PrimaryToCbor(p)
<1>1. item.is = "block" /\ item.len \notin {5, 6} /\ fromCborPrimary(item) = p
  BY PrimaryReadsBack
<1>2. b.valid = yes /\ p.valid = yes
  <2> HIDE DEF yes
  <2>1. b.valid = yes
    BY BundleFields
  <2>2. p.valid = yes
    BY DEF GoodPrimary, yes
  <2> QED BY <2>1, <2>2
<1>3. [b EXCEPT !.primary = p, !.valid = yes] = c
  <2> HIDE DEF yes
  <2>1. [b EXCEPT !.primary = p] = c /\ [c EXCEPT !.valid = yes] = c
    BY BundleFields
  <2> HIDE DEF b, c
  <2>2. [b EXCEPT !.primary = p, !.valid = yes] = [[b EXCEPT !.primary = p] EXCEPT !.valid = yes]
    OBVIOUS
  <2> QED BY <2>1, <2>2
<1>4. AddBlock(b, item) = [b EXCEPT !.primary = p, !.valid = yes]
  <2> HIDE DEF b, item
  <2> QED BY <1>1, <1>2 DEF AddBlock
<1> QED BY <1>3, <1>4 DEF Whole

LEMMA TurnBlock ==
  ASSUME NEW b, IsBlock(b), b.type # Payload,
         NEW p, NEW y, NEW e, NEW u, NEW h, NEW t
  PROVE  AddBlock(Whole(p, y, e, u, h, t), BlockToCbor(b))
           = Whole(p, y, Append(e, b), u \cup {b.number}, h \cup Marked({b.type}), t)
<1> DEFINE yes == TRUE
           x == BundleOf(yes, p, y, e, u, h, t, 0)
           item == BlockToCbor(b)
           e1 == Append(e, b)
           u1 == u \cup {b.number}
           h1 == h \cup Marked({b.type})
<1>1. item.is = "block" /\ item.len \in {5, 6} /\ fromCborCanonical(item) = b
  BY BlockReadsBack
<1>2. x.valid = yes /\ x.ext = e /\ x.used = u /\ x.has = h
  <2> HIDE DEF yes
  <2> QED BY BundleFields
<1>3. b.valid = yes
  BY DEF IsBlock
<1>4. AddBlock(x, item) = [x EXCEPT !.ext = e1, !.used = u1, !.has = h1]
  <2> HIDE DEF x, item
  <2> QED BY <1>1, <1>2, <1>3 DEF AddBlock
<1>5. [x EXCEPT !.ext = e1, !.used = u1, !.has = h1]
        = [[[x EXCEPT !.ext = e1] EXCEPT !.used = u1] EXCEPT !.has = h1]
  <2> HIDE DEF x, e1, u1, h1
  <2> QED OBVIOUS
<1>6. [[[x EXCEPT !.ext = e1] EXCEPT !.used = u1] EXCEPT !.has = h1]
        = BundleOf(yes, p, y, e1, u1, h1, t, 0)
  <2> HIDE DEF yes, e1, u1, h1
  <2>1. [x EXCEPT !.ext = e1] = BundleOf(yes, p, y, e1, u, h, t, 0)
    BY BundleFields
  <2>2. [BundleOf(yes, p, y, e1, u, h, t, 0) EXCEPT !.used = u1]
          = BundleOf(yes, p, y, e1, u1, h, t, 0)
    BY BundleFields
  <2>3. [BundleOf(yes, p, y, e1, u1, h, t, 0) EXCEPT !.has = h1]
          = BundleOf(yes, p, y, e1, u1, h1, t, 0)
    BY BundleFields
  <2> HIDE DEF x
  <2> QED BY <2>1, <2>2, <2>3
<1> QED BY <1>4, <1>5, <1>6 DEF Whole

LEMMA TurnPayload ==
  ASSUME NEW b, IsBlock(b), b.type = Payload,
         NEW p, NEW y, NEW e, NEW u, NEW h, NEW t
  PROVE  AddBlock(Whole(p, y, e, u, h, t), BlockToCbor(b))
           = Whole(p, b, e, u, h, t)
<1> DEFINE yes == TRUE
           x == BundleOf(yes, p, y, e, u, h, t, 0)
           item == BlockToCbor(b)
<1>1. item.is = "block" /\ item.len \in {5, 6} /\ fromCborCanonical(item) = b
  BY BlockReadsBack
<1>2. x.valid = yes
  <2> HIDE DEF yes
  <2> QED BY BundleFields
<1>3. b.valid = yes /\ AsPayload(b) = b
  <2>1. AsPayload(b) = [valid |-> TRUE, type |-> b.type, number |-> b.number,
                        flags |-> b.flags, data |-> b.data, crcType |-> b.crcType]
    BY DEF AsPayload, Block
  <2>2. AsPayload(b) = b
    BY <2>1 DEF IsBlock
  <2>3. b.valid = yes
    BY DEF IsBlock
  <2> QED BY <2>2, <2>3
<1>4. AddBlock(x, item) = [x EXCEPT !.payload = b]
  <2> HIDE DEF x, item
  <2> QED BY <1>1, <1>2, <1>3 DEF AddBlock
<1>5. [x EXCEPT !.payload = b] = BundleOf(yes, p, b, e, u, h, t, 0)
  <2> HIDE DEF yes
  <2> QED BY BundleFields
<1> QED BY <1>4, <1>5 DEF Whole

ReadAll(base, items) == FoldLeft(AddBlock, base, items)

(* The bundle before the first turn and after each one. *)
LEMMA ReadTrace ==
  ASSUME NEW n \in Nat, NEW items, DOMAIN items = 1 .. n, NEW base
  PROVE  \E r : /\ r[0] = base
                /\ \A k \in 1 .. n : r[k] = AddBlock(r[k - 1], items[k])
                /\ ReadAll(base, items) = r[n]
<1> DEFINE Step(f, s) == IF s = {} THEN base ELSE AddBlock(f[s \ {Max(s)}], items[Max(s)])
           IsIter(f, k) == f = [s \in SUBSET (1 .. k) |-> Step(f, s)]
           T == {k \in 0 .. n : \E f : IsIter(f, k)}
<1>1. 0 \in T
  <2> DEFINE f == [s \in SUBSET (1 .. 0) |-> base]
  <2>1. IsIter(f, 0)
    <3>1. \A s \in SUBSET (1 .. 0) : s = {}
      OBVIOUS
    <3>2. \A s \in SUBSET (1 .. 0) : Step(f, s) = base
      BY <3>1
    <3> QED BY <3>2
  <2>2. 0 \in 0 .. n
    OBVIOUS
  <2> HIDE DEF f, IsIter
  <2> QED BY <2>1, <2>2
<1>2. ASSUME NEW k \in 0 .. n - 1, k \in T PROVE k + 1 \in T
  <2>1. PICK g : IsIter(g, k)
    BY <1>2
  <2> DEFINE U == SUBSET (1 .. k + 1)
             h == [s \in U |-> IF k + 1 \in s THEN AddBlock(g[s \ {k + 1}], items[k + 1])
                                              ELSE g[s]]
  <2>2. \A s \in SUBSET (1 .. k) : g[s] = Step(g, s)
    BY <2>1
  <2>3. \A s \in SUBSET (1 .. k) : h[s] = g[s]
    OBVIOUS
  <2>4. ASSUME NEW s \in U PROVE h[s] = Step(h, s)
    <3>1. CASE k + 1 \in s
      <4>1. Max(s) = k + 1
        BY <3>1, MaxOfTop
      <4>2. s \ {k + 1} \in SUBSET (1 .. k)
        OBVIOUS
      <4>3. h[s] = AddBlock(g[s \ {k + 1}], items[k + 1])
        BY <3>1
      <4>4. h[s \ {k + 1}] = g[s \ {k + 1}]
        BY <4>2, <2>3
      <4> HIDE DEF h
      <4> QED BY <3>1, <4>1, <4>3, <4>4
    <3>2. CASE k + 1 \notin s
      <4>1. s \in SUBSET (1 .. k) /\ s \ {Max(s)} \in SUBSET (1 .. k)
        <5>1. \A x \in s : x \in 1 .. k
          BY <3>2
        <5> QED BY <5>1
      <4>2. h[s] = g[s] /\ h[s \ {Max(s)}] = g[s \ {Max(s)}]
        BY <4>1, <2>3
      <4> HIDE DEF h
      <4> QED BY <4>1, <4>2, <2>2
    <3> QED BY <3>1, <3>2
  <2>5. h = [s \in U |-> Step(h, s)]
    <3>1. h = [s \in U |-> h[s]]
      OBVIOUS
    <3> HIDE DEF h
    <3> QED BY <3>1, <2>4
  <2>6. IsIter(h, k + 1)
    BY <2>5
  <2>7. k + 1 \in 0 .. n
    OBVIOUS
  <2> HIDE DEF h, IsIter
  <2> QED BY <2>6, <2>7
<1>3. n \in T
  <2> HIDE DEF T
  <2>1. 0 .. n \subseteq T
    BY <1>1, <1>2, SetInduction
  <2> QED BY <2>1
<1> DEFINE it == CHOOSE f : IsIter(f, n)
           r == [k \in 0 .. n |-> it[1 .. k]]
<1>4. IsIter(it, n)
  BY <1>3
<1>5. ReadAll(base, items) = it[1 .. n]
  BY DEF ReadAll, FoldLeft, MapThenFoldSet
<1> HIDE DEF it
<1>6. \A s \in SUBSET (1 .. n) : it[s] = Step(it, s)
  BY <1>4
<1>7. it[1 .. 0] = base
  <2>1. 1 .. 0 = {} /\ 1 .. 0 \in SUBSET (1 .. n)
    OBVIOUS
  <2> QED BY <1>6, <2>1
<1>8. ASSUME NEW k \in 1 .. n PROVE it[1 .. k] = AddBlock(it[1 .. k - 1], items[k])
  <2>1. 1 .. k # {} /\ 1 .. k \in SUBSET (1 .. n) /\ Max(1 .. k) = k
    <3>1. 1 .. k # {} /\ 1 .. k \in SUBSET (1 .. n)
      <4>1. k \in 1 .. k /\ \A x \in 1 .. k : x \in 1 .. n
        OBVIOUS
      <4> QED BY <4>1
    <3>2. k \in Nat /\ 1 .. k \in SUBSET (1 .. k) /\ k \in 1 .. k
      OBVIOUS
    <3> QED BY <3>1, <3>2, MaxOfTop
  <2>2. (1 .. k) \ {k} = 1 .. k - 1
    OBVIOUS
  <2> QED BY <1>6, <2>1, <2>2
<1>9. r[0] = it[1 .. 0] /\ \A k \in 0 .. n : r[k] = it[1 .. k]
  OBVIOUS
<1> HIDE DEF r
<1>10. \A k \in 1 .. n : r[k] = AddBlock(r[k - 1], items[k])
  BY <1>8, <1>9
<1> QED BY <1>5, <1>7, <1>9, <1>10
(* The items of an encoded bundle, and their places. *)
Items(p, y, e) ==
  <<Begin, PrimaryToCbor(p)>> \o [i \in DOMAIN e |-> BlockToCbor(e[i])] \o <<BlockToCbor(y), End>>

LEMMA ItemsAt ==
  ASSUME NEW p, NEW y, NEW e, IsSeq(e)
  PROVE  LET s == Items(p, y, e)
             n == Len(e)
         IN  /\ n \in Nat /\ IsSeq(s) /\ Len(s) = n + 4 /\ s[1] = Begin
             /\ s[2] = PrimaryToCbor(p)
             /\ \A i \in 1 .. n : s[i + 2] = BlockToCbor(e[i])
             /\ s[n + 3] = BlockToCbor(y) /\ s[n + 4] = End
<1> DEFINE n == Len(e)
           a == <<Begin, PrimaryToCbor(p)>>
           m == [i \in DOMAIN e |-> BlockToCbor(e[i])]
           z == <<BlockToCbor(y), End>>
<1>1. n \in Nat /\ DOMAIN e = 1 .. n
  BY SeqBasics
<1>2. IsSeq(a) /\ Len(a) = 2 /\ a[1] = Begin /\ a[2] = PrimaryToCbor(p)
  <2>1. a \in Seq({Begin, PrimaryToCbor(p)})
    OBVIOUS
  <2> QED BY <2>1, SeqSets
<1>3. IsSeq(z) /\ Len(z) = 2 /\ z[1] = BlockToCbor(y) /\ z[2] = End
  <2>1. z \in Seq({BlockToCbor(y), End})
    OBVIOUS
  <2> QED BY <2>1, SeqSets
<1>4. IsSeq(m) /\ Len(m) = n /\ \A i \in 1 .. n : m[i] = BlockToCbor(e[i])
  <2>1. m = [i \in 1 .. n |-> m[i]]
    BY <1>1
  <2>2. IsSeq(m) /\ Len(m) = n
    <3> HIDE DEF m
    <3> QED BY <1>1, <2>1, SeqOfFunction
  <2> QED BY <1>1, <2>2
<1>5. Items(p, y, e) = (a \o m) \o z
  BY DEF Items
<1> HIDE DEF n, a, m, z
<1>6. /\ IsSeq(a \o m) /\ Len(a \o m) = n + 2
      /\ (a \o m)[1] = Begin /\ (a \o m)[2] = PrimaryToCbor(p)
      /\ \A i \in 1 .. n : (a \o m)[i + 2] = BlockToCbor(e[i])
  <2>1. /\ IsSeq(a \o m) /\ Len(a \o m) = 2 + n
        /\ \A i \in 1 .. 2 : (a \o m)[i] = a[i]
        /\ \A i \in 1 .. n : (a \o m)[2 + i] = m[i]
    <3>1. /\ IsSeq(a \o m) /\ Len(a \o m) = Len(a) + Len(m)
          /\ \A i \in 1 .. Len(a) : (a \o m)[i] = a[i]
          /\ \A i \in 1 .. Len(m) : (a \o m)[Len(a) + i] = m[i]
      <4>1. IsSeq(a) /\ IsSeq(m)
        BY <1>2, <1>4
      <4> QED BY <4>1, SeqConcat
    <3> QED BY <1>2, <1>4, <3>1
  <2>2. 2 + n = n + 2 /\ \A i \in 1 .. n : 2 + i = i + 2
    BY <1>1
  <2> QED BY <1>2, <1>4, <2>1, <2>2
<1>7. /\ IsSeq((a \o m) \o z) /\ Len((a \o m) \o z) = n + 2 + 2
      /\ \A i \in 1 .. n + 2 : ((a \o m) \o z)[i] = (a \o m)[i]
      /\ \A i \in 1 .. 2 : ((a \o m) \o z)[n + 2 + i] = z[i]
  <2> DEFINE am == a \o m
  <2>1. IsSeq(am) /\ IsSeq(z) /\ Len(am) = n + 2 /\ Len(z) = 2
    BY <1>3, <1>6
  <2> HIDE DEF am
  <2>2. /\ IsSeq(am \o z) /\ Len(am \o z) = Len(am) + Len(z)
        /\ \A i \in 1 .. Len(am) : (am \o z)[i] = am[i]
        /\ \A i \in 1 .. Len(z) : (am \o z)[Len(am) + i] = z[i]
    <3>1. IsSeq(am) /\ IsSeq(z)
      BY <2>1
    <3> QED BY <3>1, SeqConcat
  <2>3. /\ IsSeq(am \o z) /\ Len(am \o z) = n + 2 + 2
        /\ \A i \in 1 .. n + 2 : (am \o z)[i] = am[i]
        /\ \A i \in 1 .. 2 : (am \o z)[n + 2 + i] = z[i]
    BY <2>1, <2>2
  <2> QED BY <2>3 DEF am
<1>8. /\ n + 2 + 2 = n + 4 /\ n + 2 + 1 = n + 3
      /\ 1 \in 1 .. n + 2 /\ 2 \in 1 .. n + 2 /\ \A i \in 1 .. n : i + 2 \in 1 .. n + 2
  BY <1>1
<1>9. n \in Nat /\ IsSeq((a \o m) \o z) /\ Len((a \o m) \o z) = n + 4
  BY <1>1, <1>7, <1>8
<1>10. ((a \o m) \o z)[1] = Begin /\ ((a \o m) \o z)[2] = PrimaryToCbor(p)
  BY <1>6, <1>7, <1>8
<1>11. \A i \in 1 .. n : ((a \o m) \o z)[i + 2] = BlockToCbor(e[i])
  BY <1>6, <1>7, <1>8
<1>12. ((a \o m) \o z)[n + 3] = BlockToCbor(y) /\ ((a \o m) \o z)[n + 4] = End
  <2>1. 1 \in 1 .. 2 /\ 2 \in 1 .. 2
    OBVIOUS
  <2> QED BY <1>3, <1>7, <1>8, <2>1
<1> QED BY <1>5, <1>9, <1>10, <1>11, <1>12 DEF n

LEMMA toCborItems ==
  ASSUME NEW b
  PROVE  toCbor(b) = Items(b.primary, b.payload, b.ext)
  BY DEF toCbor, Items

LEMMA TurnChecks ==
  ASSUME NEW x, NEW item, "valid" \in DOMAIN x, x.valid, AddBlock(x, item).valid
  PROVE  item.is = "block" /\ CrcHolds(item)
<1>1. item.is = "block"
  BY DEF AddBlock
<1>2. CASE item.len \in {5, 6}
  <2> DEFINE block == fromCborCanonical(item)
  <2>1. block.valid = CrcHolds(item)
    BY DEF fromCborCanonical, ReadCanonical, Block
  <2> HIDE DEF block
  <2>2. ~block.valid => AddBlock(x, item) = [x EXCEPT !.valid = FALSE]
    BY <1>1, <1>2 DEF AddBlock, block
  <2>3. ~block.valid => ~AddBlock(x, item).valid
    BY <2>2
  <2> QED BY <1>1, <2>1, <2>3
<1>3. CASE item.len \notin {5, 6}
  <2> DEFINE primary == fromCborPrimary(item)
  <2>1. primary.valid => CrcHolds(item)
    BY DEF fromCborPrimary, EmptyPrimary, PrimaryBlock
  <2> HIDE DEF primary
  <2>2. AddBlock(x, item) = [x EXCEPT !.primary = primary, !.valid = primary.valid]
    BY <1>1, <1>3 DEF AddBlock, primary
  <2>3. AddBlock(x, item).valid => primary.valid
    BY <2>2
  <2> QED BY <1>1, <2>1, <2>3
<1> QED BY <1>1, <1>2, <1>3

(* What a valid result says of the items it was made from. *)
LEMMA ValidMeansChecked ==
  ASSUME NEW n \in Nat, NEW items, DOMAIN items = 1 .. n,
         NEW base, "valid" \in DOMAIN base, ReadAll(base, items).valid
  PROVE  \A k \in 1 .. n : items[k].is = "block" /\ CrcHolds(items[k])
<1>1. PICK r : /\ r[0] = base
               /\ \A k \in 1 .. n : r[k] = AddBlock(r[k - 1], items[k])
               /\ ReadAll(base, items) = r[n]
  BY ReadTrace
<1> TAKE k \in 1 .. n
<1>2. \A i \in 1 .. n : r[i].valid => r[i - 1].valid
  BY <1>1 DEF AddBlock
<1> DEFINE T == {j \in 0 .. n : r[n - j].valid}
<1> DEFINE D == {i \in 0 .. n : "valid" \in DOMAIN r[i]}
<1>6. 0 .. n \subseteq D
  <2>1. 0 \in D
    BY <1>1
  <2>2. ASSUME NEW i \in 0 .. n - 1, i \in D PROVE i + 1 \in D
    <3>1. i + 1 \in 1 .. n /\ i + 1 - 1 = i
      OBVIOUS
    <3>2. r[i + 1] = AddBlock(r[i], items[i + 1])
      BY <1>1, <3>1
    <3>3. DOMAIN AddBlock(r[i], items[i + 1]) = DOMAIN r[i]
      BY DEF AddBlock
    <3> QED BY <2>2, <3>1, <3>2, <3>3
  <2> HIDE DEF D
  <2> QED BY <2>1, <2>2, SetInduction
<1>3. 0 .. n \subseteq T
  <2>1. 0 \in T
    BY <1>1
  <2>2. ASSUME NEW j \in 0 .. n - 1, j \in T PROVE j + 1 \in T
    <3>1. n - j \in 1 .. n /\ n - j - 1 = n - (j + 1) /\ j + 1 \in 0 .. n
      OBVIOUS
    <3> QED BY <1>2, <2>2, <3>1
  <2> HIDE DEF T
  <2> QED BY <2>1, <2>2, SetInduction
<1>4. r[k].valid /\ r[k - 1].valid
  <2>1. n - k \in 0 .. n /\ n - (n - k) = k
    OBVIOUS
  <2>2. r[k].valid
    BY <1>3, <2>1
  <2> QED BY <1>2, <2>2
<1>5. AddBlock(r[k - 1], items[k]).valid
  BY <1>1, <1>4
<1>7. "valid" \in DOMAIN r[k - 1]
  <2>1. k - 1 \in 0 .. n
    OBVIOUS
  <2> QED BY <1>6, <2>1
<1> QED BY <1>4, <1>5, <1>7, TurnChecks

(* What a node finds that reads a bundle at time t. *)
Reading(p, y, e, t) ==
  Whole(p, y, e, {1} \cup {e[i].number : i \in DOMAIN e}, Marked(TypesIn(e)), t)

(* An encoded bundle is read as it was. *)
LEMMA ReadItems ==
  ASSUME NEW p, NEW y, NEW e, NEW t, GoodPrimary(p), IsBlock(y), y.type = Payload,
         IsSeq(e), \A i \in DOMAIN e : IsBlock(e[i]) /\ e[i].type # Payload
  PROVE  ReadAll([EmptyBundle(t) EXCEPT !.valid = TRUE],
                  SubSeq(Items(p, y, e), 2, Len(e) + 3))
           = Reading(p, y, e, t)
<1> DEFINE n == Len(e)
           s == Items(p, y, e)
           items == SubSeq(s, 2, n + 3)
           base == [EmptyBundle(t) EXCEPT !.valid = TRUE]
           Used(k) == {1} \cup {e[i].number : i \in 1 .. k}
           Types(k) == {e[i].type : i \in 1 .. k}
           At(k) == Whole(p, EmptyPayload, SubSeq(e, 1, k), Used(k), Marked(Types(k)), t)
<1>1. /\ n \in Nat /\ IsSeq(s) /\ Len(s) = n + 4 /\ s[2] = PrimaryToCbor(p)
      /\ \A i \in 1 .. n : s[i + 2] = BlockToCbor(e[i])
      /\ s[n + 3] = BlockToCbor(y)
  <2> HIDE DEF s
  <2> QED BY ItemsAt DEF s
<1>2. DOMAIN e = 1 .. n
  BY SeqBasics
<1> HIDE DEF n, s
<1>3. /\ DOMAIN items = 1 .. n + 2 /\ items[1] = PrimaryToCbor(p)
      /\ \A i \in 1 .. n : items[i + 1] = BlockToCbor(e[i])
      /\ items[n + 2] = BlockToCbor(y)
  <2>1. /\ IsSeq(items) /\ Len(items) = n + 2
        /\ \A i \in 1 .. n + 2 : items[i] = s[i + 1]
    <3>1. 2 \in Int /\ n + 3 \in Int /\ 1 <= 2 /\ n + 3 <= Len(s) /\ n + 3 - 2 + 1 = n + 2
          /\ 2 <= n + 3 /\ \A i \in 1 .. n + 2 : 2 + i - 1 = i + 1
      BY <1>1
    <3> QED BY <1>1, <3>1, SeqPart
  <2> HIDE DEF items
  <2>2. DOMAIN items = 1 .. n + 2
    BY <2>1, SeqBasics
  <2>3. 1 \in 1 .. n + 2 /\ n + 2 \in 1 .. n + 2 /\ n + 2 + 1 = n + 3
        /\ \A i \in 1 .. n : i + 1 \in 1 .. n + 2 /\ i + 1 + 1 = i + 2
    BY <1>1
  <2> QED BY <1>1, <2>1, <2>2, <2>3
<1> HIDE DEF items
<1>4. PICK r : /\ r[0] = base
               /\ \A k \in 1 .. n + 2 : r[k] = AddBlock(r[k - 1], items[k])
               /\ ReadAll(base, items) = r[n + 2]
  <2> DEFINE m == n + 2
  <2>1. m \in Nat /\ DOMAIN items = 1 .. m
    BY <1>1, <1>3
  <2> HIDE DEF m, base
  <2>2. \E r : /\ r[0] = base
               /\ \A k \in 1 .. m : r[k] = AddBlock(r[k - 1], items[k])
               /\ ReadAll(base, items) = r[m]
    BY <2>1, ReadTrace
  <2> QED BY <2>2 DEF m
<1>5. base = Whole(EmptyPrimary, EmptyPayload, <<>>, {1}, {}, t)
  <2> DEFINE yes == TRUE
             no == FALSE
  <2>1. EmptyBundle(t) = BundleOf(no, EmptyPrimary, EmptyPayload, <<>>, {1}, {}, t, 0)
    BY DEF EmptyBundle, BundleOf
  <2> HIDE DEF yes, no
  <2>2. [BundleOf(no, EmptyPrimary, EmptyPayload, <<>>, {1}, {}, t, 0) EXCEPT !.valid = yes]
          = BundleOf(yes, EmptyPrimary, EmptyPayload, <<>>, {1}, {}, t, 0)
    BY BundleFields
  <2> QED BY <2>1, <2>2 DEF yes, Whole
<1> HIDE DEF base
<1> DEFINE T == {k \in 0 .. n : r[k + 1] = At(k)}
<1>6. 0 \in T
  <2>1. r[1] = AddBlock(base, PrimaryToCbor(p))
    <3>1. 1 \in 1 .. n + 2 /\ 1 - 1 = 0
      BY <1>1
    <3> QED BY <1>3, <1>4, <3>1
  <2>2. r[1] = Whole(p, EmptyPayload, <<>>, {1}, {}, t)
    BY <1>5, <2>1, TurnPrimary
  <2>3. SubSeq(e, 1, 0) = <<>>
    <3>1. IsSeq(SubSeq(e, 1, 0)) /\ Len(SubSeq(e, 1, 0)) = 0
      BY <1>1, SeqPart DEF n
    <3> QED BY <3>1, SeqEmpty, SeqEquals
  <2>4. Used(0) = {1} /\ Marked(Types(0)) = {}
    BY DEF Marked
  <2>5. r[1] = At(0)
    <3> HIDE DEF Used, Types
    <3> QED BY <2>2, <2>3, <2>4
  <2>6. 0 \in 0 .. n /\ 0 + 1 = 1
    BY <1>1
  <2> HIDE DEF At
  <2> QED BY <2>5, <2>6
<1>7. ASSUME NEW k \in 0 .. n - 1, k \in T PROVE k + 1 \in T
  <2> DEFINE i == k + 1
  <2>1. i \in 1 .. n /\ i \in DOMAIN e /\ i - 1 = k /\ i \in 0 .. n
        /\ i + 1 \in 1 .. n + 2 /\ i + 1 - 1 = i
    BY <1>1, <1>2
  <2>2. r[i + 1] = AddBlock(r[i], BlockToCbor(e[i]))
    BY <1>3, <1>4, <2>1
  <2>3. r[i] = At(k)
    BY <1>7
  <2>4. AddBlock(At(k), BlockToCbor(e[i]))
          = Whole(p, EmptyPayload, Append(SubSeq(e, 1, k), e[i]), Used(k) \cup {e[i].number},
                  Marked(Types(k)) \cup Marked({e[i].type}), t)
    <3>1. IsBlock(e[i]) /\ e[i].type # Payload
      BY <2>1
    <3> HIDE DEF Used, Types, i
    <3> QED BY <3>1, TurnBlock
  <2>5. Append(SubSeq(e, 1, k), e[i]) = SubSeq(e, 1, i)
    <3> DEFINE a == SubSeq(e, 1, k)
               c == SubSeq(e, 1, i)
    <3>1. IsSeq(a) /\ Len(a) = k /\ \A j \in 1 .. k : a[j] = e[j]
      BY <1>1, <2>1, SeqPart DEF n
    <3>2. IsSeq(c) /\ Len(c) = i /\ \A j \in 1 .. i : c[j] = e[j]
      BY <1>1, <2>1, SeqPart DEF n
    <3> HIDE DEF a, c
    <3>3. /\ IsSeq(Append(a, e[i])) /\ Len(Append(a, e[i])) = k + 1
          /\ \A j \in 1 .. k : Append(a, e[i])[j] = a[j]
          /\ Append(a, e[i])[k + 1] = e[i]
      BY <3>1, SeqAppend
    <3>4. \A j \in 1 .. i : Append(a, e[i])[j] = c[j]
      <4>1. \A j \in 1 .. i : j \in 1 .. k \/ j = k + 1
        BY <2>1
      <4> QED BY <3>1, <3>2, <3>3, <4>1
    <3> QED BY <3>2, <3>3, <3>4, SeqEquals
  <2>6. Used(k) \cup {e[i].number} = Used(i)
        /\ Marked(Types(k)) \cup Marked({e[i].type}) = Marked(Types(i))
    <3>1. 1 .. i = (1 .. k) \cup {i}
      BY <2>1
    <3> HIDE DEF i
    <3> QED BY <3>1 DEF Marked
  <2>7. r[i + 1] = At(i)
    <3> HIDE DEF Used, Types, i
    <3> QED BY <2>2, <2>3, <2>4, <2>5, <2>6
  <2> HIDE DEF At
  <2> QED BY <2>1, <2>7
<1>8. n \in T
  <2> HIDE DEF T
  <2>1. 0 .. n \subseteq T
    BY <1>1, <1>6, <1>7, SetInduction
  <2> QED BY <1>1, <2>1
<1>9. At(n) = Whole(p, EmptyPayload, e, {1} \cup {e[i].number : i \in DOMAIN e},
                    Marked(TypesIn(e)), t)
  <2>1. SubSeq(e, 1, n) = e
    <3>1. /\ IsSeq(SubSeq(e, 1, n)) /\ Len(SubSeq(e, 1, n)) = n
          /\ \A j \in 1 .. n : SubSeq(e, 1, n)[j] = e[j]
      BY <1>1, SeqPart DEF n
    <3> QED BY <3>1, SeqEquals DEF n
  <2> QED BY <1>2, <2>1 DEF TypesIn
<1>10. r[n + 2] = AddBlock(r[n + 1], BlockToCbor(y))
  <2> DEFINE m == n + 2
  <2>1. m \in 1 .. n + 2 /\ m - 1 = n + 1
    BY <1>1
  <2>2. items[m] = BlockToCbor(y)
    BY <1>3
  <2> HIDE DEF m
  <2>3. r[m] = AddBlock(r[n + 1], BlockToCbor(y))
    BY <1>4, <2>1, <2>2
  <2> QED BY <2>3 DEF m
<1>11. r[n + 1] = At(n)
  BY <1>8
<1> HIDE DEF At, T
<1> QED BY <1>4, <1>9, <1>10, <1>11, TurnPayload DEF items, s, n, base, Reading

(* fromCbor reads from the second item to the first end. *)
LEMMA fromCborReads ==
  ASSUME NEW s, IsSeq(s), Len(s) >= 1, s[1].is = "begin", NEW t,
         NEW k \in 1 .. Len(s), s[k].is = "end", \A i \in 1 .. k - 1 : s[i].is # "end"
  PROVE  fromCbor(s, t)
           = ReadAll([EmptyBundle(t) EXCEPT !.valid = TRUE], SubSeq(s, 2, k - 1))
<1> DEFINE I == {i \in 1 .. Len(s) : s[i].is = "end"}
<1>1. Len(s) \in Nat
  BY SeqBasics
<1>2. k \in I /\ \A i \in I : k <= i
  BY <1>1
<1>3. SelectInSeq(s, LAMBDA i : i.is = "end") = k
  <2>1. SelectInSeq(s, LAMBDA i : i.is = "end") = IF I # {} THEN Min(I) ELSE 0
    BY DEF SelectInSeq
  <2>2. I \in SUBSET (1 .. Len(s)) /\ I # {}
    BY <1>2
  <2>3. Min(I) \in I /\ \A i \in I : Min(I) <= i
    <3> HIDE DEF I
    <3> QED BY <1>1, <2>2, LeastOf
  <2>4. Min(I) = k
    BY <1>2, <2>3
  <2> QED BY <2>1, <2>2, <2>4
<1> QED BY <1>1, <1>3 DEF fromCbor, ReadAll

(* No bundle without a begin and an end. *)
LEMMA fromCborNeeds ==
  ASSUME NEW s, IsSeq(s), NEW t, fromCbor(s, t).valid
  PROVE  /\ Len(s) >= 1 /\ s[1].is = "begin"
         /\ \E k \in 1 .. Len(s) : s[k].is = "end" /\ \A i \in 1 .. k - 1 : s[i].is # "end"
<1> DEFINE I == {i \in 1 .. Len(s) : s[i].is = "end"}
<1>1. Len(s) \in Nat /\ I \in SUBSET (1 .. Len(s))
  BY SeqBasics
<1>2. EmptyBundle(t).valid = FALSE
  BY DEF EmptyBundle
<1>3. SelectInSeq(s, LAMBDA i : i.is = "end") = IF I # {} THEN Min(I) ELSE 0
  BY DEF SelectInSeq
<1>4. Len(s) # 0 /\ s[1].is = "begin" /\ I # {}
  BY <1>2, <1>3 DEF fromCbor
<1>5. Min(I) \in I /\ \A i \in I : Min(I) <= i
  <2> HIDE DEF I
  <2> QED BY <1>1, <1>4, LeastOf
<1>6. Min(I) \in 1 .. Len(s) /\ s[Min(I)].is = "end"
      /\ \A i \in 1 .. Min(I) - 1 : s[i].is # "end"
  <2>1. \A i \in 1 .. Min(I) - 1 : i \in 1 .. Len(s) /\ ~(Min(I) <= i)
    BY <1>1, <1>5
  <2> QED BY <1>5, <2>1
<1> QED BY <1>1, <1>4, <1>6

-----------------------------------------------------------------------------
(* The bytes of a copy on the line, and what a poll reads of them.         *)

Encoding(items, c) == Append(Tagged(items, c), Break)

LEMMA SeqExcept ==
  ASSUME NEW s, IsSeq(s), NEW k \in 1 .. Len(s), NEW v
  PROVE  LET x == [s EXCEPT ![k] = v]
         IN  /\ IsSeq(x) /\ Len(x) = Len(s) /\ x[k] = v
             /\ \A i \in 1 .. Len(s) : i # k => x[i] = s[i]
<1> DEFINE x == [s EXCEPT ![k] = v]
<1>1. Len(s) \in Nat /\ DOMAIN s = 1 .. Len(s)
  BY SeqBasics
<1>2. x = [i \in 1 .. Len(s) |-> x[i]]
  BY <1>1
<1>3. x[k] = v /\ \A i \in 1 .. Len(s) : i # k => x[i] = s[i]
  BY <1>1
<1> HIDE DEF x
<1>4. IsSeq(x) /\ Len(x) = Len(s)
  BY <1>1, <1>2, SeqOfFunction
<1> QED BY <1>3, <1>4 DEF x

LEMMA EncodingAt ==
  ASSUME NEW p, NEW y, NEW e, NEW c, IsSeq(e)
  PROVE  LET n == Len(e)
             items == Items(p, y, e)
             E == Encoding(items, c)
         IN  /\ n \in Nat /\ IsSeq(E) /\ Len(E) = n + 5
             /\ E[1] = [is |-> "begin", copy |-> c]
             /\ \A k \in 2 .. n + 3 : E[k] = items[k]
             /\ E[n + 4] = End /\ E[n + 5] = Break
<1> DEFINE n == Len(e)
           items == Items(p, y, e)
           start == [is |-> "begin", copy |-> c]
           g == Tagged(items, c)
           E == Encoding(items, c)
<1>1. /\ n \in Nat /\ IsSeq(items) /\ Len(items) = n + 4 /\ items[n + 4] = End
  <2> HIDE DEF items
  <2> QED BY ItemsAt DEF items
<1> HIDE DEF n, items
<1>2. /\ IsSeq(g) /\ Len(g) = n + 4 /\ g[1] = start /\ g[n + 4] = End
      /\ \A k \in 2 .. n + 3 : g[k] = items[k]
  <2>1. 1 \in 1 .. Len(items) /\ n + 4 \in 1 .. n + 4 /\ n + 4 # 1
        /\ \A k \in 2 .. n + 3 : k \in 1 .. n + 4 /\ k # 1
    BY <1>1
  <2>2. g = [items EXCEPT ![1] = start]
    BY DEF Tagged
  <2> HIDE DEF g, start
  <2>3. /\ IsSeq(g) /\ Len(g) = n + 4 /\ g[1] = start
        /\ \A i \in 1 .. n + 4 : i # 1 => g[i] = items[i]
    <3>1. IsSeq(items) /\ 1 \in 1 .. Len(items)
      BY <1>1, <2>1
    <3>2. LET x == [items EXCEPT ![1] = start]
          IN  /\ IsSeq(x) /\ Len(x) = Len(items) /\ x[1] = start
              /\ \A i \in 1 .. Len(items) : i # 1 => x[i] = items[i]
      BY <3>1, SeqExcept
    <3> QED BY <1>1, <2>2, <3>2
  <2> QED BY <1>1, <2>1, <2>3
<1> HIDE DEF g
<1>3. E = Append(g, Break)
  BY DEF Encoding, g
<1>4. /\ IsSeq(E) /\ Len(E) = n + 5 /\ E[n + 5] = Break
      /\ \A k \in 1 .. n + 4 : E[k] = g[k]
  <2>1. n + 4 + 1 = n + 5
    BY <1>1
  <2> HIDE DEF E
  <2> QED BY <1>2, <1>3, <2>1, SeqAppend
<1>5. 1 \in 1 .. n + 4 /\ n + 4 \in 1 .. n + 4 /\ \A k \in 2 .. n + 3 : k \in 1 .. n + 4
  BY <1>1
<1> HIDE DEF E, start
<1>6. E[1] = start /\ E[n + 4] = End /\ \A k \in 2 .. n + 3 : E[k] = items[k]
  BY <1>2, <1>4, <1>5
<1> QED BY <1>1, <1>4, <1>6 DEF E, start, n, items

(* An item as a block is encoded. *)
IsItem(y) == \E n, f : y = Item(n, f) /\ "crcType" \in DOMAIN f /\ f.crcType \in CrcTypes

LEMMA ItemIsBlock ==
  ASSUME NEW y, IsItem(y)
  PROVE  y.is = "block"
  BY DEF IsItem, Item

(* Item x is y of copy c, or what noise has made of it; N has the changed   *)
(* blocks.                                                                 *)
Same(x, y, c, N) ==
  \/ x = y
  \/ \E f : /\ IsItem(y) /\ x = [y EXCEPT !.fields = f]
            /\ "crcType" \in DOMAIN f /\ f.crcType = y.fields.crcType
            /\ y.fields.crcType = 0 => \E n \in N : n.copy = c /\ ~n.checked

(* From place i on, bytes has what is there of copy c, sent as E. *)
Like(bytes, i, E, c, N) ==
  \A m \in 1 .. Len(E) : i + m - 1 <= Len(bytes) => Same(bytes[i + m - 1], E[m], c, N)

LEMMA SameKind ==
  ASSUME NEW x, NEW y, NEW c, NEW N, Same(x, y, c, N)
  PROVE  x.is = y.is /\ (y.is # "block" => x = y) /\ (IsItem(y) => x.is = "block")
<1>1. IsItem(y) => y.is = "block"
  BY DEF IsItem, Item
<1>2. ASSUME NEW f, IsItem(y), x = [y EXCEPT !.fields = f] PROVE x.is = y.is
  <2>1. PICK n, g : y = Item(n, g)
    BY <1>2 DEF IsItem
  <2>2. x = [is |-> "block", len |-> n, fields |-> f, crc |-> calculateCRC(g.crcType, g)]
    BY <1>2, <2>1 DEF Item
  <2> QED BY <1>1, <1>2, <2>2
<1> QED BY <1>1, <1>2 DEF Same

LEMMA SameChecks ==
  ASSUME NEW x, NEW y, NEW c, NEW N, Same(x, y, c, N), IsItem(y), CrcHolds(x),
         ~\E n \in N : n.copy = c /\ ~n.checked
  PROVE  x = y
<1> SUFFICES ASSUME NEW f, x = [y EXCEPT !.fields = f], f.crcType = y.fields.crcType,
                    y.fields.crcType # 0
             PROVE  x = y
  BY DEF Same
<1>1. PICK n, g : y = Item(n, g) /\ g.crcType \in CrcTypes
  BY DEF IsItem
<1>2. y.fields = g
  BY <1>1 DEF Item
<1>3. g.crcType \in {X25, Crc32c} /\ f.crcType = g.crcType
  BY <1>1, <1>2 DEF CrcTypes
<1>4. CrcHolds([Item(n, g) EXCEPT !.fields = f])
  BY <1>1
<1>5. f = g
  BY <1>3, <1>4, CrcFindsChange
<1> QED BY <1>1, <1>5 DEF Item

LEMMA ItemsAreItems ==
  ASSUME NEW p, NEW y, NEW e, IsSeq(e), GoodPrimary(p), IsBlock(y),
         \A i \in DOMAIN e : IsBlock(e[i])
  PROVE  \A k \in 2 .. Len(e) + 3 : IsItem(Items(p, y, e)[k])
<1> DEFINE n == Len(e)
           s == Items(p, y, e)
<1>1. /\ n \in Nat /\ s[2] = PrimaryToCbor(p)
      /\ \A i \in 1 .. n : s[i + 2] = BlockToCbor(e[i])
      /\ s[n + 3] = BlockToCbor(y)
  <2> HIDE DEF s
  <2> QED BY ItemsAt DEF s
<1>2. DOMAIN e = 1 .. n
  BY SeqBasics
<1>3. ASSUME NEW b, IsBlock(b) PROVE IsItem(BlockToCbor(b))
  <2> DEFINE f == FieldsOf(b)
             l == IF b.crcType = 0 THEN 5 ELSE 6
  <2>1. "crcType" \in DOMAIN f /\ f.crcType = b.crcType
    BY DEF FieldsOf
  <2>2. BlockToCbor(b) = Item(l, f)
    BY DEF BlockToCbor
  <2> HIDE DEF f, l
  <2>3. f.crcType \in CrcTypes
    BY <1>3, <2>1 DEF IsBlock
  <2> QED BY <2>1, <2>2, <2>3 DEF IsItem
<1>4. IsItem(PrimaryToCbor(p))
  <2> DEFINE f == [version |-> p.version, flags |-> p.flags, crcType |-> p.crcType,
                   dest |-> EidToCbor(p.dest), source |-> EidToCbor(p.source),
                   reportTo |-> EidToCbor(p.reportTo), timestamp |-> p.timestamp,
                   lifetime |-> p.lifetime,
                   fragment |-> IF IsFragment \in p.flags THEN p.fragment ELSE <<>>]
             l == 8 + (IF p.crcType = 0 THEN 0 ELSE 1)
                    + (IF IsFragment \in p.flags THEN 2 ELSE 0)
  <2>1. "crcType" \in DOMAIN f /\ f.crcType = p.crcType
    OBVIOUS
  <2>2. PrimaryToCbor(p) = Item(l, f)
    BY DEF PrimaryToCbor
  <2> HIDE DEF f, l
  <2>3. f.crcType \in CrcTypes
    BY <2>1 DEF GoodPrimary
  <2> QED BY <2>1, <2>2, <2>3 DEF IsItem
<1> HIDE DEF n, s
<1> SUFFICES ASSUME NEW k \in 2 .. n + 3 PROVE IsItem(s[k])
  BY DEF n, s
<1>5. CASE k = 2
  BY <1>1, <1>4, <1>5
<1>6. CASE k = n + 3
  BY <1>1, <1>3, <1>6
<1>7. CASE k # 2 /\ k # n + 3
  <2>1. k - 2 \in 1 .. n /\ k - 2 + 2 = k
    BY <1>1, <1>7
  <2> QED BY <1>1, <1>2, <1>3, <2>1
<1> QED BY <1>5, <1>6, <1>7

(* What begins like a copy holds no end, or the items of the copy and its   *)
(* end.                                                                    *)
LEMMA EndOfCopy ==
  ASSUME NEW p, NEW y, NEW e, NEW c, NEW N, IsSeq(e), GoodPrimary(p), IsBlock(y),
         \A i \in DOMAIN e : IsBlock(e[i]),
         NEW s, IsSeq(s),
         \A m \in 1 .. Len(s) : m <= Len(Encoding(Items(p, y, e), c)) =>
            Same(s[m], Encoding(Items(p, y, e), c)[m], c, N)
  PROVE  \/ \A k \in 1 .. Len(s) : s[k].is # "end"
         \/ /\ Len(e) + 4 \in 1 .. Len(s) /\ s[Len(e) + 4].is = "end"
            /\ \A m \in 2 .. Len(e) + 3 : Same(s[m], Items(p, y, e)[m], c, N)
<1> DEFINE n == Len(e)
           items == Items(p, y, e)
           E == Encoding(items, c)
           w == Len(s)
<1>1. /\ n \in Nat /\ Len(E) = n + 5 /\ E[1] = [is |-> "begin", copy |-> c]
      /\ \A k \in 2 .. n + 3 : E[k] = items[k]
      /\ E[n + 4] = End /\ E[n + 5] = Break
  BY EncodingAt
<1>2. \A k \in 2 .. n + 3 : items[k].is = "block"
  <2>1. \A k \in 2 .. n + 3 : IsItem(items[k])
    BY ItemsAreItems
  <2> HIDE DEF items, n
  <2> QED BY <2>1, ItemIsBlock
<1>3. w \in Nat
  BY SeqBasics
<1> HIDE DEF n, items, E, w
<1>4. \A m \in 1 .. w : m <= Len(E) => Same(s[m], E[m], c, N)
  BY DEF E, w, items
<1>5. \A m \in 1 .. w : m <= Len(E) => s[m].is = E[m].is
  BY <1>4, SameKind
<1>6. E[1].is = "begin" /\ E[n + 4].is = "end" /\ \A k \in 2 .. n + 3 : E[k].is = "block"
  BY <1>1, <1>2 DEF End
<1>7. CASE w < n + 4
  <2>1. ASSUME NEW k \in 1 .. w PROVE s[k].is # "end"
    <3>1. k <= Len(E) /\ (k = 1 \/ k \in 2 .. n + 3)
      BY <1>1, <1>3, <1>7
    <3> QED BY <1>5, <1>6, <3>1
  <2> QED BY <2>1 DEF w
<1>8. CASE n + 4 <= w
  <2>1. n + 4 \in 1 .. w /\ n + 4 <= Len(E)
    BY <1>1, <1>3, <1>8
  <2>2. s[n + 4].is = "end"
    BY <1>5, <1>6, <2>1
  <2>3. ASSUME NEW m \in 2 .. n + 3 PROVE Same(s[m], items[m], c, N)
    <3>1. m \in 1 .. w /\ m <= Len(E)
      BY <1>1, <1>3, <1>8
    <3> QED BY <1>1, <1>4, <3>1
  <2> QED BY <2>1, <2>2, <2>3 DEF n, w, items
<1> QED BY <1>1, <1>3, <1>7, <1>8

LEMMA SeqInner ==
  ASSUME NEW s, IsSeq(s), NEW n \in Nat, n + 3 <= Len(s)
  PROVE  /\ IsSeq(SubSeq(s, 2, n + 3)) /\ Len(SubSeq(s, 2, n + 3)) = n + 2
         /\ \A i \in 1 .. n + 2 : SubSeq(s, 2, n + 3)[i] = s[i + 1]
<1>1. /\ 2 \in Int /\ n + 3 \in Int /\ 1 <= 2 /\ 2 <= n + 3
      /\ n + 3 - 2 + 1 = n + 2 /\ \A i \in 1 .. n + 2 : 2 + i - 1 = i + 1
  OBVIOUS
<1> QED BY <1>1, SeqPart

Unspoiled(c, N) == ~\E x \in N : x.copy = c /\ ~x.checked

(* Items that pass their checks are the items that were sent. *)
LEMMA CheckedItems ==
  ASSUME NEW p, NEW y, NEW e, NEW c, NEW N, NEW t, Parts(p, y, e),
         Unspoiled(c, N),
         NEW q, IsSeq(q), q[1].is = "begin",
         NEW k, k = Len(e) + 4, k \in 1 .. Len(q), q[k].is = "end",
         \A m \in 2 .. Len(e) + 3 : Same(q[m], Items(p, y, e)[m], c, N),
         fromCbor(q, t).valid
  PROVE  fromCbor(q, t)
           = Reading(p, y, e, t)
<1> USE DEF Parts, Unspoiled
<1> DEFINE n == Len(e)
           items == Items(p, y, e)
           base == [EmptyBundle(t) EXCEPT !.valid = TRUE]
<1>1. /\ n \in Nat /\ IsSeq(items) /\ Len(items) = n + 4
  <2> HIDE DEF items
  <2> QED BY ItemsAt DEF items
<1>2. \A m \in 2 .. n + 3 : IsItem(items[m])
  BY ItemsAreItems
<1>3. k = n + 4 /\ n + 4 \in 1 .. Len(q) /\ q[n + 4].is = "end"
  OBVIOUS
<1>4. \A m \in 2 .. n + 3 : Same(q[m], items[m], c, N)
  OBVIOUS
<1> HIDE DEF n, items
<1>5. \A m \in 2 .. n + 3 : q[m].is = "block"
  BY <1>2, <1>4, SameKind
<1>6. \A i \in 1 .. k - 1 : q[i].is # "end"
  <2>1. \A i \in 1 .. k - 1 : i = 1 \/ i \in 2 .. n + 3
    BY <1>1, <1>3
  <2> QED BY <1>5, <2>1
<1>7. Len(q) \in Nat /\ Len(q) >= 1
  BY <1>1, <1>3, SeqBasics
<1>8. fromCbor(q, t) = ReadAll(base, SubSeq(q, 2, n + 3))
  <2>1. k \in 1 .. Len(q) /\ q[k].is = "end" /\ k - 1 = n + 3
    BY <1>1, <1>3
  <2> HIDE DEF base
  <2>3. fromCbor(q, t) = ReadAll(base, SubSeq(q, 2, k - 1))
    BY <1>6, <1>7, <2>1, fromCborReads DEF base
  <2> QED BY <2>1, <2>3
<1> DEFINE a == SubSeq(q, 2, n + 3)
           b == SubSeq(items, 2, n + 3)
<1>9. IsSeq(a) /\ Len(a) = n + 2 /\ \A i \in 1 .. n + 2 : a[i] = q[i + 1]
  <2>1. n \in Nat /\ n + 3 <= Len(q)
    BY <1>1, <1>3, <1>7
  <2> QED BY <2>1, SeqInner
<1>10. IsSeq(b) /\ Len(b) = n + 2 /\ \A i \in 1 .. n + 2 : b[i] = items[i + 1]
  <2>1. n \in Nat /\ n + 3 <= Len(items) /\ IsSeq(items)
    BY <1>1
  <2> QED BY <2>1, SeqInner
<1> HIDE DEF a, b
<1>11. \A m \in 1 .. n + 2 : a[m].is = "block" /\ CrcHolds(a[m])
  <2>1. n + 2 \in Nat /\ DOMAIN a = 1 .. n + 2
    BY <1>1, <1>9, SeqBasics
  <2>2. "valid" \in DOMAIN base
    BY DEF EmptyBundle
  <2> HIDE DEF base
  <2>3. ReadAll(base, a).valid
    BY <1>8 DEF a
  <2> DEFINE l == n + 2
  <2> HIDE DEF l
  <2>4. \A m \in 1 .. l : a[m].is = "block" /\ CrcHolds(a[m])
    BY <2>1, <2>2, <2>3, ValidMeansChecked DEF l
  <2> QED BY <2>4 DEF l
<1>12. a = b
  <2>1. \A m \in 1 .. n + 2 : a[m] = b[m]
    <3> TAKE m \in 1 .. n + 2
    <3>1. m + 1 \in 2 .. n + 3
      BY <1>1
    <3>2. a[m] = q[m + 1] /\ b[m] = items[m + 1]
      BY <1>9, <1>10
    <3>3. Same(a[m], b[m], c, N) /\ IsItem(b[m])
      BY <1>2, <1>4, <3>1, <3>2
    <3> QED BY <1>11, <3>3, SameChecks
  <2> QED BY <1>9, <1>10, <2>1, SeqEquals
<1>13. ReadAll(base, b)
         = Reading(p, y, e, t)
  BY ReadItems DEF b, items, n
<1> HIDE DEF base
<1> QED BY <1>8, <1>12, <1>13 DEF a

(* What a poll finds is what was sent. *)
LEMMA PollReads ==
  ASSUME NEW p, NEW y, NEW e, NEW c, NEW N, NEW t, Parts(p, y, e),
         Unspoiled(c, N),
         NEW s, IsSeq(s),
         \A m \in 1 .. Len(s) : m <= Len(Encoding(Items(p, y, e), c)) =>
            Same(s[m], Encoding(Items(p, y, e), c)[m], c, N),
         fromCbor(s, t).valid
  PROVE  fromCbor(s, t) = Reading(p, y, e, t)
<1>1. \/ \A k \in 1 .. Len(s) : s[k].is # "end"
      \/ /\ Len(e) + 4 \in 1 .. Len(s) /\ s[Len(e) + 4].is = "end"
         /\ \A m \in 2 .. Len(e) + 3 : Same(s[m], Items(p, y, e)[m], c, N)
  BY EndOfCopy DEF Parts
<1>2. /\ Len(s) >= 1 /\ s[1].is = "begin"
      /\ \E k \in 1 .. Len(s) : s[k].is = "end" /\ \A i \in 1 .. k - 1 : s[i].is # "end"
  BY fromCborNeeds
<1> DEFINE k == Len(e) + 4
<1>3. k = Len(e) + 4 /\ k \in 1 .. Len(s) /\ s[k].is = "end"
  BY <1>1, <1>2
<1>4. \A m \in 2 .. Len(e) + 3 : Same(s[m], Items(p, y, e)[m], c, N)
  BY <1>1, <1>2
<1> HIDE DEF k
<1> QED BY <1>2, <1>3, <1>4, CheckedItems

(* What a storage reads is what was written. *)
LEMMA RecordReadsBack ==
  ASSUME NEW p, NEW y, NEW e, NEW t, Parts(p, y, e)
  PROVE  fromCbor(Items(p, y, e), t)
           = Reading(p, y, e, t)
<1> USE DEF Parts, Unspoiled
<1> DEFINE n == Len(e)
           items == Items(p, y, e)
           base == [EmptyBundle(t) EXCEPT !.valid = TRUE]
<1>1. /\ n \in Nat /\ IsSeq(items) /\ Len(items) = n + 4 /\ items[1] = Begin
      /\ items[n + 4] = End
  <2> HIDE DEF items
  <2> QED BY ItemsAt DEF items
<1>2. \A k \in 2 .. n + 3 : items[k].is = "block"
  <2>1. \A k \in 2 .. n + 3 : IsItem(items[k])
    BY ItemsAreItems
  <2> HIDE DEF items, n
  <2> QED BY <2>1, ItemIsBlock
<1> HIDE DEF n, items
<1>3. \A k \in 1 .. n + 4 - 1 : items[k].is # "end"
  <2>1. \A k \in 1 .. n + 4 - 1 : k = 1 \/ k \in 2 .. n + 3
    BY <1>1
  <2> QED BY <1>1, <1>2, <2>1 DEF Begin
<1>4. /\ Len(items) >= 1 /\ items[1].is = "begin" /\ n + 4 \in 1 .. Len(items)
      /\ items[n + 4].is = "end" /\ n + 4 - 1 = n + 3
  BY <1>1 DEF Begin, End
<1>5. fromCbor(items, t) = ReadAll(base, SubSeq(items, 2, n + 4 - 1))
  <2> HIDE DEF base
  <2> QED BY <1>1, <1>3, <1>4, fromCborReads DEF base
<1>6. ReadAll(base, SubSeq(items, 2, n + 3))
        = Reading(p, y, e, t)
  BY ReadItems DEF items, n
<1> HIDE DEF base
<1> QED BY <1>4, <1>5, <1>6 DEF items

-----------------------------------------------------------------------------
(* What the bundle is for the nodes on its way: its cargo and its counts.   *)

Goes(b) == b.type = PreviousNode \/ (Unsupported(b) /\ DiscardUnsupported \in b.flags)

Seen(b) == <<b.type, b.flags, b.crcType, IF Unsupported(b) THEN b.data ELSE NoData>>

CargoStep(s, b) == IF Goes(b) THEN s ELSE Append(s, Seen(b))

(* The cargo before the first block and after each one. *)
LEMMA CargoTrace ==
  ASSUME NEW n \in Nat, NEW b, DOMAIN b.ext = 1 .. n
  PROVE  \E r : /\ r[0] = <<>>
                /\ \A k \in 1 .. n : r[k] = CargoStep(r[k - 1], b.ext[k])
                /\ Cargo(b) = r[n]
<1> DEFINE items == b.ext
           base == <<>>
           Step(f, s) == IF s = {} THEN base ELSE CargoStep(f[s \ {Max(s)}], items[Max(s)])
           IsIter(f, k) == f = [s \in SUBSET (1 .. k) |-> Step(f, s)]
           T == {k \in 0 .. n : \E f : IsIter(f, k)}
<1>1. 0 \in T
  <2> DEFINE f == [s \in SUBSET (1 .. 0) |-> base]
  <2>1. IsIter(f, 0)
    <3>1. \A s \in SUBSET (1 .. 0) : s = {}
      OBVIOUS
    <3>2. \A s \in SUBSET (1 .. 0) : Step(f, s) = base
      BY <3>1
    <3> QED BY <3>2
  <2>2. 0 \in 0 .. n
    OBVIOUS
  <2> HIDE DEF f, IsIter
  <2> QED BY <2>1, <2>2
<1>2. ASSUME NEW k \in 0 .. n - 1, k \in T PROVE k + 1 \in T
  <2>1. PICK g : IsIter(g, k)
    BY <1>2
  <2> DEFINE U == SUBSET (1 .. k + 1)
             h == [s \in U |-> IF k + 1 \in s THEN CargoStep(g[s \ {k + 1}], items[k + 1])
                                              ELSE g[s]]
  <2>2. \A s \in SUBSET (1 .. k) : g[s] = Step(g, s)
    BY <2>1
  <2>3. \A s \in SUBSET (1 .. k) : h[s] = g[s]
    OBVIOUS
  <2>4. ASSUME NEW s \in U PROVE h[s] = Step(h, s)
    <3>1. CASE k + 1 \in s
      <4>1. Max(s) = k + 1
        BY <3>1, MaxOfTop
      <4>2. s \ {k + 1} \in SUBSET (1 .. k)
        OBVIOUS
      <4>3. h[s] = CargoStep(g[s \ {k + 1}], items[k + 1])
        BY <3>1
      <4>4. h[s \ {k + 1}] = g[s \ {k + 1}]
        BY <4>2, <2>3
      <4> HIDE DEF h
      <4> QED BY <3>1, <4>1, <4>3, <4>4
    <3>2. CASE k + 1 \notin s
      <4>1. s \in SUBSET (1 .. k) /\ s \ {Max(s)} \in SUBSET (1 .. k)
        <5>1. \A x \in s : x \in 1 .. k
          BY <3>2
        <5> QED BY <5>1
      <4>2. h[s] = g[s] /\ h[s \ {Max(s)}] = g[s \ {Max(s)}]
        BY <4>1, <2>3
      <4> HIDE DEF h
      <4> QED BY <4>1, <4>2, <2>2
    <3> QED BY <3>1, <3>2
  <2>5. h = [s \in U |-> Step(h, s)]
    <3>1. h = [s \in U |-> h[s]]
      OBVIOUS
    <3> HIDE DEF h
    <3> QED BY <3>1, <2>4
  <2>6. IsIter(h, k + 1)
    BY <2>5
  <2>7. k + 1 \in 0 .. n
    OBVIOUS
  <2> HIDE DEF h, IsIter
  <2> QED BY <2>6, <2>7
<1>3. n \in T
  <2> HIDE DEF T
  <2>1. 0 .. n \subseteq T
    BY <1>1, <1>2, SetInduction
  <2> QED BY <2>1
<1> DEFINE it == CHOOSE f : IsIter(f, n)
           r == [k \in 0 .. n |-> it[1 .. k]]
<1>4. IsIter(it, n)
  BY <1>3
<1>5. Cargo(b) = it[1 .. n]
  BY DEF Cargo, CargoStep, Goes, Seen, FoldLeft, MapThenFoldSet
<1> HIDE DEF it
<1>6. \A s \in SUBSET (1 .. n) : it[s] = Step(it, s)
  BY <1>4
<1>7. it[1 .. 0] = base
  <2>1. 1 .. 0 = {} /\ 1 .. 0 \in SUBSET (1 .. n)
    OBVIOUS
  <2> QED BY <1>6, <2>1
<1>8. ASSUME NEW k \in 1 .. n PROVE it[1 .. k] = CargoStep(it[1 .. k - 1], items[k])
  <2>1. 1 .. k # {} /\ 1 .. k \in SUBSET (1 .. n) /\ Max(1 .. k) = k
    <3>1. 1 .. k # {} /\ 1 .. k \in SUBSET (1 .. n)
      <4>1. k \in 1 .. k /\ \A x \in 1 .. k : x \in 1 .. n
        OBVIOUS
      <4> QED BY <4>1
    <3>2. k \in Nat /\ 1 .. k \in SUBSET (1 .. k) /\ k \in 1 .. k
      OBVIOUS
    <3> QED BY <3>1, <3>2, MaxOfTop
  <2>2. (1 .. k) \ {k} = 1 .. k - 1
    OBVIOUS
  <2> QED BY <1>6, <2>1, <2>2
<1>9. r[0] = it[1 .. 0] /\ \A k \in 0 .. n : r[k] = it[1 .. k]
  OBVIOUS
<1> HIDE DEF r
<1>10. \A k \in 1 .. n : r[k] = CargoStep(r[k - 1], b.ext[k])
  BY <1>8, <1>9
<1> QED BY <1>5, <1>7, <1>9, <1>10
LEMMA CargoAlike ==
  ASSUME NEW a, NEW b, IsSeq(a.ext), IsSeq(b.ext), Len(b.ext) = Len(a.ext),
         \A i \in 1 .. Len(a.ext) :
           Goes(b.ext[i]) = Goes(a.ext[i]) /\ Seen(b.ext[i]) = Seen(a.ext[i])
  PROVE  Cargo(b) = Cargo(a)
<1> DEFINE n == Len(a.ext)
<1>1. n \in Nat /\ DOMAIN a.ext = 1 .. n /\ DOMAIN b.ext = 1 .. n
  BY SeqBasics
<1> HIDE DEF n
<1>2. PICK r : /\ r[0] = <<>> /\ \A k \in 1 .. n : r[k] = CargoStep(r[k - 1], a.ext[k])
               /\ Cargo(a) = r[n]
  BY <1>1, CargoTrace
<1>3. PICK s : /\ s[0] = <<>> /\ \A k \in 1 .. n : s[k] = CargoStep(s[k - 1], b.ext[k])
               /\ Cargo(b) = s[n]
  BY <1>1, CargoTrace
<1> DEFINE T == {k \in 0 .. n : s[k] = r[k]}
<1>4. 0 \in T
  BY <1>1, <1>2, <1>3
<1>5. ASSUME NEW k \in 0 .. n - 1, k \in T PROVE k + 1 \in T
  <2> DEFINE i == k + 1
  <2>1. i \in 1 .. n /\ i - 1 = k /\ i \in 0 .. n
    BY <1>1
  <2>2. Goes(b.ext[i]) = Goes(a.ext[i]) /\ Seen(b.ext[i]) = Seen(a.ext[i])
    BY <2>1 DEF n
  <2> HIDE DEF i
  <2>3. r[i] = CargoStep(r[k], a.ext[i]) /\ s[i] = CargoStep(s[k], b.ext[i])
    BY <1>2, <1>3, <2>1
  <2>4. s[k] = r[k]
    BY <1>5
  <2>5. s[i] = r[i]
    BY <2>2, <2>3, <2>4 DEF CargoStep
  <2> QED BY <2>1, <2>5 DEF i
<1>6. 0 .. n \subseteq T
  <2> HIDE DEF T
  <2> QED BY <1>1, <1>4, <1>5, SetInduction
<1> QED BY <1>1, <1>2, <1>3, <1>6

LEMMA CargoWithout ==
  ASSUME NEW a, NEW b, IsSeq(a.ext), NEW p \in 1 .. Len(a.ext), Goes(a.ext[p]),
         b.ext = RemoveAt(a.ext, p)
  PROVE  Cargo(b) = Cargo(a)
<1> DEFINE n == Len(a.ext)
<1>1. n \in Nat /\ DOMAIN a.ext = 1 .. n /\ p \in 1 .. n /\ n - 1 \in Nat
  BY SeqBasics
<1>2. /\ DOMAIN b.ext = 1 .. n - 1
      /\ \A i \in 1 .. n - 1 : b.ext[i] = IF i < p THEN a.ext[i] ELSE a.ext[i + 1]
  <2>1. /\ IsSeq(b.ext) /\ Len(b.ext) = n - 1
        /\ \A i \in 1 .. n - 1 : b.ext[i] = IF i < p THEN a.ext[i] ELSE a.ext[i + 1]
    BY SeqWithout
  <2> QED BY <2>1, SeqBasics
<1> HIDE DEF n
<1>3. PICK r : /\ r[0] = <<>> /\ \A k \in 1 .. n : r[k] = CargoStep(r[k - 1], a.ext[k])
               /\ Cargo(a) = r[n]
  BY <1>1, CargoTrace
<1>4. PICK s : /\ s[0] = <<>> /\ \A k \in 1 .. n - 1 : s[k] = CargoStep(s[k - 1], b.ext[k])
               /\ Cargo(b) = s[n - 1]
  <2> DEFINE m == n - 1
  <2>1. m \in Nat /\ DOMAIN b.ext = 1 .. m
    BY <1>1, <1>2
  <2> HIDE DEF m
  <2>2. \E s : /\ s[0] = <<>> /\ \A k \in 1 .. m : s[k] = CargoStep(s[k - 1], b.ext[k])
               /\ Cargo(b) = s[m]
    BY <2>1, CargoTrace
  <2> QED BY <2>2 DEF m
<1> DEFINE T == {k \in 0 .. n - 1 : s[k] = IF k < p THEN r[k] ELSE r[k + 1]}
<1>5. 0 \in T
  BY <1>1, <1>3, <1>4
<1>6. r[p] = r[p - 1]
  BY <1>1, <1>3 DEF CargoStep
<1>7. ASSUME NEW k \in 0 .. n - 1 - 1, k \in T PROVE k + 1 \in T
  <2> DEFINE i == k + 1
  <2>1. i \in 1 .. n - 1 /\ i \in 1 .. n /\ i - 1 = k /\ i \in 0 .. n - 1 /\ i + 1 \in 1 .. n
        /\ i + 1 - 1 = i /\ k \in Int
    BY <1>1
  <2>2. s[k] = IF k < p THEN r[k] ELSE r[k + 1]
    BY <1>7
  <2>3. s[i] = CargoStep(s[k], b.ext[i])
    BY <1>4, <2>1
  <2>4. r[i] = CargoStep(r[k], a.ext[i]) /\ r[i + 1] = CargoStep(r[i], a.ext[i + 1])
    BY <1>3, <2>1
  <2>5. CASE i < p
    <3>1. s[k] = r[k] /\ b.ext[i] = a.ext[i]
      BY <1>1, <1>2, <2>1, <2>2, <2>5
    <3>2. s[i] = r[i]
      BY <2>3, <2>4, <3>1
    <3> QED BY <2>1, <2>5, <3>2
  <2>6. CASE ~(i < p)
    <3>1. b.ext[i] = a.ext[i + 1]
      BY <1>2, <2>1, <2>6
    <3>2. s[k] = r[i]
      <4>1. CASE k < p
        <5>1. i = p /\ p - 1 = k
          BY <1>1, <2>1, <2>6, <4>1
        <5> QED BY <1>6, <2>2, <4>1, <5>1
      <4>2. CASE ~(k < p)
        BY <2>2, <4>2
      <4> QED BY <4>1, <4>2
    <3>3. s[i] = r[i + 1]
      BY <2>3, <2>4, <3>1, <3>2
    <3> QED BY <2>1, <2>6, <3>3
  <2> QED BY <2>5, <2>6
<1>8. s[n - 1] = r[n]
  <2> DEFINE m == n - 1
  <2>1. 0 .. m \subseteq T
    <3>1. m \in Nat
      BY <1>1
    <3> HIDE DEF T
    <3> QED BY <1>5, <1>7, <3>1, SetInduction
  <2>2. m \in 0 .. m /\ m + 1 = n
    BY <1>1
  <2>3. s[m] = IF m < p THEN r[m] ELSE r[n]
    BY <2>1, <2>2
  <2>4. CASE m < p
    <3>1. p = n /\ p - 1 = m
      BY <1>1, <2>4
    <3> QED BY <1>6, <2>3, <2>4, <3>1
  <2> QED BY <2>3, <2>4
<1> QED BY <1>3, <1>4, <1>8

(* The first block of the type has the data. *)
Counted(e, type, d) ==
  \E k \in DOMAIN e : /\ e[k].type = type /\ e[k].data = d
                      /\ \A j \in 1 .. k - 1 : e[j].type # type

(* b is a, hops links and age time units later. *)
Carries(a, b, hops, age) ==
  /\ b.primary = a.primary /\ b.payload = a.payload
  /\ GoodExt(b.ext) /\ Cargo(b) = Cargo(a)
  /\ \A l : \A n \in Nat : Counted(a.ext, HopCount, <<l, n>>) =>
                             Counted(b.ext, HopCount, <<l, n + hops>>)
  /\ \A n \in Nat : Counted(a.ext, BundleAge, <<n>>) => Counted(b.ext, BundleAge, <<n + age>>)

LEMMA CarriesOn ==
  ASSUME NEW a, NEW b, NEW c, NEW h \in Nat, NEW t \in Nat, NEW k \in Nat, NEW u \in Nat,
         Carries(a, b, h, t), Carries(b, c, k, u)
  PROVE  Carries(a, c, h + k, t + u)
<1>1. ASSUME NEW l, NEW n \in Nat, Counted(a.ext, HopCount, <<l, n>>)
      PROVE  Counted(c.ext, HopCount, <<l, n + (h + k)>>)
  <2>1. n + h \in Nat /\ n + h + k = n + (h + k)
    OBVIOUS
  <2>2. Counted(b.ext, HopCount, <<l, n + h>>)
    BY <1>1 DEF Carries
  <2>3. Counted(c.ext, HopCount, <<l, n + h + k>>)
    BY <2>1, <2>2 DEF Carries
  <2> QED BY <2>1, <2>3
<1>2. ASSUME NEW n \in Nat, Counted(a.ext, BundleAge, <<n>>)
      PROVE  Counted(c.ext, BundleAge, <<n + (t + u)>>)
  <2>1. n + t \in Nat /\ n + t + u = n + (t + u)
    OBVIOUS
  <2>2. Counted(b.ext, BundleAge, <<n + t>>)
    BY <1>2 DEF Carries
  <2>3. Counted(c.ext, BundleAge, <<n + t + u>>)
    BY <2>1, <2>2 DEF Carries
  <2> QED BY <2>1, <2>3
<1>3. c.primary = a.primary /\ c.payload = a.payload /\ GoodExt(c.ext) /\ Cargo(c) = Cargo(a)
  BY DEF Carries
<1> QED BY <1>1, <1>2, <1>3 DEF Carries

LEMMA CarriesItself ==
  ASSUME NEW a, NEW b, GoodExt(a.ext), b.primary = a.primary, b.payload = a.payload,
         b.ext = a.ext
  PROVE  Carries(a, b, 0, 0)
<1>1. Cargo(b) = Cargo(a)
  <2>1. IsSeq(a.ext)
    BY DEF GoodExt
  <2> QED BY <2>1, CargoAlike
<1>2. \A n \in Nat : n + 0 = n
  OBVIOUS
<1> QED BY <1>1, <1>2 DEF Carries

(* What getHopCount, getHopLimit and getAge return. *)
LEMMA CountedFirst ==
  ASSUME NEW b, IsSeq(b.ext), NEW type, NEW d, Counted(b.ext, type, d)
  PROVE  DataOf(b, type) = d
<1> DEFINE e == b.ext
           I == {i \in 1 .. Len(e) : e[i].type = type}
<1>1. Len(e) \in Nat /\ DOMAIN e = 1 .. Len(e)
  BY SeqBasics
<1>2. PICK k \in 1 .. Len(e) : /\ e[k].type = type /\ e[k].data = d
                              /\ \A j \in 1 .. k - 1 : e[j].type # type
  BY <1>1 DEF Counted
<1>3. SelectInSeq(e, LAMBDA x : x.type = type) = IF I # {} THEN Min(I) ELSE 0
  BY DEF SelectInSeq
<1>4. I \in SUBSET (1 .. Len(e)) /\ k \in I
  BY <1>2
<1>5. Min(I) \in I /\ \A i \in I : Min(I) <= i
  <2> HIDE DEF I, e
  <2> QED BY <1>1, <1>4, LeastOf
<1>6. Min(I) = k
  <2> DEFINE m == Min(I)
  <2>1. m <= k /\ m \in 1 .. Len(e) /\ e[m].type = type
    BY <1>4, <1>5
  <2> HIDE DEF m, I
  <2>2. ASSUME m < k PROVE FALSE
    <3>1. m \in 1 .. k - 1
      BY <1>1, <2>1, <2>2
    <3> QED BY <1>2, <2>1, <3>1
  <2>3. m = k
    BY <1>1, <2>1, <2>2
  <2> QED BY <2>3 DEF m
<1>7. SelectInSeq(e, LAMBDA x : x.type = type) = k
  BY <1>3, <1>4, <1>6
<1> QED BY <1>2, <1>7 DEF DataOf

LEMMA FirstOfType ==
  ASSUME NEW e, IsSeq(e), NEW type, type \in TypesIn(e)
  PROVE  \E k \in 1 .. Len(e) : e[k].type = type /\ \A j \in 1 .. k - 1 : e[j].type # type
<1> DEFINE I == {i \in 1 .. Len(e) : e[i].type = type}
<1>1. Len(e) \in Nat /\ DOMAIN e = 1 .. Len(e)
  BY SeqBasics
<1>2. I \in SUBSET (1 .. Len(e)) /\ I # {}
  BY <1>1 DEF TypesIn
<1>3. Min(I) \in I /\ \A i \in I : Min(I) <= i
  <2> HIDE DEF I
  <2> QED BY <1>1, <1>2, LeastOf
<1>4. \A j \in 1 .. Min(I) - 1 : e[j].type # type
  <2>1. \A j \in 1 .. Min(I) - 1 : j \in 1 .. Len(e) /\ ~(Min(I) <= j)
    BY <1>1, <1>3
  <2> QED BY <1>3, <2>1
<1> QED BY <1>3, <1>4

LEMMA HopsCounted ==
  ASSUME NEW e, GoodExt(e), HopCount \in TypesIn(e)
  PROVE  \E l : \E n \in Nat : Counted(e, HopCount, <<l, n>>)
<1>1. PICK k \in 1 .. Len(e) : e[k].type = HopCount /\ \A j \in 1 .. k - 1 : e[j].type # HopCount
  BY FirstOfType DEF GoodExt
<1>2. k \in DOMAIN e
  BY SeqBasics DEF GoodExt
<1>3. e[k].data = <<e[k].data[1], e[k].data[2]>> /\ e[k].data[2] \in Nat
  BY <1>1, <1>2 DEF GoodExt, GoodBlock
<1> QED BY <1>1, <1>2, <1>3 DEF Counted

LEMMA AgeCounted ==
  ASSUME NEW e, GoodExt(e), BundleAge \in TypesIn(e)
  PROVE  \E n \in Nat : Counted(e, BundleAge, <<n>>)
<1>1. PICK k \in 1 .. Len(e) :
        e[k].type = BundleAge /\ \A j \in 1 .. k - 1 : e[j].type # BundleAge
  BY FirstOfType DEF GoodExt
<1>2. k \in DOMAIN e
  BY SeqBasics DEF GoodExt
<1>3. e[k].data = <<e[k].data[1]>> /\ e[k].data[1] \in Nat
  BY <1>1, <1>2 DEF GoodExt, GoodBlock
<1> QED BY <1>1, <1>2, <1>3 DEF Counted

LEMMA CountedTypes ==
  ASSUME NEW e, NEW type, NEW d, Counted(e, type, d)
  PROVE  type \in TypesIn(e)
  BY DEF Counted, TypesIn

(* A block is removed that goes anyway. *)
LEMMA Removal ==
  ASSUME NEW a, NEW b, GoodExt(a.ext), NEW p \in 1 .. Len(a.ext), Goes(a.ext[p]),
         b.primary = a.primary, b.payload = a.payload, b.ext = RemoveAt(a.ext, p)
  PROVE  Carries(a, b, 0, 0) /\ Len(b.ext) = Len(a.ext) - 1
         /\ \A i \in 1 .. Len(a.ext) - 1 :
              b.ext[i] = IF i < p THEN a.ext[i] ELSE a.ext[i + 1]
<1> DEFINE e == a.ext
           f == b.ext
           n == Len(e)
           At(i) == IF i < p THEN i ELSE i + 1
<1>1. IsSeq(e) /\ n \in Nat /\ DOMAIN e = 1 .. n /\ p \in 1 .. n
  BY SeqBasics DEF GoodExt
<1>2. /\ IsSeq(f) /\ Len(f) = n - 1 /\ DOMAIN f = 1 .. n - 1
      /\ \A i \in 1 .. n - 1 : f[i] = IF i < p THEN e[i] ELSE e[i + 1]
  <2>1. /\ IsSeq(f) /\ Len(f) = n - 1
        /\ \A i \in 1 .. n - 1 : f[i] = IF i < p THEN e[i] ELSE e[i + 1]
    BY <1>1, SeqWithout
  <2> QED BY <2>1, SeqBasics
<1>3. Cargo(b) = Cargo(a)
  BY <1>1, CargoWithout
<1>4. e[p].type # HopCount /\ e[p].type # BundleAge
  BY DEF Goes, Unsupported, PreviousNode, HopCount, BundleAge
<1>5. /\ \A i \in DOMAIN e : GoodBlock(e[i])
      /\ \A i, j \in DOMAIN e :
           Unsupported(e[i]) => e[i].number # 0 /\ (i # j => e[i].number # e[j].number)
  BY DEF GoodExt, Apart
<1> HIDE DEF e, f, n
<1>6. /\ \A i \in 1 .. n - 1 : At(i) \in 1 .. n /\ f[i] = e[At(i)]
      /\ \A i, j \in 1 .. n - 1 : i # j => At(i) # At(j)
  BY <1>1, <1>2
<1>7. GoodExt(f)
  <2> HIDE DEF At
  <2>1. \A i \in DOMAIN f : GoodBlock(f[i])
    BY <1>1, <1>2, <1>5, <1>6
  <2>2. \A i, j \in DOMAIN f :
          Unsupported(f[i]) => f[i].number # 0 /\ (i # j => f[i].number # f[j].number)
    <3> TAKE i, j \in DOMAIN f
    <3>1. i \in 1 .. n - 1 /\ j \in 1 .. n - 1
      BY <1>2
    <3>2. /\ At(i) \in DOMAIN e /\ At(j) \in DOMAIN e
          /\ f[i] = e[At(i)] /\ f[j] = e[At(j)] /\ (i # j => At(i) # At(j))
      BY <1>1, <1>6, <3>1
    <3> QED BY <1>5, <3>2
  <2> QED BY <1>2, <2>1, <2>2 DEF GoodExt, Apart
<1>8. ASSUME NEW type, NEW d, Counted(e, type, d), e[p].type # type
      PROVE  Counted(f, type, d)
  <2>1. PICK k \in 1 .. n : /\ e[k].type = type /\ e[k].data = d
                            /\ \A j \in 1 .. k - 1 : e[j].type # type
    BY <1>1, <1>8 DEF Counted
  <2>2. k # p
    BY <1>8, <2>1
  <2> DEFINE i == IF k < p THEN k ELSE k - 1
  <2>3. i \in 1 .. n - 1 /\ At(i) = k
    BY <1>1, <2>1, <2>2
  <2>4. \A j \in 1 .. i - 1 : j \in 1 .. n - 1 /\ At(j) \in 1 .. k - 1
    BY <1>1, <2>1, <2>2
  <2> HIDE DEF At, i
  <2>5. f[i].type = type /\ f[i].data = d /\ \A j \in 1 .. i - 1 : f[j].type # type
    BY <1>6, <2>1, <2>3, <2>4
  <2> QED BY <1>2, <2>3, <2>5 DEF Counted
<1>9. \A l : \A m \in Nat : Counted(e, HopCount, <<l, m>>) => Counted(f, HopCount, <<l, m + 0>>)
  BY <1>4, <1>8
<1>10. \A m \in Nat : Counted(e, BundleAge, <<m>>) => Counted(f, BundleAge, <<m + 0>>)
  BY <1>4, <1>8
<1> QED BY <1>2, <1>3, <1>7, <1>9, <1>10 DEF Carries, e, f, n

(* Age and hop count blocks are made anew, the others stay. *)
LEMMA Retouch ==
  ASSUME NEW a, NEW b, NEW hops \in Nat, NEW age \in Nat,
         b.primary = a.primary, b.payload = a.payload, GoodExt(a.ext),
         IsSeq(b.ext), Len(b.ext) = Len(a.ext),
         \A i \in 1 .. Len(a.ext) :
           /\ GoodBlock(b.ext[i]) /\ b.ext[i].type = a.ext[i].type
           /\ b.ext[i].flags = a.ext[i].flags /\ b.ext[i].crcType = a.ext[i].crcType
           /\ b.ext[i].number \in {a.ext[i].number, 0}
           /\ Unsupported(a.ext[i]) => b.ext[i] = a.ext[i]
           /\ a.ext[i].type = HopCount =>
                b.ext[i].data = <<a.ext[i].data[1], a.ext[i].data[2] + hops>>
           /\ a.ext[i].type = BundleAge => b.ext[i].data = <<a.ext[i].data[1] + age>>
  PROVE  Carries(a, b, hops, age)
<1> DEFINE e == a.ext
           f == b.ext
           n == Len(e)
<1>1. IsSeq(e) /\ n \in Nat /\ DOMAIN e = 1 .. n /\ IsSeq(f) /\ Len(f) = n /\ DOMAIN f = 1 .. n
  BY SeqBasics DEF GoodExt
<1>2. /\ \A i \in 1 .. n : GoodBlock(e[i])
      /\ \A i, j \in 1 .. n :
           Unsupported(e[i]) => e[i].number # 0 /\ (i # j => e[i].number # e[j].number)
  <2>1. GoodExt(e)
    OBVIOUS
  <2> HIDE DEF e, f, n
  <2>2. (\A i \in DOMAIN e : GoodBlock(e[i])) /\ Apart(e)
    BY <2>1 DEF GoodExt
  <2> QED BY <1>1, <2>2 DEF Apart
<1>3. \A i \in 1 .. n :
        /\ GoodBlock(f[i]) /\ f[i].type = e[i].type /\ f[i].flags = e[i].flags
        /\ f[i].crcType = e[i].crcType
        /\ f[i].number \in {e[i].number, 0} /\ (Unsupported(e[i]) => f[i] = e[i])
        /\ e[i].type = HopCount => f[i].data = <<e[i].data[1], e[i].data[2] + hops>>
        /\ e[i].type = BundleAge => f[i].data = <<e[i].data[1] + age>>
  OBVIOUS
<1>4. \A i \in 1 .. n : Goes(f[i]) = Goes(e[i]) /\ Seen(f[i]) = Seen(e[i])
  <2> HIDE DEF e, f, n
  <2> TAKE i \in 1 .. n
  <2>1. f[i].type = e[i].type /\ f[i].flags = e[i].flags /\ f[i].crcType = e[i].crcType
        /\ (Unsupported(e[i]) => f[i] = e[i])
    BY <1>3
  <2>2. Unsupported(f[i]) = Unsupported(e[i])
    BY <2>1 DEF Unsupported
  <2>3. Goes(f[i]) = Goes(e[i])
    BY <2>1, <2>2 DEF Goes
  <2>4. Seen(f[i]) = Seen(e[i])
    BY <2>1, <2>2 DEF Seen
  <2> QED BY <2>3, <2>4
<1>5. Cargo(b) = Cargo(a)
  BY <1>1, <1>4, CargoAlike
<1> HIDE DEF e, f, n
<1>6. GoodExt(f)
  <2>1. \A i \in DOMAIN f : GoodBlock(f[i])
    BY <1>1, <1>3
  <2>2. \A i, j \in DOMAIN f :
          Unsupported(f[i]) => f[i].number # 0 /\ (i # j => f[i].number # f[j].number)
    <3> TAKE i, j \in DOMAIN f
    <3> HAVE Unsupported(f[i])
    <3>1. i \in 1 .. n /\ j \in 1 .. n
      BY <1>1
    <3>2. Unsupported(e[i]) /\ f[i] = e[i]
      BY <1>3, <3>1 DEF Unsupported
    <3>3. f[j].number \in {e[j].number, 0}
      BY <1>3, <3>1
    <3> QED BY <1>2, <3>1, <3>2, <3>3
  <2> QED BY <1>1, <2>1, <2>2 DEF GoodExt, Apart
<1>7. ASSUME NEW l, NEW m \in Nat, Counted(e, HopCount, <<l, m>>)
      PROVE  Counted(f, HopCount, <<l, m + hops>>)
  <2>1. PICK k \in 1 .. n : /\ e[k].type = HopCount /\ e[k].data = <<l, m>>
                            /\ \A j \in 1 .. k - 1 : e[j].type # HopCount
    BY <1>1, <1>7 DEF Counted
  <2>2. f[k].type = HopCount /\ f[k].data = <<e[k].data[1], e[k].data[2] + hops>>
    BY <1>3, <2>1
  <2>3. f[k].data = <<l, m + hops>>
    BY <2>1, <2>2
  <2>4. \A j \in 1 .. k - 1 : j \in 1 .. n
    BY <1>1
  <2>5. \A j \in 1 .. k - 1 : f[j].type # HopCount
    BY <1>3, <2>1, <2>4
  <2> QED BY <1>1, <2>2, <2>3, <2>5 DEF Counted
<1>8. ASSUME NEW m \in Nat, Counted(e, BundleAge, <<m>>)
      PROVE  Counted(f, BundleAge, <<m + age>>)
  <2>1. PICK k \in 1 .. n : /\ e[k].type = BundleAge /\ e[k].data = <<m>>
                            /\ \A j \in 1 .. k - 1 : e[j].type # BundleAge
    BY <1>1, <1>8 DEF Counted
  <2>2. f[k].type = BundleAge /\ f[k].data = <<e[k].data[1] + age>>
    BY <1>3, <2>1
  <2>3. f[k].data = <<m + age>>
    BY <2>1, <2>2
  <2>4. \A j \in 1 .. k - 1 : j \in 1 .. n
    BY <1>1
  <2>5. \A j \in 1 .. k - 1 : f[j].type # BundleAge
    BY <1>3, <2>1, <2>4
  <2> QED BY <1>1, <2>2, <2>3, <2>5 DEF Counted
<1> QED BY <1>5, <1>6, <1>7, <1>8 DEF Carries, e, f

With(b, e, h) == [b EXCEPT !.ext = e, !.has = h]

LEMMA BundleWith ==
  ASSUME NEW b, IsBundle(b), NEW e, NEW h
  PROVE  LET x == With(b, e, h)
         IN  /\ IsBundle(x) /\ x.ext = e /\ x.has = h /\ x.valid = b.valid
             /\ x.primary = b.primary /\ x.payload = b.payload
             /\ x.receivedAt = b.receivedAt /\ x.retention = b.retention
<1> DEFINE v == b.valid
           p == b.primary
           y == b.payload
           u == b.used
           t == b.receivedAt
           k == b.retention
<1>1. b = BundleOf(v, p, y, b.ext, u, b.has, t, k)
  BY DEF IsBundle
<1> HIDE DEF v, p, y, u, t, k
<1>2. [b EXCEPT !.ext = e] = BundleOf(v, p, y, e, u, b.has, t, k)
  BY <1>1, BundleFields
<1>3. [BundleOf(v, p, y, e, u, b.has, t, k) EXCEPT !.has = h] = BundleOf(v, p, y, e, u, h, t, k)
  BY BundleFields
<1> DEFINE z == BundleOf(v, p, y, e, u, h, t, k)
<1>4. [b EXCEPT !.ext = e, !.has = h] = [[b EXCEPT !.ext = e] EXCEPT !.has = h]
  OBVIOUS
<1>5. [b EXCEPT !.ext = e, !.has = h] = z
  BY <1>2, <1>3, <1>4
<1>6. /\ z.valid = v /\ z.primary = p /\ z.payload = y /\ z.ext = e /\ z.used = u
      /\ z.has = h /\ z.receivedAt = t /\ z.retention = k
  BY BundleFields
<1>7. IsBundle(z)
  BY <1>6 DEF IsBundle
<1> HIDE DEF z
<1>8. With(b, e, h) = z
  BY <1>5 DEF With
<1> QED BY <1>6, <1>7, <1>8 DEF v, p, y, t, k

LEMMA BundleWithExt ==
  ASSUME NEW b, IsBundle(b), NEW e
  PROVE  LET x == [b EXCEPT !.ext = e]
         IN  /\ IsBundle(x) /\ x.ext = e /\ x.has = b.has /\ x.valid = b.valid
             /\ x.primary = b.primary /\ x.payload = b.payload
             /\ x.receivedAt = b.receivedAt /\ x.retention = b.retention
<1> DEFINE v == b.valid
           p == b.primary
           y == b.payload
           u == b.used
           h == b.has
           t == b.receivedAt
           k == b.retention
           x == BundleOf(v, p, y, e, u, h, t, k)
<1>1. b = BundleOf(v, p, y, b.ext, u, h, t, k)
  BY DEF IsBundle
<1> HIDE DEF v, p, y, u, h, t, k
<1>2. [b EXCEPT !.ext = e] = x
  BY <1>1, BundleFields
<1>3. /\ x.valid = v /\ x.primary = p /\ x.payload = y /\ x.ext = e /\ x.used = u
      /\ x.has = h /\ x.receivedAt = t /\ x.retention = k
  BY BundleFields
<1>4. IsBundle(x)
  BY <1>3 DEF IsBundle
<1> HIDE DEF x
<1> QED BY <1>2, <1>3, <1>4 DEF v, p, y, h, t, k

Kept(b, k, t) == [b EXCEPT !.retention = k, !.receivedAt = t]

LEMMA BundleWithTimes ==
  ASSUME NEW b, IsBundle(b), NEW k, NEW t
  PROVE  LET x == Kept(b, k, t)
         IN  /\ IsBundle(x) /\ x.ext = b.ext /\ x.has = b.has /\ x.valid = b.valid
             /\ x.primary = b.primary /\ x.payload = b.payload
             /\ x.receivedAt = t /\ x.retention = k
<1> DEFINE v == b.valid
           p == b.primary
           y == b.payload
           e == b.ext
           u == b.used
           h == b.has
           x == BundleOf(v, p, y, e, u, h, t, k)
<1>1. b = BundleOf(v, p, y, e, u, h, b.receivedAt, b.retention)
  BY DEF IsBundle
<1> HIDE DEF v, p, y, e, u, h
<1>2. [b EXCEPT !.retention = k] = BundleOf(v, p, y, e, u, h, b.receivedAt, k)
  BY <1>1, BundleFields
<1>3. [BundleOf(v, p, y, e, u, h, b.receivedAt, k) EXCEPT !.receivedAt = t] = x
  BY BundleFields
<1>4. [b EXCEPT !.retention = k, !.receivedAt = t]
        = [[b EXCEPT !.retention = k] EXCEPT !.receivedAt = t]
  OBVIOUS
<1>5. [b EXCEPT !.retention = k, !.receivedAt = t] = x
  BY <1>2, <1>3, <1>4
<1>6. /\ x.valid = v /\ x.primary = p /\ x.payload = y /\ x.ext = e /\ x.used = u
      /\ x.has = h /\ x.receivedAt = t /\ x.retention = k
  BY BundleFields
<1>7. IsBundle(x)
  BY <1>6 DEF IsBundle
<1>8. Kept(b, k, t) = x
  BY <1>5 DEF Kept
<1> HIDE DEF x
<1> QED BY <1>6, <1>7, <1>8 DEF v, p, y, e, h

LEMMA BundleCopied ==
  ASSUME NEW b, IsBundle(b)
  PROVE  LET x == CopyOf(b)
         IN  /\ IsBundle(x) /\ x.ext = b.ext /\ x.has = b.has /\ x.valid = b.valid
             /\ x.primary = b.primary /\ x.payload = b.payload
             /\ x.receivedAt = b.receivedAt /\ x.retention = 0
<1> DEFINE v == b.valid
           p == b.primary
           y == b.payload
           e == b.ext
           u == b.used
           h == b.has
           t == b.receivedAt
           x == BundleOf(v, p, y, e, u, h, t, 0)
<1>1. b = BundleOf(v, p, y, e, u, h, t, b.retention)
  BY DEF IsBundle
<1>2. CopyOf(b) = [b EXCEPT !.retention = 0]
  BY DEF CopyOf
<1> HIDE DEF v, p, y, e, u, h, t
<1>3. [b EXCEPT !.retention = 0] = x
  BY <1>1, BundleFields
<1>4. /\ x.valid = v /\ x.primary = p /\ x.payload = y /\ x.ext = e /\ x.used = u
      /\ x.has = h /\ x.receivedAt = t /\ x.retention = 0
  BY BundleFields
<1>5. IsBundle(x)
  BY <1>4 DEF IsBundle
<1> HIDE DEF x
<1> QED BY <1>2, <1>3, <1>4, <1>5 DEF v, p, y, e, h, t

LEMMA WithoutTypes ==
  ASSUME NEW e, IsSeq(e), NEW p \in 1 .. Len(e)
  PROVE  TypesIn(RemoveAt(e, p)) \subseteq TypesIn(e)
         /\ TypesIn(e) \subseteq TypesIn(RemoveAt(e, p)) \cup {e[p].type}
<1> DEFINE f == RemoveAt(e, p)
           n == Len(e)
<1>1. n \in Nat /\ DOMAIN e = 1 .. n /\ p \in 1 .. n
  BY SeqBasics
<1>2. /\ DOMAIN f = 1 .. n - 1
      /\ \A i \in 1 .. n - 1 : f[i] = IF i < p THEN e[i] ELSE e[i + 1]
  <2>1. /\ IsSeq(f) /\ Len(f) = n - 1
        /\ \A i \in 1 .. n - 1 : f[i] = IF i < p THEN e[i] ELSE e[i + 1]
    BY SeqWithout
  <2> QED BY <2>1, SeqBasics
<1> HIDE DEF f, n
<1>3. ASSUME NEW i \in 1 .. n - 1 PROVE f[i].type \in TypesIn(e)
  <2>1. \E j \in 1 .. n : f[i] = e[j]
    <3>1. i \in 1 .. n /\ i + 1 \in 1 .. n
      BY <1>1
    <3> QED BY <1>2, <3>1
  <2> QED BY <1>1, <2>1 DEF TypesIn
<1>4. ASSUME NEW j \in 1 .. n, j # p PROVE e[j].type \in TypesIn(f)
  <2>1. \E i \in 1 .. n - 1 : f[i] = e[j]
    <3>1. CASE j < p
      <4>1. j \in 1 .. n - 1
        BY <1>1, <3>1
      <4> QED BY <1>2, <3>1, <4>1
    <3>2. CASE j > p
      <4>1. j - 1 \in 1 .. n - 1 /\ ~(j - 1 < p) /\ j - 1 + 1 = j
        BY <1>1, <3>2
      <4> QED BY <1>2, <4>1
    <3> QED BY <1>1, <1>4, <3>1, <3>2
  <2> QED BY <1>2, <2>1 DEF TypesIn
<1>5. TypesIn(f) \subseteq TypesIn(e)
  BY <1>2, <1>3 DEF TypesIn
<1>6. TypesIn(e) \subseteq TypesIn(f) \cup {e[p].type}
  BY <1>1, <1>4 DEF TypesIn
<1> QED BY <1>5, <1>6 DEF f

(* The functions ask the bundle which of the counts it has. *)
KnowsCounts(b) == \A type \in {BundleAge, HopCount} : type \in b.has <=> type \in TypesIn(b.ext)

LEMMA PreviousNodeRemoved ==
  ASSUME NEW b, IsBundle(b), GoodExt(b.ext), b.has = Marked(TypesIn(b.ext))
  PROVE  LET x == removePreviousNode(b)
         IN  IsBundle(x) /\ Carries(b, x, 0, 0) /\ KnowsCounts(x)
             /\ \A type \in {BundleAge, HopCount} : type \in b.has => type \in x.has
<1> DEFINE e == b.ext
           I == {i \in 1 .. Len(e) : e[i].type = PreviousNode}
           p == SelectInSeq(e, LAMBDA c : c.type = PreviousNode)
           x == removePreviousNode(b)
           h == b.has \ {PreviousNode}
           f == IF Has(b, PreviousNode) THEN RemoveFirstMatch(e, LAMBDA c : c.type = PreviousNode)
                ELSE e
<1>1. IsSeq(e) /\ Len(e) \in Nat /\ DOMAIN e = 1 .. Len(e)
  BY SeqBasics DEF GoodExt
<1>2. x = With(b, f, h)
  BY DEF removePreviousNode, With
<1>3. p = IF I # {} THEN Min(I) ELSE 0
  BY DEF SelectInSeq
<1>4. f = e \/ (p \in 1 .. Len(e) /\ e[p].type = PreviousNode /\ f = RemoveAt(e, p))
  <2> SUFFICES ASSUME Has(b, PreviousNode), \E i \in 1 .. Len(e) : e[i].type = PreviousNode
               PROVE  p \in 1 .. Len(e) /\ e[p].type = PreviousNode /\ f = RemoveAt(e, p)
    BY DEF RemoveFirstMatch
  <2>1. f = RemoveAt(e, p)
    BY DEF RemoveFirstMatch
  <2>2. Min(I) \in I
    <3>1. I \in SUBSET (1 .. Len(e)) /\ I # {}
      OBVIOUS
    <3> HIDE DEF I, e
    <3> QED BY <1>1, <3>1, LeastOf
  <2>3. p = Min(I)
    BY <1>3, <2>2
  <2> HIDE DEF p, f
  <2> QED BY <2>1, <2>2, <2>3
<1> HIDE DEF f, h, p
<1>5. /\ IsBundle(x) /\ x.ext = f /\ x.has = h
      /\ x.primary = b.primary /\ x.payload = b.payload
  <2> HIDE DEF x
  <2> QED BY <1>2, BundleWith
<1>6. \A type \in {BundleAge, HopCount} : type \in h <=> type \in TypesIn(e)
  BY DEF h, Marked, PreviousNode, BundleAge, HopCount
<1>7. \A type \in {BundleAge, HopCount} : type \in b.has => type \in h
  BY DEF h, PreviousNode, BundleAge, HopCount
<1> HIDE DEF x
<1>8. CASE f = e
  <2>1. Carries(b, x, 0, 0)
    BY <1>5, <1>8, CarriesItself
  <2> QED BY <1>5, <1>6, <1>7, <1>8, <2>1 DEF KnowsCounts, x
<1>9. CASE p \in 1 .. Len(e) /\ e[p].type = PreviousNode /\ f = RemoveAt(e, p)
  <2>1. Goes(e[p])
    BY <1>9 DEF Goes
  <2>2. Carries(b, x, 0, 0)
    BY <1>5, <1>9, <2>1, Removal
  <2>3. TypesIn(f) \subseteq TypesIn(e) /\ TypesIn(e) \subseteq TypesIn(f) \cup {PreviousNode}
    BY <1>1, <1>9, WithoutTypes
  <2>4. \A type \in {BundleAge, HopCount} : type \in TypesIn(f) <=> type \in TypesIn(e)
    BY <2>3 DEF PreviousNode, BundleAge, HopCount
  <2> QED BY <1>5, <1>6, <1>7, <2>2, <2>4 DEF KnowsCounts, x
<1> QED BY <1>4, <1>8, <1>9

LEMMA BlockMade ==
  ASSUME NEW type, NEW number, NEW flags, NEW content, NEW crcType, crcType \in CrcTypes
  PROVE  LET b == Block(type, number, flags, content, crcType)
         IN  /\ IsBlock(b) /\ b.type = type /\ b.number = number /\ b.flags = flags
             /\ b.data = content /\ b.crcType = crcType
<1> DEFINE b == Block(type, number, flags, content, crcType)
<1>1. b.type = type /\ b.number = number /\ b.flags = flags /\ b.data = content
      /\ b.crcType = crcType
  BY DEF Block
<1>2. b = [valid |-> TRUE, type |-> type, number |-> number, flags |-> flags,
           data |-> content, crcType |-> crcType]
  BY DEF Block
<1> HIDE DEF b
<1>3. IsBlock(b)
  BY <1>1, <1>2 DEF IsBlock
<1> QED BY <1>1, <1>3 DEF b

LEMMA AgeIncreased ==
  ASSUME NEW b, IsBundle(b), GoodExt(b.ext), KnowsCounts(b), NEW d \in Nat
  PROVE  LET x == increaseAge(b, d)
         IN  IsBundle(x) /\ Carries(b, x, 0, d) /\ KnowsCounts(x) /\ x.has = b.has
<1> DEFINE e == b.ext
           f == [i \in DOMAIN e |->
                   IF e[i].type = BundleAge
                   THEN BundleAgeBlock(e[i].data[1] + d, e[i].crcType, e[i].number)
                   ELSE e[i]]
           x == increaseAge(b, d)
           n == Len(e)
<1>1. IsSeq(e) /\ n \in Nat /\ DOMAIN e = 1 .. n
  BY SeqBasics DEF GoodExt
<1>2. CASE ~Has(b, BundleAge)
  <2>1. x = b
    BY <1>2 DEF increaseAge
  <2>2. Carries(b, b, 0, 0)
    BY CarriesItself
  <2>3. \A m : ~Counted(e, BundleAge, m)
    BY <1>2, CountedTypes DEF KnowsCounts, Has
  <2>4. Carries(b, b, 0, d)
    BY <2>2, <2>3 DEF Carries
  <2> HIDE DEF x
  <2> QED BY <2>1, <2>4 DEF x
<1>3. CASE Has(b, BundleAge)
  <2>1. x = [b EXCEPT !.ext = f]
    BY <1>3 DEF increaseAge
  <2>2. IsSeq(f) /\ Len(f) = n
    <3>1. f = [i \in 1 .. n |-> f[i]]
      BY <1>1
    <3> HIDE DEF f
    <3> QED BY <1>1, <3>1, SeqOfFunction
  <2>3. ASSUME NEW i \in 1 .. n
        PROVE  /\ GoodBlock(f[i]) /\ f[i].type = e[i].type
               /\ f[i].flags = e[i].flags /\ f[i].crcType = e[i].crcType
               /\ f[i].number \in {e[i].number, 0}
               /\ Unsupported(e[i]) => f[i] = e[i]
               /\ e[i].type = HopCount => f[i].data = <<e[i].data[1], e[i].data[2] + 0>>
               /\ e[i].type = BundleAge => f[i].data = <<e[i].data[1] + d>>
    <3>1. GoodBlock(e[i])
      BY <1>1 DEF GoodExt
    <3>2. CASE e[i].type = BundleAge
      <4> DEFINE a == e[i].data[1] + d
                 c == Block(BundleAge, e[i].number, {}, <<a>>, e[i].crcType)
      <4>1. f[i] = c
        BY <1>1, <3>2 DEF BundleAgeBlock
      <4>2. e[i].flags = {} /\ e[i].data[1] \in Nat /\ e[i].crcType \in CrcTypes
        BY <3>1, <3>2 DEF GoodBlock, IsBlock
      <4>3. /\ IsBlock(c) /\ c.type = BundleAge /\ c.number = e[i].number /\ c.flags = {}
            /\ c.data = <<a>> /\ c.crcType = e[i].crcType
        BY <4>2, BlockMade
      <4>4. a \in Nat
        BY <4>2
      <4> HIDE DEF a, c, f, e
      <4>5. GoodBlock(c)
        BY <4>3, <4>4 DEF GoodBlock, Payload, BundleAge, HopCount
      <4> QED BY <3>2, <4>1, <4>2, <4>3, <4>5 DEF Unsupported, BundleAge, HopCount, a
    <3>3. CASE e[i].type # BundleAge
      <4>1. f[i] = e[i]
        BY <1>1, <3>3
      <4>2. e[i].type = HopCount => e[i].data = <<e[i].data[1], e[i].data[2] + 0>>
        BY <3>1 DEF GoodBlock
      <4> HIDE DEF f, e
      <4> QED BY <3>1, <3>3, <4>1, <4>2
    <3> QED BY <3>2, <3>3
  <2> HIDE DEF f, x
  <2>4. /\ IsBundle(x) /\ x.ext = f /\ x.has = b.has
        /\ x.primary = b.primary /\ x.payload = b.payload
    <3> DEFINE z == [b EXCEPT !.ext = f]
    <3>1. /\ IsBundle(z) /\ z.ext = f /\ z.has = b.has
          /\ z.primary = b.primary /\ z.payload = b.payload
      BY BundleWithExt
    <3>2. x = z
      BY <2>1
    <3> HIDE DEF z
    <3> QED BY <3>1, <3>2
  <2>5. Carries(b, x, 0, d)
    BY <2>2, <2>3, <2>4, Retouch
  <2>6. TypesIn(f) = TypesIn(e)
    <3>1. DOMAIN f = 1 .. n
      BY <2>2, SeqBasics
    <3> QED BY <1>1, <2>3, <3>1 DEF TypesIn
  <2> QED BY <2>4, <2>5, <2>6 DEF KnowsCounts, x
<1> QED BY <1>2, <1>3

LEMMA HopsIncreased ==
  ASSUME NEW b, IsBundle(b), GoodExt(b.ext), KnowsCounts(b)
  PROVE  LET x == increaseHopCount(b)
         IN  IsBundle(x) /\ Carries(b, x, 1, 0) /\ KnowsCounts(x) /\ x.has = b.has
<1> DEFINE e == b.ext
           f == [i \in DOMAIN e |->
                   IF e[i].type = HopCount
                   THEN HopCountBlock(e[i].data[1], e[i].data[2] + 1, e[i].crcType, e[i].number)
                   ELSE e[i]]
           x == increaseHopCount(b)
           n == Len(e)
<1>1. IsSeq(e) /\ n \in Nat /\ DOMAIN e = 1 .. n
  BY SeqBasics DEF GoodExt
<1>2. CASE ~Has(b, HopCount)
  <2>1. x = b
    BY <1>2 DEF increaseHopCount
  <2>2. Carries(b, b, 0, 0)
    BY CarriesItself
  <2>3. \A m : ~Counted(e, HopCount, m)
    BY <1>2, CountedTypes DEF KnowsCounts, Has
  <2>4. Carries(b, b, 1, 0)
    BY <2>2, <2>3 DEF Carries
  <2> HIDE DEF x
  <2> QED BY <2>1, <2>4 DEF x
<1>3. CASE Has(b, HopCount)
  <2>1. x = [b EXCEPT !.ext = f]
    BY <1>3 DEF increaseHopCount
  <2>2. IsSeq(f) /\ Len(f) = n
    <3>1. f = [i \in 1 .. n |-> f[i]]
      BY <1>1
    <3> HIDE DEF f
    <3> QED BY <1>1, <3>1, SeqOfFunction
  <2>3. ASSUME NEW i \in 1 .. n
        PROVE  /\ GoodBlock(f[i]) /\ f[i].type = e[i].type
               /\ f[i].flags = e[i].flags /\ f[i].crcType = e[i].crcType
               /\ f[i].number \in {e[i].number, 0}
               /\ Unsupported(e[i]) => f[i] = e[i]
               /\ e[i].type = HopCount => f[i].data = <<e[i].data[1], e[i].data[2] + 1>>
               /\ e[i].type = BundleAge => f[i].data = <<e[i].data[1] + 0>>
    <3>1. GoodBlock(e[i])
      BY <1>1 DEF GoodExt
    <3>2. CASE e[i].type = HopCount
      <4> DEFINE l == e[i].data[1]
                 a == e[i].data[2] + 1
                 c == Block(HopCount, 0, {}, <<l, a>>, e[i].crcType)
      <4>1. f[i] = c
        BY <1>1, <3>2 DEF HopCountBlock
      <4>2. e[i].flags = {} /\ e[i].data[2] \in Nat /\ e[i].crcType \in CrcTypes
        BY <3>1, <3>2 DEF GoodBlock, IsBlock
      <4>3. /\ IsBlock(c) /\ c.type = HopCount /\ c.number = 0 /\ c.flags = {}
            /\ c.data = <<l, a>> /\ c.crcType = e[i].crcType
        BY <4>2, BlockMade
      <4>4. a \in Nat
        BY <4>2
      <4> HIDE DEF a, l, c, f, e
      <4>5. GoodBlock(c)
        BY <4>3, <4>4 DEF GoodBlock, Payload, BundleAge, HopCount
      <4> QED BY <3>2, <4>1, <4>2, <4>3, <4>5 DEF Unsupported, BundleAge, HopCount, a, l
    <3>3. CASE e[i].type # HopCount
      <4>1. f[i] = e[i]
        BY <1>1, <3>3
      <4>2. e[i].type = BundleAge => e[i].data = <<e[i].data[1] + 0>>
        BY <3>1 DEF GoodBlock
      <4> HIDE DEF f, e
      <4> QED BY <3>1, <3>3, <4>1, <4>2
    <3> QED BY <3>2, <3>3
  <2> HIDE DEF f, x
  <2>4. /\ IsBundle(x) /\ x.ext = f /\ x.has = b.has
        /\ x.primary = b.primary /\ x.payload = b.payload
    <3> DEFINE z == [b EXCEPT !.ext = f]
    <3>1. /\ IsBundle(z) /\ z.ext = f /\ z.has = b.has
          /\ z.primary = b.primary /\ z.payload = b.payload
      BY BundleWithExt
    <3>2. x = z
      BY <2>1
    <3> HIDE DEF z
    <3> QED BY <3>1, <3>2
  <2>5. Carries(b, x, 1, 0)
    BY <2>2, <2>3, <2>4, Retouch
  <2>6. TypesIn(f) = TypesIn(e)
    <3>1. DOMAIN f = 1 .. n
      BY <2>2, SeqBasics
    <3> QED BY <1>1, <2>3, <3>1 DEF TypesIn
  <2> QED BY <2>4, <2>5, <2>6 DEF KnowsCounts, x
<1> QED BY <1>2, <1>3

(* What prepareForSend makes of a bundle that has been d at the node. *)
LEMMA BundlePrepared ==
  ASSUME NEW b, IsBundle(b), GoodExt(b.ext), b.has = Marked(TypesIn(b.ext)), NEW d \in Nat
  PROVE  LET x == increaseHopCount(increaseAge(removePreviousNode(CopyOf(b)), d))
         IN  Carries(b, x, 1, d)
             /\ \A type \in {BundleAge, HopCount} : type \in b.has => type \in x.has
<1> DEFINE b0 == CopyOf(b)
           b1 == removePreviousNode(b0)
           b2 == increaseAge(b1, d)
           b3 == increaseHopCount(b2)
<1>1. IsBundle(b0) /\ b0.ext = b.ext /\ b0.has = b.has
      /\ b0.primary = b.primary /\ b0.payload = b.payload
  BY BundleCopied
<1>2. Carries(b, b0, 0, 0)
  <2> HIDE DEF b0
  <2> QED BY <1>1, CarriesItself
<1> HIDE DEF b0
<1>3. IsBundle(b1) /\ Carries(b0, b1, 0, 0) /\ KnowsCounts(b1)
      /\ \A type \in {BundleAge, HopCount} : type \in b.has => type \in b1.has
  BY <1>1, PreviousNodeRemoved
<1> HIDE DEF b1
<1>4. IsBundle(b2) /\ Carries(b1, b2, 0, d) /\ KnowsCounts(b2) /\ b2.has = b1.has
  <2>1. GoodExt(b1.ext)
    BY <1>3 DEF Carries
  <2> QED BY <1>3, <2>1, AgeIncreased
<1> HIDE DEF b2
<1>5. Carries(b2, b3, 1, 0) /\ b3.has = b2.has
  <2>1. GoodExt(b2.ext)
    BY <1>4 DEF Carries
  <2> QED BY <1>4, <2>1, HopsIncreased
<1> HIDE DEF b3
<1>6. Carries(b, b1, 0, 0)
  <2>1. Carries(b, b1, 0 + 0, 0 + 0)
    BY <1>2, <1>3, CarriesOn
  <2> QED BY <2>1
<1>7. Carries(b, b2, 0, d)
  <2>1. Carries(b, b2, 0 + 0, 0 + d)
    BY <1>4, <1>6, CarriesOn
  <2> QED BY <2>1
<1>8. Carries(b, b3, 1, d)
  <2>1. Carries(b, b3, 0 + 1, d + 0)
    BY <1>5, <1>7, CarriesOn
  <2> QED BY <2>1
<1> QED BY <1>3, <1>4, <1>5, <1>8 DEF b3, b2, b1, b0


-----------------------------------------------------------------------------
(* bundleReception removes blocks.                                         *)

RemoveTurn(b, x) ==
  IF Unsupported(x) /\ DiscardUnsupported \in x.flags THEN removeBlock(b, x.number) ELSE b

TakeTurns(ghost, base, items) == FoldLeft(LAMBDA s, i : Turn(ghost, s, i), base, items)

(* As for fromCbor. *)
LEMMA ProcessTrace ==
  ASSUME NEW n \in Nat, NEW items, DOMAIN items = 1 .. n, NEW base, NEW ghost
  PROVE  \E r : /\ r[0] = base
                /\ \A k \in 1 .. n : r[k] = Turn(ghost, r[k - 1], items[k])
                /\ TakeTurns(ghost, base, items) = r[n]
<1> DEFINE Step(f, s) == IF s = {} THEN base ELSE Turn(ghost, f[s \ {Max(s)}], items[Max(s)])
           IsIter(f, k) == f = [s \in SUBSET (1 .. k) |-> Step(f, s)]
           T == {k \in 0 .. n : \E f : IsIter(f, k)}
<1>1. 0 \in T
  <2> DEFINE f == [s \in SUBSET (1 .. 0) |-> base]
  <2>1. IsIter(f, 0)
    <3>1. \A s \in SUBSET (1 .. 0) : s = {}
      OBVIOUS
    <3>2. \A s \in SUBSET (1 .. 0) : Step(f, s) = base
      BY <3>1
    <3> QED BY <3>2
  <2>2. 0 \in 0 .. n
    OBVIOUS
  <2> HIDE DEF f, IsIter
  <2> QED BY <2>1, <2>2
<1>2. ASSUME NEW k \in 0 .. n - 1, k \in T PROVE k + 1 \in T
  <2>1. PICK g : IsIter(g, k)
    BY <1>2
  <2> DEFINE U == SUBSET (1 .. k + 1)
             h == [s \in U |-> IF k + 1 \in s THEN Turn(ghost, g[s \ {k + 1}], items[k + 1])
                                              ELSE g[s]]
  <2>2. \A s \in SUBSET (1 .. k) : g[s] = Step(g, s)
    BY <2>1
  <2>3. \A s \in SUBSET (1 .. k) : h[s] = g[s]
    OBVIOUS
  <2>4. ASSUME NEW s \in U PROVE h[s] = Step(h, s)
    <3>1. CASE k + 1 \in s
      <4>1. Max(s) = k + 1
        BY <3>1, MaxOfTop
      <4>2. s \ {k + 1} \in SUBSET (1 .. k)
        OBVIOUS
      <4>3. h[s] = Turn(ghost, g[s \ {k + 1}], items[k + 1])
        BY <3>1
      <4>4. h[s \ {k + 1}] = g[s \ {k + 1}]
        BY <4>2, <2>3
      <4> HIDE DEF h
      <4> QED BY <3>1, <4>1, <4>3, <4>4
    <3>2. CASE k + 1 \notin s
      <4>1. s \in SUBSET (1 .. k) /\ s \ {Max(s)} \in SUBSET (1 .. k)
        <5>1. \A x \in s : x \in 1 .. k
          BY <3>2
        <5> QED BY <5>1
      <4>2. h[s] = g[s] /\ h[s \ {Max(s)}] = g[s \ {Max(s)}]
        BY <4>1, <2>3
      <4> HIDE DEF h
      <4> QED BY <4>1, <4>2, <2>2
    <3> QED BY <3>1, <3>2
  <2>5. h = [s \in U |-> Step(h, s)]
    <3>1. h = [s \in U |-> h[s]]
      OBVIOUS
    <3> HIDE DEF h
    <3> QED BY <3>1, <2>4
  <2>6. IsIter(h, k + 1)
    BY <2>5
  <2>7. k + 1 \in 0 .. n
    OBVIOUS
  <2> HIDE DEF h, IsIter
  <2> QED BY <2>6, <2>7
<1>3. n \in T
  <2> HIDE DEF T
  <2>1. 0 .. n \subseteq T
    BY <1>1, <1>2, SetInduction
  <2> QED BY <2>1
<1> DEFINE it == CHOOSE f : IsIter(f, n)
           r == [k \in 0 .. n |-> it[1 .. k]]
<1>4. IsIter(it, n)
  BY <1>3
<1>5. TakeTurns(ghost, base, items) = it[1 .. n]
  BY DEF TakeTurns, FoldLeft, MapThenFoldSet
<1> HIDE DEF it
<1>6. \A s \in SUBSET (1 .. n) : it[s] = Step(it, s)
  BY <1>4
<1>7. it[1 .. 0] = base
  <2>1. 1 .. 0 = {} /\ 1 .. 0 \in SUBSET (1 .. n)
    OBVIOUS
  <2> QED BY <1>6, <2>1
<1>8. ASSUME NEW k \in 1 .. n PROVE it[1 .. k] = Turn(ghost, it[1 .. k - 1], items[k])
  <2>1. 1 .. k # {} /\ 1 .. k \in SUBSET (1 .. n) /\ Max(1 .. k) = k
    <3>1. 1 .. k # {} /\ 1 .. k \in SUBSET (1 .. n)
      <4>1. k \in 1 .. k /\ \A x \in 1 .. k : x \in 1 .. n
        OBVIOUS
      <4> QED BY <4>1
    <3>2. k \in Nat /\ 1 .. k \in SUBSET (1 .. k) /\ k \in 1 .. k
      OBVIOUS
    <3> QED BY <3>1, <3>2, MaxOfTop
  <2>2. (1 .. k) \ {k} = 1 .. k - 1
    OBVIOUS
  <2> QED BY <1>6, <2>1, <2>2
<1>9. r[0] = it[1 .. 0] /\ \A k \in 0 .. n : r[k] = it[1 .. k]
  OBVIOUS
<1> HIDE DEF r
<1>10. \A k \in 1 .. n : r[k] = Turn(ghost, r[k - 1], items[k])
  BY <1>8, <1>9
<1> QED BY <1>5, <1>7, <1>9, <1>10

(* Part of a bundle o has been processed. *)
PartDone(o, b) ==
  /\ IsBundle(b) /\ Carries(o, b, 0, 0) /\ b.has = Marked(TypesIn(b.ext))
  /\ b.valid = o.valid /\ b.receivedAt = o.receivedAt /\ b.retention = o.retention
  /\ \A i \in DOMAIN b.ext : \E j \in DOMAIN o.ext : b.ext[i] = o.ext[j]

LEMMA TurnRemoves ==
  ASSUME NEW o, GoodExt(o.ext), NEW b, PartDone(o, b), NEW k \in DOMAIN o.ext
  PROVE  PartDone(o, RemoveTurn(b, o.ext[k]))
<1> DEFINE x == o.ext[k]
           e == b.ext
           I == {i \in 1 .. Len(e) : e[i].number = x.number}
           p == SelectInSeq(e, LAMBDA c : c.number = x.number)
           f == RemoveAt(e, p)
           h == b.has \ {e[p].type}
           r == RemoveTurn(b, x)
<1>1. IsSeq(e) /\ Len(e) \in Nat /\ DOMAIN e = 1 .. Len(e) /\ GoodExt(e)
  <2>1. GoodExt(e)
    BY DEF PartDone, Carries
  <2> QED BY <2>1, SeqBasics DEF GoodExt
<1>2. p = IF I # {} THEN Min(I) ELSE 0
  BY DEF SelectInSeq
<1>3. p = 0 \/ (p \in 1 .. Len(e) /\ e[p].number = x.number)
  <2> SUFFICES ASSUME I # {} PROVE p \in 1 .. Len(e) /\ e[p].number = x.number
    BY <1>2
  <2>1. Min(I) \in I
    <3>1. I \in SUBSET (1 .. Len(e))
      OBVIOUS
    <3> HIDE DEF I, e
    <3> QED BY <1>1, <3>1, LeastOf
  <2>2. p = Min(I)
    BY <1>2
  <2> HIDE DEF p
  <2> QED BY <2>1, <2>2
<1>4. r = b \/ (Unsupported(x) /\ DiscardUnsupported \in x.flags /\ p # 0 /\ r = With(b, f, h))
  BY DEF RemoveTurn, removeBlock, With
<1> HIDE DEF p, r
<1>5. CASE r = b
  BY <1>5 DEF r, x
<1>6. CASE /\ Unsupported(x) /\ DiscardUnsupported \in x.flags
           /\ p \in 1 .. Len(e) /\ e[p].number = x.number /\ r = With(b, f, h)
  <2>1. e[p] = x
    <3>1. PICK j \in DOMAIN o.ext : e[p] = o.ext[j]
      BY <1>1, <1>6 DEF PartDone
    <3>2. k # j => x.number # o.ext[j].number
      BY <1>6 DEF GoodExt, Apart
    <3> QED BY <1>6, <3>1, <3>2
  <2>2. Goes(e[p]) /\ e[p].type \notin {PreviousNode, BundleAge, HopCount}
    BY <1>6, <2>1 DEF Goes, Unsupported
  <2> HIDE DEF f, h
  <2>3. /\ IsBundle(r) /\ r.ext = f /\ r.has = h /\ r.valid = b.valid
        /\ r.primary = b.primary /\ r.payload = b.payload
        /\ r.receivedAt = b.receivedAt /\ r.retention = b.retention
    BY <1>6, BundleWith DEF PartDone
  <2>4. /\ Carries(b, r, 0, 0) /\ Len(r.ext) = Len(e) - 1
        /\ \A i \in 1 .. Len(e) - 1 : r.ext[i] = IF i < p THEN e[i] ELSE e[i + 1]
    <3>1. r.ext = RemoveAt(b.ext, p)
      BY <2>3 DEF f
    <3>2. GoodExt(b.ext) /\ p \in 1 .. Len(b.ext) /\ Goes(b.ext[p])
      BY <1>1, <1>6, <2>2
    <3>3. r.primary = b.primary /\ r.payload = b.payload
      BY <2>3
    <3> HIDE DEF e, r
    <3>4. /\ Carries(b, r, 0, 0) /\ Len(r.ext) = Len(b.ext) - 1
          /\ \A i \in 1 .. Len(b.ext) - 1 :
               r.ext[i] = IF i < p THEN b.ext[i] ELSE b.ext[i + 1]
      BY <3>1, <3>2, <3>3, Removal
    <3> QED BY <3>4 DEF e
  <2>5. Carries(o, r, 0, 0)
    <3>1. Carries(o, r, 0 + 0, 0 + 0)
      BY <2>4, CarriesOn DEF PartDone
    <3> QED BY <3>1
  <2>6. TypesIn(f) \subseteq TypesIn(e) /\ TypesIn(e) \subseteq TypesIn(f) \cup {e[p].type}
    BY <1>1, <1>6, WithoutTypes DEF f
  <2>7. h = Marked(TypesIn(f))
    <3>1. b.has = Marked(TypesIn(e))
      BY DEF PartDone
    <3> QED BY <2>2, <2>6, <3>1 DEF Marked, h
  <2>8. \A i \in DOMAIN r.ext : \E j \in DOMAIN o.ext : r.ext[i] = o.ext[j]
    <3> TAKE i \in DOMAIN r.ext
    <3>1. i \in 1 .. Len(e) - 1
      <4>1. IsSeq(r.ext)
        BY <2>5 DEF Carries, GoodExt
      <4> QED BY <2>4, <4>1, SeqBasics
    <3>2. i \in DOMAIN e /\ i + 1 \in DOMAIN e
      BY <1>1, <3>1
    <3>3. r.ext[i] = e[i] \/ r.ext[i] = e[i + 1]
      BY <2>4, <3>1
    <3> QED BY <3>2, <3>3 DEF PartDone
  <2> QED BY <2>3, <2>5, <2>7, <2>8 DEF PartDone, r, x
<1> QED BY <1>3, <1>4, <1>5, <1>6

(* The block a turn looks at was in the bundle, or is an empty one. *)
LEMMA TurnDone ==
  ASSUME NEW o, GoodExt(o.ext), NEW ghost \in Ghosts(o), NEW s, "bundle" \in DOMAIN s,
         PartDone(o, s.bundle), NEW i \in 1 .. Len(o.ext)
  PROVE  /\ "bundle" \in DOMAIN Turn(ghost, s, i)
         /\ PartDone(o, Turn(ghost, s, i).bundle)
<1> DEFINE b == s.bundle
           e == b.ext
           x == IF i <= Len(e) THEN e[i] ELSE ghost
           t == Turn(ghost, s, i)
<1>1. /\ Len(e) \in Nat /\ DOMAIN e = 1 .. Len(e)
      /\ Len(o.ext) \in Nat /\ DOMAIN o.ext = 1 .. Len(o.ext)
  <2>1. IsSeq(e) /\ IsSeq(o.ext)
    BY DEF PartDone, Carries, GoodExt
  <2> QED BY <2>1, SeqBasics
<1>2. x = EmptyBlock \/ \E k \in DOMAIN o.ext : x = o.ext[k]
  <2>1. CASE i <= Len(e)
    <3>1. i \in DOMAIN e
      BY <1>1, <2>1
    <3> QED BY <2>1, <3>1 DEF PartDone
  <2>2. CASE ~(i <= Len(e))
    BY <2>2 DEF Ghosts
  <2> QED BY <2>1, <2>2
<1>3. \/ t = s \/ t = [s EXCEPT !.fate = "deleted"]
      \/ /\ Unsupported(x) /\ DiscardUnsupported \in x.flags
         /\ t = [s EXCEPT !.bundle = removeBlock(@, x.number)]
  BY DEF Turn
<1> HIDE DEF x, t
<1>4. CASE t = s \/ t = [s EXCEPT !.fate = "deleted"]
  <2>1. "bundle" \in DOMAIN t /\ t.bundle = b
    BY <1>4
  <2> QED BY <2>1 DEF t
<1>5. CASE /\ Unsupported(x) /\ DiscardUnsupported \in x.flags
           /\ t = [s EXCEPT !.bundle = removeBlock(@, x.number)]
  <2>1. PICK k \in DOMAIN o.ext : x = o.ext[k]
    BY <1>2, <1>5 DEF EmptyBlock
  <2>2. "bundle" \in DOMAIN t /\ t.bundle = RemoveTurn(b, o.ext[k])
    BY <1>5, <2>1 DEF RemoveTurn
  <2>3. PartDone(o, RemoveTurn(b, o.ext[k]))
    BY TurnRemoves
  <2> QED BY <2>2, <2>3 DEF t
<1> QED BY <1>3, <1>4, <1>5

(* What bundleReception leaves of a bundle. *)
LEMMA BundleProcessed ==
  ASSUME NEW b, IsBundle(b), GoodExt(b.ext), b.has = Marked(TypesIn(b.ext)),
         NEW ghost \in Ghosts(b)
  PROVE  PartDone(b, Process(b, ghost).bundle)
<1> DEFINE n == Len(b.ext)
           items == [i \in DOMAIN b.ext |-> i]
           base == [bundle |-> b, fate |-> "travels"]
<1>1. n \in Nat /\ DOMAIN b.ext = 1 .. n
  BY SeqBasics DEF GoodExt
<1>2. DOMAIN items = 1 .. n /\ \A k \in 1 .. n : items[k] = k
  BY <1>1
<1>3. "bundle" \in DOMAIN base /\ base.bundle = b
  OBVIOUS
<1>4. Process(b, ghost) = TakeTurns(ghost, base, items)
  BY DEF Process, TakeTurns
<1> HIDE DEF n, items, base
<1>5. PICK r : /\ r[0] = base
               /\ \A k \in 1 .. n : r[k] = Turn(ghost, r[k - 1], items[k])
               /\ TakeTurns(ghost, base, items) = r[n]
  BY <1>1, <1>2, ProcessTrace
<1> DEFINE T == {k \in 0 .. n : "bundle" \in DOMAIN r[k] /\ PartDone(b, r[k].bundle)}
<1>6. 0 \in T
  <2>1. PartDone(b, b)
    BY CarriesItself DEF PartDone
  <2> QED BY <1>1, <1>3, <1>5, <2>1
<1>7. ASSUME NEW k \in 0 .. n - 1, k \in T PROVE k + 1 \in T
  <2>1. k + 1 \in 1 .. n /\ k + 1 - 1 = k
    BY <1>1
  <2>2. r[k + 1] = Turn(ghost, r[k], k + 1)
    BY <1>2, <1>5, <2>1
  <2>3. k + 1 \in 1 .. Len(b.ext)
    BY <2>1 DEF n
  <2>4. "bundle" \in DOMAIN r[k] /\ PartDone(b, r[k].bundle)
    BY <1>7
  <2>5. "bundle" \in DOMAIN r[k + 1] /\ PartDone(b, r[k + 1].bundle)
    BY <2>2, <2>3, <2>4, TurnDone
  <2> QED BY <2>1, <2>5
<1>8. n \in T
  <2> HIDE DEF T
  <2>1. 0 .. n \subseteq T
    BY <1>1, <1>6, <1>7, SetInduction
  <2> QED BY <1>1, <2>1
<1> QED BY <1>4, <1>5, <1>8

-----------------------------------------------------------------------------
(* The line: what is still to come of the last copy, and what has arrived. *)

(* Copy c of bundle b, as it is sent. *)
CopyOfBundle(b, c) == Encoding(toCbor(b), c)

LEMMA CopyAt ==
  ASSUME NEW b, WellFormed(b), NEW c
  PROVE  LET E == CopyOfBundle(b, c)
         IN  /\ IsSeq(E) /\ Len(E) \in Nat /\ Len(E) >= 1
             /\ E[1] = [is |-> "begin", copy |-> c]
             /\ \A k \in 2 .. Len(E) : E[k].is # "begin"
             /\ \A k \in 1 .. Len(E) : E[k].is = "block" => IsItem(E[k])
<1> DEFINE p == b.primary
           y == b.payload
           e == b.ext
           n == Len(e)
           items == Items(p, y, e)
           E == Encoding(items, c)
<1>1. IsSeq(e) /\ GoodPrimary(p) /\ IsBlock(y) /\ \A i \in DOMAIN e : IsBlock(e[i])
  BY DEF WellFormed, Parts
<1>2. CopyOfBundle(b, c) = E
  BY toCborItems DEF CopyOfBundle
<1> HIDE DEF p, y, e
<1>3. /\ n \in Nat /\ IsSeq(E) /\ Len(E) = n + 5 /\ E[1] = [is |-> "begin", copy |-> c]
      /\ \A k \in 2 .. n + 3 : E[k] = items[k]
      /\ E[n + 4] = End /\ E[n + 5] = Break
  <2> HIDE DEF n, items, E
  <2> QED BY <1>1, EncodingAt DEF n, items, E
<1>4. \A k \in 2 .. n + 3 : IsItem(items[k]) /\ items[k].is = "block"
  <2>1. \A k \in 2 .. n + 3 : IsItem(items[k])
    BY <1>1, ItemsAreItems
  <2> HIDE DEF items, n
  <2> QED BY <2>1, ItemIsBlock
<1> HIDE DEF n, items, E
<1>5. End.is = "end" /\ Break.is = "break" /\ [is |-> "begin", copy |-> c].is = "begin"
  BY DEF End, Break
<1>6. \A k \in 2 .. Len(E) : E[k].is # "begin" /\ (E[k].is = "block" => IsItem(E[k]))
  <2>1. \A k \in 2 .. Len(E) : k \in 2 .. n + 3 \/ k = n + 4 \/ k = n + 5
    BY <1>3
  <2> QED BY <1>3, <1>4, <1>5, <2>1
<1>7. E[1].is = "begin" /\ \A k \in 1 .. Len(E) : k = 1 \/ k \in 2 .. Len(E)
  BY <1>3, <1>5
<1>8. Len(E) \in Nat /\ Len(E) >= 1
  BY <1>3
<1> QED BY <1>2, <1>3, <1>6, <1>7, <1>8

(* o is the end of E, copy c. *)
Coming(o, E, c, N) ==
  /\ IsSeq(o) /\ Len(o) <= Len(E)
  /\ \A k \in 1 .. Len(o) : Same(o[k], E[Len(E) - Len(o) + k], c, N)

(* At i of r one of the s copies begins; what is not there of it is coming, *)
(* unless the buffer is full.                                               *)
BeginAt(r, o, i, F, s, N) ==
  LET c == r[i].copy
      E == CopyOfBundle(F[c], c)
  IN  /\ c \in 1 .. s /\ Like(r, i, E, c, N)
      /\ Len(r) < UartBuffer /\ Len(r) - i + 1 < Len(E) =>
           c = s /\ Len(o) = Len(E) - (Len(r) - i + 1)

Arrived(r, o, F, s, N) ==
  /\ IsSeq(r)
  /\ \A i \in 1 .. Len(r) : r[i].is = "begin" => BeginAt(r, o, i, F, s, N)

(* What a poll has read: nothing of it is coming. *)
Gathered(r, F, s, N) ==
  /\ IsSeq(r)
  /\ \A i \in 1 .. Len(r) :
       r[i].is = "begin" => /\ r[i].copy \in 1 .. s
                            /\ Like(r, i, CopyOfBundle(F[r[i].copy], r[i].copy), r[i].copy, N)

AllWellFormed(F, s) == \A c \in 1 .. s : WellFormed(F[c])

LEMMA ArrivedNothing ==
  ASSUME NEW o, NEW F, NEW s, NEW N
  PROVE  Arrived(<<>>, o, F, s, N) /\ Gathered(<<>>, F, s, N)
<1>1. IsSeq(<<>>) /\ \A i \in 1 .. Len(<<>>) : FALSE
  BY SeqEmpty
<1> QED BY <1>1 DEF Arrived, Gathered

LEMMA GatheredIfArrived ==
  ASSUME NEW r, NEW o, NEW F, NEW s, NEW N, Arrived(r, o, F, s, N)
  PROVE  Gathered(r, F, s, N)
  BY DEF Arrived, BeginAt, Gathered

LEMMA SameWith ==
  ASSUME NEW x, NEW y, NEW c, NEW N, NEW M, N \subseteq M, Same(x, y, c, N)
  PROVE  Same(x, y, c, M)
  BY DEF Same

LEMMA ArrivedWith ==
  ASSUME NEW r, NEW o, NEW F, NEW s, NEW N, NEW M, NEW z, N \subseteq M, Len(z) = Len(o),
         Arrived(r, o, F, s, N)
  PROVE  Arrived(r, z, F, s, M)
<1>1. ASSUME NEW i \in 1 .. Len(r), BeginAt(r, o, i, F, s, N) PROVE BeginAt(r, z, i, F, s, M)
  <2>1. Like(r, i, CopyOfBundle(F[r[i].copy], r[i].copy), r[i].copy, M)
    BY <1>1, SameWith DEF BeginAt, Like
  <2> QED BY <1>1, <2>1 DEF BeginAt
<1> QED BY <1>1 DEF Arrived

(* More copies and more noise. *)
LEMMA GatheredMore ==
  ASSUME NEW r, NEW F, NEW G, NEW s \in Nat, NEW z \in Nat, s <= z, NEW N, NEW M, N \subseteq M,
         \A c \in 1 .. s : G[c] = F[c], Gathered(r, F, s, N)
  PROVE  Gathered(r, G, z, M)
<1>1. ASSUME NEW i \in 1 .. Len(r), r[i].is = "begin"
      PROVE  /\ r[i].copy \in 1 .. z
             /\ Like(r, i, CopyOfBundle(G[r[i].copy], r[i].copy), r[i].copy, M)
  <2> DEFINE c == r[i].copy
  <2>1. c \in 1 .. s /\ Like(r, i, CopyOfBundle(F[c], c), c, N)
    BY <1>1 DEF Gathered
  <2>2. Like(r, i, CopyOfBundle(F[c], c), c, M)
    BY <2>1, SameWith DEF Like
  <2>3. G[c] = F[c] /\ c \in 1 .. z
    BY <2>1
  <2> QED BY <2>2, <2>3
<1> QED BY <1>1 DEF Gathered

(* A new copy is written when the one before it has gone. *)
LEMMA ArrivedBefore ==
  ASSUME NEW r, NEW F, NEW G, NEW s \in Nat, NEW N, NEW o,
         AllWellFormed(F, s), \A c \in 1 .. s : G[c] = F[c],
         Arrived(r, <<>>, F, s, N)
  PROVE  Arrived(r, o, G, s + 1, N)
<1>1. ASSUME NEW i \in 1 .. Len(r), BeginAt(r, <<>>, i, F, s, N)
      PROVE  BeginAt(r, o, i, G, s + 1, N)
  <2> DEFINE c == r[i].copy
             E == CopyOfBundle(F[c], c)
  <2>1. c \in 1 .. s /\ Like(r, i, E, c, N)
    BY <1>1 DEF BeginAt
  <2>2. Len(r) \in Nat /\ Len(E) \in Nat
    BY <2>1, SeqBasics, CopyAt DEF AllWellFormed, Arrived
  <2>3. ~(Len(r) < UartBuffer /\ Len(r) - i + 1 < Len(E))
    <3> SUFFICES ASSUME Len(r) < UartBuffer /\ Len(r) - i + 1 < Len(E) PROVE FALSE
      OBVIOUS
    <3>1. Len(<<>>) = Len(E) - (Len(r) - i + 1)
      BY <1>1 DEF BeginAt
    <3> HIDE DEF E
    <3> QED BY <2>2, <3>1, SeqEmpty
  <2>4. G[c] = F[c] /\ c \in 1 .. s + 1
    BY <2>1
  <2> QED BY <2>1, <2>3, <2>4 DEF BeginAt
<1> QED BY <1>1 DEF Arrived

(* An item leaves the line. *)
LEMMA ComingOn ==
  ASSUME NEW o, NEW E, NEW c, NEW N, Coming(o, E, c, N), IsSeq(E), o # <<>>
  PROVE  Coming(Tail(o), E, c, N)
<1>1. /\ IsSeq(Tail(o)) /\ Len(Tail(o)) = Len(o) - 1 /\ Len(o) >= 1
      /\ \A i \in 1 .. Len(o) - 1 : Tail(o)[i] = o[i + 1]
  BY SeqTail DEF Coming
<1>2. Len(o) \in Nat /\ Len(E) \in Nat /\ Len(o) <= Len(E)
  BY SeqBasics DEF Coming
<1>3. ASSUME NEW k \in 1 .. Len(Tail(o))
      PROVE  Same(Tail(o)[k], E[Len(E) - Len(Tail(o)) + k], c, N)
  <2>1. /\ k \in 1 .. Len(o) - 1 /\ k + 1 \in 1 .. Len(o)
        /\ Len(E) - Len(Tail(o)) + k = Len(E) - Len(o) + (k + 1)
    BY <1>1, <1>2
  <2>2. Same(o[k + 1], E[Len(E) - Len(o) + (k + 1)], c, N)
    BY <2>1 DEF Coming
  <2> QED BY <1>1, <2>1, <2>2
<1> QED BY <1>1, <1>2, <1>3 DEF Coming

LEMMA HeadComing ==
  ASSUME NEW o, NEW E, NEW c, NEW N, Coming(o, E, c, N), IsSeq(E), o # <<>>
  PROVE  /\ Len(o) \in 1 .. Len(E) /\ Len(E) - Len(o) + 1 \in 1 .. Len(E)
         /\ Head(o) = o[1] /\ Same(Head(o), E[Len(E) - Len(o) + 1], c, N)
<1>1. Len(o) >= 1 /\ Head(o) = o[1]
  BY SeqTail DEF Coming
<1>2. Len(o) \in Nat /\ Len(E) \in Nat /\ Len(o) <= Len(E)
  BY SeqBasics DEF Coming
<1>3. 1 \in 1 .. Len(o)
  BY <1>1, <1>2
<1>4. Same(o[1], E[Len(E) - Len(o) + 1], c, N)
  BY <1>3 DEF Coming
<1> QED BY <1>1, <1>2, <1>4

(* The item before what was there, x, is what comes next of its copy. *)
LEMMA BeginGrows ==
  ASSUME NEW r, NEW o, NEW x, NEW F, NEW s \in Nat, NEW N, NEW i \in 1 .. Len(r),
         IsSeq(r), IsSeq(o), o # <<>>, AllWellFormed(F, s), BeginAt(r, o, i, F, s, N),
         Len(r) < UartBuffer,
         Same(x, CopyOfBundle(F[s], s)[Len(CopyOfBundle(F[s], s)) - Len(o) + 1], s, N)
  PROVE  BeginAt(Append(r, x), Tail(o), i, F, s, N)
<1> DEFINE c == r[i].copy
           E == CopyOfBundle(F[c], c)
           q == Append(r, x)
           w == Len(r)
<1>1. /\ IsSeq(q) /\ Len(q) = w + 1 /\ (\A k \in 1 .. w : q[k] = r[k]) /\ q[w + 1] = x
  BY SeqAppend
<1>2. w \in Nat /\ Len(o) \in Nat /\ Len(Tail(o)) = Len(o) - 1 /\ Len(o) >= 1
  BY SeqBasics, SeqTail
<1>3. c \in 1 .. s /\ Like(r, i, E, c, N)
      /\ (w - i + 1 < Len(E) => c = s /\ Len(o) = Len(E) - (w - i + 1))
  BY DEF BeginAt
<1>4. Len(E) \in Nat
  BY <1>3, CopyAt DEF AllWellFormed
<1>5. w - i + 1 < Len(E) => Same(x, E[w - i + 2], c, N)
  <2> SUFFICES ASSUME w - i + 1 < Len(E) PROVE Same(x, E[w - i + 2], c, N)
    OBVIOUS
  <2>1. c = s /\ Len(o) = Len(E) - (w - i + 1)
    BY <1>3
  <2>2. Same(x, E[Len(E) - Len(o) + 1], c, N)
    BY <2>1
  <2>3. Len(E) - Len(o) + 1 = w - i + 2
    BY <1>2, <1>4, <2>1
  <2> QED BY <2>2, <2>3
<1>6. q[i].copy = c
  BY <1>1
<1> HIDE DEF c, E, q, w
<1>7. i \in 1 .. w
  BY DEF w
<1>8. Like(q, i, E, c, N)
  <2> SUFFICES ASSUME NEW m \in 1 .. Len(E), i + m - 1 <= w + 1
               PROVE  Same(q[i + m - 1], E[m], c, N)
    BY <1>1 DEF Like
  <2>1. CASE i + m - 1 <= w
    <3>1. i + m - 1 \in 1 .. w
      BY <1>2, <1>7, <2>1
    <3>2. Same(r[i + m - 1], E[m], c, N)
      BY <1>3, <2>1 DEF Like, w
    <3> QED BY <1>1, <3>1, <3>2
  <2>2. CASE i + m - 1 = w + 1
    <3>1. m = w - i + 2 /\ w - i + 1 < Len(E)
      BY <1>2, <1>4, <1>7, <2>2
    <3> QED BY <1>1, <1>5, <2>2, <3>1
  <2> QED BY <1>2, <1>7, <2>1, <2>2
<1>9. Len(q) - i + 1 < Len(E) => c = s /\ Len(Tail(o)) = Len(E) - (Len(q) - i + 1)
  <2> SUFFICES ASSUME Len(q) - i + 1 < Len(E)
               PROVE  c = s /\ Len(Tail(o)) = Len(E) - (Len(q) - i + 1)
    OBVIOUS
  <2>1. w - i + 1 < Len(E)
    BY <1>1, <1>2, <1>4, <1>7
  <2>2. c = s /\ Len(o) = Len(E) - (w - i + 1)
    BY <1>3, <2>1
  <2> QED BY <1>1, <1>2, <1>4, <1>7, <2>2
<1> QED BY <1>3, <1>6, <1>8, <1>9 DEF BeginAt, q, E

(* Transmit *)
LEMMA ArrivedMore ==
  ASSUME NEW r, NEW o, NEW F, NEW s \in Nat, NEW N, s >= 1, AllWellFormed(F, s), o # <<>>,
         Coming(o, CopyOfBundle(F[s], s), s, N), Arrived(r, o, F, s, N)
  PROVE  Arrived(IF Len(r) < UartBuffer THEN Append(r, Head(o)) ELSE r, Tail(o), F, s, N)
<1> DEFINE E == CopyOfBundle(F[s], s)
           x == Head(o)
           q == Append(r, x)
           w == Len(r)
           j == Len(E) - Len(o) + 1
<1>1. /\ IsSeq(E) /\ Len(E) \in Nat /\ E[1] = [is |-> "begin", copy |-> s]
      /\ \A k \in 2 .. Len(E) : E[k].is # "begin"
  BY CopyAt DEF AllWellFormed
<1>2. j \in 1 .. Len(E) /\ Same(x, E[j], s, N) /\ IsSeq(o) /\ Len(o) \in 1 .. Len(E)
  <2> HIDE DEF E
  <2> QED BY <1>1, HeadComing DEF E, Coming
<1>3. IsSeq(r) /\ w \in Nat
  BY SeqBasics DEF Arrived
<1>4. CASE w < UartBuffer
  <2>1. /\ IsSeq(q) /\ Len(q) = w + 1 /\ (\A k \in 1 .. w : q[k] = r[k]) /\ q[w + 1] = x
    BY <1>3, SeqAppend
  <2>2. \A k \in 1 .. w + 1 : k \in 1 .. w \/ k = w + 1
    BY <1>3
  <2>3. x.is = E[j].is /\ (x.is # "block" => x = E[j])
    BY <1>2, SameKind
  <2> HIDE DEF q, j, x, E, w
  <2>4. ASSUME NEW i \in 1 .. w, r[i].is = "begin"
        PROVE  BeginAt(q, Tail(o), i, F, s, N)
    <3>1. BeginAt(r, o, i, F, s, N)
      BY <2>4 DEF Arrived, w
    <3> QED BY <1>2, <1>3, <1>4, <3>1, BeginGrows DEF q, E, j, w
  <2>5. ASSUME x.is = "begin"
        PROVE  BeginAt(q, Tail(o), w + 1, F, s, N)
    <3>1. j = 1 /\ x = E[1]
      <4>1. E[j].is = "begin"
        BY <2>3, <2>5
      <4>2. j = 1
        BY <1>1, <1>2, <4>1
      <4> QED BY <2>3, <2>5, <4>2
    <3>2. x.copy = s
      BY <1>1, <3>1
    <3>3. Like(q, w + 1, E, s, N)
      <4> SUFFICES ASSUME NEW m \in 1 .. Len(E), w + 1 + m - 1 <= w + 1
                   PROVE  Same(q[w + 1 + m - 1], E[m], s, N)
        BY <2>1 DEF Like
      <4>1. m = 1 /\ w + 1 + m - 1 = w + 1
        BY <1>1, <1>3
      <4> QED BY <2>1, <3>1, <4>1 DEF Same
    <3>4. Len(Tail(o)) = Len(o) - 1
      BY <1>2, SeqTail
    <3>5. Len(o) = Len(E)
      BY <1>1, <1>2, <3>1 DEF j
    <3>6. Len(Tail(o)) = Len(E) - (Len(q) - (w + 1) + 1) /\ s \in 1 .. s
      BY <1>1, <1>3, <2>1, <3>4, <3>5
    <3> QED BY <2>1, <3>2, <3>3, <3>6 DEF BeginAt, E
  <2>6. \A i \in 1 .. Len(q) : q[i].is = "begin" => BeginAt(q, Tail(o), i, F, s, N)
    BY <2>1, <2>2, <2>4, <2>5
  <2>7. Arrived(q, Tail(o), F, s, N)
    BY <2>1, <2>6 DEF Arrived
  <2> QED BY <1>4, <2>7 DEF q, x, w
<1>5. CASE ~(w < UartBuffer)
  <2>1. \A i \in 1 .. w : BeginAt(r, o, i, F, s, N) => BeginAt(r, Tail(o), i, F, s, N)
    BY <1>5 DEF BeginAt
  <2>2. Arrived(r, Tail(o), F, s, N)
    BY <2>1 DEF Arrived
  <2> QED BY <1>5, <2>2
<1> QED BY <1>4, <1>5

(* Noise: f is what the fields of the first item become. *)
Hit(o, f) == <<[Head(o) EXCEPT !.fields = f]>> \o Tail(o)

Harms(x, f, c, M) ==
  /\ x.is = "block"
  /\ "crcType" \in DOMAIN x.fields => "crcType" \in DOMAIN f /\ f.crcType = x.fields.crcType
  /\ x.fields.crcType = 0 => \E n \in M : n.copy = c /\ ~n.checked

LEMMA ComingDamaged ==
  ASSUME NEW o, NEW E, NEW c, NEW N, NEW M, Coming(o, E, c, N), IsSeq(E), o # <<>>,
         \A k \in 1 .. Len(E) : E[k].is = "block" => IsItem(E[k]),
         NEW f, N \subseteq M, Harms(Head(o), f, c, M)
  PROVE  Coming(Hit(o, f), E, c, M) /\ Len(Hit(o, f)) = Len(o)
<1> USE DEF Harms
<1> DEFINE x == Head(o)
           v == [x EXCEPT !.fields = f]
           a == <<v>>
           t == Tail(o)
           z == a \o t
           j == Len(E) - Len(o) + 1
           y == E[j]
<1>1. Len(o) \in 1 .. Len(E) /\ j \in 1 .. Len(E) /\ x = o[1] /\ Same(x, y, c, N)
  BY HeadComing
<1>2. IsSeq(t) /\ Len(t) = Len(o) - 1 /\ \A i \in 1 .. Len(o) - 1 : t[i] = o[i + 1]
  BY SeqTail DEF Coming
<1>3. IsSeq(a) /\ Len(a) = 1 /\ a[1] = v
  <2> HIDE DEF v
  <2>1. a \in Seq({v})
    OBVIOUS
  <2> QED BY <2>1, SeqSets
<1>4. x.is = y.is
  BY <1>1, SameKind
<1>5. IsItem(y)
  BY <1>1, <1>4
<1>6. Same(v, y, c, M)
  <2>1. PICK n, g : y = Item(n, g) /\ "crcType" \in DOMAIN g /\ g.crcType \in CrcTypes
    BY <1>5 DEF IsItem
  <2>2. y = [is |-> "block", len |-> n, fields |-> g, crc |-> calculateCRC(g.crcType, g)]
    BY <2>1 DEF Item
  <2>3. PICK h : /\ x = [y EXCEPT !.fields = h] /\ "crcType" \in DOMAIN h
                 /\ h.crcType = g.crcType
    <3>1. y.fields = g /\ y = [y EXCEPT !.fields = g]
      BY <2>2
    <3> HIDE DEF x, y
    <3> QED BY <1>1, <2>1, <3>1 DEF Same
  <2>4. x.fields = h /\ v = [y EXCEPT !.fields = f] /\ y.fields = g
    <3> DEFINE k == calculateCRC(g.crcType, g)
    <3> HIDE DEF x, y, k
    <3>1. y = [is |-> "block", len |-> n, fields |-> g, crc |-> k]
      BY <2>2 DEF k
    <3>2. x = [is |-> "block", len |-> n, fields |-> h, crc |-> k]
      BY <2>3, <3>1
    <3>3. v = [is |-> "block", len |-> n, fields |-> f, crc |-> k]
      BY <3>2
    <3>4. [y EXCEPT !.fields = f] = [is |-> "block", len |-> n, fields |-> f, crc |-> k]
      BY <3>1
    <3> QED BY <3>1, <3>2, <3>3, <3>4
  <2>5. "crcType" \in DOMAIN f /\ f.crcType = g.crcType
    BY <2>3, <2>4
  <2>6. g.crcType = 0 => \E m \in M : m.copy = c /\ ~m.checked
    BY <2>3, <2>4
  <2> HIDE DEF v, x, y
  <2> QED BY <1>5, <2>4, <2>5, <2>6 DEF Same
<1> HIDE DEF a, t, v, y
<1>7. /\ IsSeq(z) /\ Len(z) = Len(a) + Len(t)
      /\ \A i \in 1 .. Len(a) : z[i] = a[i]
      /\ \A i \in 1 .. Len(t) : z[Len(a) + i] = t[i]
  <2>1. IsSeq(a) /\ IsSeq(t)
    BY <1>2, <1>3
  <2> QED BY <2>1, SeqConcat
<1> HIDE DEF z
<1>8. Len(E) \in Nat /\ Len(o) \in Nat /\ Len(z) = Len(o)
  <2>1. Len(E) \in Nat /\ Len(o) \in Nat
    BY SeqBasics DEF Coming
  <2> QED BY <1>2, <1>3, <1>7, <2>1
<1>9. ASSUME NEW k \in 1 .. Len(z) PROVE Same(z[k], E[Len(E) - Len(z) + k], c, M)
  <2>1. CASE k = 1
    <3>1. z[1] = v
      BY <1>3, <1>7
    <3> QED BY <1>6, <1>8, <2>1, <3>1 DEF y
  <2>2. CASE k # 1
    <3>1. k - 1 \in 1 .. Len(t) /\ Len(a) + (k - 1) = k /\ k - 1 + 1 = k /\ k \in 1 .. Len(o)
      BY <1>2, <1>3, <1>8, <2>2
    <3>2. z[k] = o[k]
      BY <1>2, <1>7, <3>1
    <3>3. Same(o[k], E[Len(E) - Len(o) + k], c, N)
      BY <3>1 DEF Coming
    <3> QED BY <1>8, <3>2, <3>3, SameWith
  <2> QED BY <2>1, <2>2
<1>10. Coming(z, E, c, M)
  BY <1>1, <1>7, <1>8, <1>9 DEF Coming
<1>11. Hit(o, f) = z
  BY DEF Hit, z, a, v, t, x
<1> QED BY <1>8, <1>10, <1>11

LEMMA GreatestOf ==
  ASSUME NEW n \in Nat, NEW T \in SUBSET (1 .. n), T # {}
  PROVE  Max(T) \in T /\ \A y \in T : Max(T) >= y
<1> DEFINE S == {n - x : x \in T}
<1>1. S \in SUBSET Nat /\ S # {}
  <2>1. \A x \in T : n - x \in Nat
    OBVIOUS
  <2> QED BY <2>1
<1>2. PICK z \in S : \A y \in S : z <= y
  <2> HIDE DEF S
  <2> QED BY <1>1, LeastNatural
<1>3. PICK x \in T : z = n - x
  OBVIOUS
<1>4. \A y \in T : x >= y
  <2> TAKE y \in T
  <2>1. n - y \in S
    OBVIOUS
  <2>2. n - x <= n - y
    <3> HIDE DEF S
    <3> QED BY <1>2, <1>3, <2>1
  <2>3. x \in 1 .. n /\ y \in 1 .. n
    OBVIOUS
  <2> QED BY <2>2, <2>3
<1> QED BY <1>4 DEF Max

LEMMA FirstBeginAt ==
  ASSUME NEW r, IsSeq(r)
  PROVE  /\ FirstBegin(r) \in Int /\ FirstBegin(r) >= 1
         /\ \A k \in Begins(r) : (\A i \in 1 .. k - 1 : i \notin Begins(r)) => FirstBegin(r) = k
<1> DEFINE I == Begins(r)
<1>1. Len(r) \in Nat /\ I \in SUBSET (1 .. Len(r))
  BY SeqBasics DEF Begins
<1>2. FirstBegin(r) = IF I = {} THEN 1 ELSE Min(I)
  BY DEF FirstBegin
<1> HIDE DEF I
<1>3. I # {} => Min(I) \in I /\ \A i \in I : Min(I) <= i
  BY <1>1, LeastOf
<1>4. FirstBegin(r) \in Int /\ FirstBegin(r) >= 1
  <2>1. CASE I = {}
    BY <1>2, <2>1
  <2>2. CASE I # {}
    <3>1. Min(I) \in 1 .. Len(r) /\ FirstBegin(r) = Min(I)
      BY <1>1, <1>2, <1>3, <2>2
    <3> HIDE DEF I
    <3> QED BY <1>1, <3>1
  <2> QED BY <2>1, <2>2
<1>5. ASSUME NEW k \in I, \A i \in 1 .. k - 1 : i \notin I
      PROVE  FirstBegin(r) = k
  <2>1. Min(I) \in 1 .. Len(r) /\ Min(I) \in I /\ Min(I) <= k /\ k \in 1 .. Len(r)
    BY <1>1, <1>3
  <2>2. ~(Min(I) < k)
    BY <1>1, <1>5, <2>1
  <2> QED BY <1>1, <1>2, <2>1, <2>2
<1> QED BY <1>4, <1>5 DEF I

LEMMA StartAt ==
  ASSUME NEW r, IsSeq(r), NEW end \in 1 .. Len(r)
  PROVE  Start(r, end) \in Int /\ Start(r, end) >= 1
<1> DEFINE before == {e \in Ends(r) : e < end}
<1>1. Len(r) \in Nat /\ before \in SUBSET (1 .. Len(r))
  BY SeqBasics DEF Ends
<1>2. before # {} => Max(before) \in before
  <2> HIDE DEF before
  <2> QED BY <1>1, GreatestOf
<1>3. Start(r, end) = IF before = {} THEN FirstBegin(r)
                      ELSE IF r[Max(before)].is = "block" THEN Max(before)
                      ELSE Max(before) + 2
  BY DEF Start
<1> HIDE DEF before
<1>4. CASE before = {}
  BY <1>3, <1>4, FirstBeginAt
<1>5. CASE before # {}
  <2>1. Max(before) \in 1 .. Len(r)
    BY <1>1, <1>2, <1>5
  <2>2. Start(r, end) = Max(before) \/ Start(r, end) = Max(before) + 2
    BY <1>3, <1>5
  <2> QED BY <1>1, <2>1, <2>2
<1> QED BY <1>4, <1>5

(* A piece in which a bundle is found begins where a copy begins. *)
LEMMA PieceBegins ==
  ASSUME NEW r, IsSeq(r), NEW end \in 1 .. Len(r), NEW t, fromCbor(Piece(r, end), t).valid
  PROVE  LET i == Start(r, end)
             s == Piece(r, end)
         IN  /\ i \in 1 .. Len(r) /\ r[i].is = "begin" /\ s[1] = r[i]
             /\ IsSeq(s) /\ \A m \in 1 .. Len(s) : s[m] = r[i + m - 1] /\ i + m - 1 \in 1 .. Len(r)
<1> DEFINE i == Start(r, end)
           s == Piece(r, end)
           l == IF i > end + 1 THEN Len(r) ELSE end
<1>1. i \in Int /\ i >= 1 /\ Len(r) \in Nat
  BY StartAt, SeqBasics
<1>2. s = SubSeq(r, i, l)
  BY DEF Piece
<1> HIDE DEF i
<1>3. l \in Int /\ l <= Len(r)
  BY <1>1
<1> HIDE DEF l
<1>4. fromCbor(s, t).valid
  OBVIOUS
<1> HIDE DEF s
<1>5. /\ IsSeq(s) /\ Len(s) = IF i <= l THEN l - i + 1 ELSE 0
      /\ \A m \in 1 .. l - i + 1 : s[m] = r[i + m - 1]
  BY <1>1, <1>2, <1>3, SeqPart
<1>6. \A m \in 1 .. Len(s) : s[m] = r[i + m - 1] /\ i + m - 1 \in 1 .. Len(r)
  BY <1>1, <1>3, <1>5
<1>7. Len(s) >= 1 /\ s[1].is = "begin"
  BY <1>4, <1>5, fromCborNeeds
<1>8. i \in 1 .. Len(r) /\ s[1] = r[i]
  <2>1. 1 \in 1 .. Len(s) /\ i + 1 - 1 = i
    BY <1>1, <1>5, <1>7, SeqBasics
  <2> QED BY <1>6, <2>1
<1> QED BY <1>5, <1>6, <1>7, <1>8 DEF i, s

(* What a poll finds first, and which copy it is of. *)
LEMMA PollFinds ==
  ASSUME NEW F, AllWellFormed(F, sends), Gathered(data, F, sends, noise), DOMAIN Found # {}
  PROVE  LET first == Min(DOMAIN Found)
             c == Piece(data, first)[1].copy
         IN  /\ first \in DOMAIN Found /\ c \in 1 .. sends
             /\ Unspoiled(c, noise) =>
                  FirstFound = Reading(F[c].primary, F[c].payload, F[c].ext, now)
<1> DEFINE D == DOMAIN Found
           first == Min(D)
           s == Piece(data, first)
           c == s[1].copy
           i == Start(data, first)
<1>1. IsSeq(data) /\ Len(data) \in Nat /\ DOMAIN data = 1 .. Len(data)
  BY SeqBasics DEF Gathered
<1>2. D = {k \in Ends(data) : Decoded(data, k).valid}
  BY DEF Found, getNewBundles
<1>3. D \in SUBSET (1 .. Len(data)) /\ D # {}
  BY <1>1, <1>2 DEF Ends
<1>4. first \in D
  <2> HIDE DEF D
  <2> QED BY <1>1, <1>3, LeastOf
<1>5. FirstFound = Decoded(data, first)
  <2>1. \A k \in D : Found[k] = Decoded(data, k)
    BY <1>2 DEF Found, getNewBundles
  <2> HIDE DEF D
  <2> QED BY <1>4, <2>1 DEF FirstFound, first, D
<1> HIDE DEF first
<1>6. first \in 1 .. Len(data) /\ Decoded(data, first).valid
  BY <1>2, <1>3, <1>4
<1> HIDE DEF D
<1>7. Decoded(data, first) = fromCbor(s, now)
  BY DEF Decoded
<1>8. fromCbor(s, now).valid
  BY <1>6, <1>7
<1>9. /\ i \in 1 .. Len(data) /\ data[i].is = "begin" /\ s[1] = data[i]
      /\ IsSeq(s)
      /\ \A m \in 1 .. Len(s) : s[m] = data[i + m - 1] /\ i + m - 1 \in 1 .. Len(data)
  BY <1>1, <1>6, <1>8, PieceBegins
<1> HIDE DEF s, i
<1>10. c = data[i].copy
  BY <1>9
<1>11. c \in 1 .. sends /\ Like(data, i, CopyOfBundle(F[c], c), c, noise)
  BY <1>9, <1>10 DEF Gathered
<1> HIDE DEF c
<1>12. ASSUME Unspoiled(c, noise)
       PROVE  FirstFound = Reading(F[c].primary, F[c].payload, F[c].ext, now)
  <2> DEFINE p == F[c].primary
             y == F[c].payload
             e == F[c].ext
             E == Encoding(Items(p, y, e), c)
  <2>1. Parts(p, y, e)
    BY <1>11 DEF AllWellFormed, WellFormed
  <2>2. CopyOfBundle(F[c], c) = E
    BY toCborItems DEF CopyOfBundle
  <2> HIDE DEF p, y, e
  <2>3. IsSeq(E) /\ Len(E) \in Nat
    <3>1. IsSeq(CopyOfBundle(F[c], c)) /\ Len(CopyOfBundle(F[c], c)) \in Nat
      BY <1>11, CopyAt DEF AllWellFormed
    <3> QED BY <2>2, <3>1
  <2> HIDE DEF E
  <2>4. \A m \in 1 .. Len(s) : m <= Len(E) => Same(s[m], E[m], c, noise)
    <3> TAKE m \in 1 .. Len(s)
    <3> HAVE m <= Len(E)
    <3>1. m \in 1 .. Len(E) /\ i + m - 1 <= Len(data)
      <4>1. i + m - 1 \in 1 .. Len(data) /\ Len(s) \in Nat
        BY <1>9, SeqBasics
      <4> QED BY <1>1, <2>3, <4>1
    <3> QED BY <1>9, <1>11, <2>2, <3>1 DEF Like
  <2>5. fromCbor(s, now) = Reading(p, y, e, now)
    BY <1>8, <1>9, <1>12, <2>1, <2>4, PollReads DEF E
  <2> QED BY <1>5, <1>7, <2>5 DEF p, y, e
<1> QED BY <1>4, <1>11, <1>12 DEF first, D, c, s

-----------------------------------------------------------------------------
(* The invariant.                                                          *)

Times ==
  /\ now \in Nat /\ since \in Nat /\ since <= now /\ stay \in Nat
  /\ holder \in Nat /\ holder >= 1 /\ sends \in Nat
  /\ IsSeq(copies) /\ Len(copies) = sends /\ \A c \in 1 .. sends : copies[c] \in Nat

HeldAs(b) ==
  /\ IsBundle(b) /\ b.valid = TRUE /\ b.has = Marked(TypesIn(b.ext))
  /\ b.receivedAt = since /\ b.retention = 0
  /\ Carries(origin, b, holder - 1, stay)

InfoTrue == info # None => "bundle" \in DOMAIN info /\ HeldAs(info.bundle)

RecordTrue ==
  record # None =>
    /\ record[1].value = 0 /\ record[6].value = since
    /\ \E b : record[7] = toCbor(b) /\ Carries(origin, b, holder - 1, stay)

LineTrue ==
  \E F : /\ \A c \in 1 .. sends : Carries(origin, F[c], holder, copies[c])
         /\ Arrived(rx, out, F, sends, noise) /\ Gathered(data, F, sends, noise)
         /\ IsSeq(out)
         /\ out # <<>> => sends >= 1 /\ Coming(out, CopyOfBundle(F[sends], sends), sends, noise)

JourneyTrue ==
  /\ GoodOrigin(origin)
  /\ ~spoiled => Times /\ InfoTrue /\ RecordTrue /\ LineTrue

LEMMA WellCarried ==
  ASSUME NEW o, NEW b, NEW h, NEW a, GoodOrigin(o), Carries(o, b, h, a)
  PROVE  WellFormed(b) /\ GoodExt(b.ext)
<1>1. b.primary = o.primary /\ b.payload = o.payload /\ GoodExt(b.ext)
  BY DEF Carries
<1>2. GoodPrimary(o.primary) /\ IsBlock(o.payload) /\ o.payload.type = Payload
  BY DEF GoodOrigin, WellFormed, Parts
<1>3. IsSeq(b.ext) /\ \A i \in DOMAIN b.ext : IsBlock(b.ext[i]) /\ b.ext[i].type # Payload
  BY <1>1 DEF GoodExt, GoodBlock
<1>4. GoodPrimary(b.primary) /\ IsBlock(b.payload) /\ b.payload.type = Payload
  BY <1>1, <1>2
<1> QED BY <1>1, <1>3, <1>4 DEF WellFormed, Parts

IsReading(x, p, y, e, t) ==
  /\ IsBundle(x) /\ x.valid = TRUE /\ x.primary = p /\ x.payload = y /\ x.ext = e
  /\ x.has = Marked(TypesIn(e)) /\ x.receivedAt = t /\ x.retention = 0

LEMMA ReadingFields ==
  ASSUME NEW p, NEW y, NEW e, NEW t
  PROVE  IsReading(Reading(p, y, e, t), p, y, e, t)
<1> DEFINE yes == TRUE
           u == {1} \cup {e[i].number : i \in DOMAIN e}
           h == Marked(TypesIn(e))
           x == BundleOf(yes, p, y, e, u, h, t, 0)
<1>1. Reading(p, y, e, t) = x
  BY DEF Reading, Whole
<1> HIDE DEF yes, u, h
<1>2. /\ x.valid = yes /\ x.primary = p /\ x.payload = y /\ x.ext = e /\ x.used = u
      /\ x.has = h /\ x.receivedAt = t /\ x.retention = 0
  BY BundleFields
<1>3. IsBundle(x)
  BY <1>2 DEF IsBundle
<1> HIDE DEF x
<1>4. x.valid = TRUE
  BY <1>2 DEF yes
<1> QED BY <1>1, <1>2, <1>3, <1>4 DEF h, IsReading

(* What a node makes of a copy it takes. *)
LEMMA Taken ==
  ASSUME NEW o, NEW b, NEW h \in Nat, NEW a \in Nat, NEW t, GoodOrigin(o), Carries(o, b, h, a),
         NEW ghost \in Ghosts(Reading(b.primary, b.payload, b.ext, t))
  PROVE  LET x == CopyOf(Process(Reading(b.primary, b.payload, b.ext, t), ghost).bundle)
         IN  /\ IsBundle(x) /\ x.valid = TRUE /\ x.has = Marked(TypesIn(x.ext))
             /\ x.receivedAt = t /\ x.retention = 0 /\ Carries(o, x, h, a)
<1> DEFINE y == Reading(b.primary, b.payload, b.ext, t)
           z == Process(y, ghost).bundle
           x == CopyOf(z)
<1>1. /\ IsBundle(y) /\ y.valid = TRUE /\ y.primary = b.primary /\ y.payload = b.payload
      /\ y.ext = b.ext /\ y.has = Marked(TypesIn(y.ext)) /\ y.receivedAt = t /\ y.retention = 0
  <2>1. /\ IsBundle(y) /\ y.valid = TRUE /\ y.primary = b.primary /\ y.payload = b.payload
        /\ y.ext = b.ext /\ y.has = Marked(TypesIn(b.ext))
        /\ y.receivedAt = t /\ y.retention = 0
    <3>1. IsReading(y, b.primary, b.payload, b.ext, t)
      BY ReadingFields
    <3> HIDE DEF y
    <3> QED BY <3>1 DEF IsReading
  <2> HIDE DEF y
  <2> QED BY <2>1
<1>2. GoodExt(b.ext)
  BY WellCarried
<1>3. PartDone(y, z)
  <2>1. ghost \in Ghosts(y)
    OBVIOUS
  <2> HIDE DEF y
  <2>2. IsBundle(y) /\ GoodExt(y.ext) /\ y.has = Marked(TypesIn(y.ext))
    BY <1>1, <1>2
  <2> QED BY <2>1, <2>2, BundleProcessed
<1> HIDE DEF y
<1> HIDE DEF z
<1>4. /\ IsBundle(z) /\ Carries(y, z, 0, 0) /\ z.has = Marked(TypesIn(z.ext))
      /\ z.valid = TRUE /\ z.receivedAt = t
  BY <1>1, <1>3 DEF PartDone
<1>5. /\ IsBundle(x) /\ x.ext = z.ext /\ x.has = z.has /\ x.valid = z.valid
      /\ x.primary = z.primary /\ x.payload = z.payload
      /\ x.receivedAt = z.receivedAt /\ x.retention = 0
  BY <1>4, BundleCopied
<1> HIDE DEF x
<1>6. Carries(b, y, 0, 0)
  BY <1>1, <1>2, CarriesItself
<1>7. Carries(z, x, 0, 0)
  <2>1. GoodExt(z.ext)
    BY <1>4 DEF Carries
  <2> QED BY <1>5, <2>1, CarriesItself
<1>8. Carries(o, x, h, a)
  <2>1. Carries(o, y, h + 0, a + 0)
    BY <1>6, CarriesOn
  <2>2. Carries(o, y, h, a)
    BY <2>1
  <2>3. Carries(o, z, h + 0, a + 0)
    BY <1>4, <2>2, CarriesOn
  <2>4. Carries(o, z, h, a)
    BY <2>3
  <2>5. Carries(o, x, h + 0, a + 0)
    BY <1>7, <2>4, CarriesOn
  <2> QED BY <2>5
<1>9. x.has = Marked(TypesIn(x.ext))
  BY <1>4, <1>5
<1> QED BY <1>4, <1>5, <1>8, <1>9 DEF x, z, y

LEMMA TypesOfInfo ==
  ASSUME NEW b
  PROVE  BundleInfo(b).bundle = CopyOf(b) /\ "bundle" \in DOMAIN BundleInfo(b)
<1> DEFINE x == CopyOf(b)
<1>1. BundleInfo(b) = [bundle |-> x, locallyDelivered |-> FALSE, forwardedTo |-> <<>>,
                       numOfBroadcasts |-> 0, lastBroadcastTime |-> 0]
  BY DEF BundleInfo
<1> HIDE DEF x
<1>2. BundleInfo(b).bundle = x /\ "bundle" \in DOMAIN BundleInfo(b)
  BY <1>1
<1> QED BY <1>2 DEF x

LEMMA JourneyBegins ==
  ASSUME \A o \in Origins : GoodOrigin(o), Init
  PROVE  JourneyTrue
<1> DEFINE b == CopyOf(origin)
<1>1. GoodOrigin(origin)
  BY DEF Init
<1>2. /\ now = 0 /\ since = 0 /\ stay = 0 /\ holder = 1 /\ sends = 0 /\ copies = <<>>
      /\ info.bundle = b /\ "bundle" \in DOMAIN info
      /\ record = None /\ rx = <<>> /\ data = <<>> /\ out = <<>>
  BY TypesOfInfo DEF Init, LineInit
<1>3. Times
  BY <1>2, SeqEmpty DEF Times
<1>4. InfoTrue
  <2>1. IsBundle(origin)
    BY <1>1 DEF GoodOrigin
  <2>2. /\ IsBundle(b) /\ b.ext = origin.ext /\ b.has = origin.has /\ b.valid = origin.valid
        /\ b.primary = origin.primary /\ b.payload = origin.payload
        /\ b.receivedAt = origin.receivedAt /\ b.retention = 0
    BY <2>1, BundleCopied
  <2> HIDE DEF b
  <2>3. Carries(origin, b, 0, 0)
    BY <1>1, <2>2, CarriesItself DEF GoodOrigin
  <2>4. holder - 1 = 0
    BY <1>2
  <2> QED BY <1>1, <1>2, <2>2, <2>3, <2>4 DEF InfoTrue, HeldAs, GoodOrigin
<1>5. RecordTrue
  BY <1>2 DEF RecordTrue
<1>6. LineTrue
  <2>1. Arrived(rx, out, <<>>, sends, noise) /\ Gathered(data, <<>>, sends, noise)
    BY <1>2, ArrivedNothing
  <2> QED BY <1>2, <2>1, SeqEmpty DEF LineTrue
<1> QED BY <1>1, <1>3, <1>4, <1>5, <1>6 DEF JourneyTrue

LEMMA TickKeeps ==
  ASSUME JourneyTrue, Tick
  PROVE  JourneyTrue'
<1>1. now' = now + 1 /\ UNCHANGED <<lineVars, holder, info, record, fate, sends, history>>
  BY DEF Tick
<1>2. Times => Times'
  BY <1>1 DEF Times, history
<1>3. InfoTrue => InfoTrue'
  BY <1>1 DEF InfoTrue, HeldAs, history
<1>4. RecordTrue => RecordTrue'
  BY <1>1 DEF RecordTrue, history
<1>5. LineTrue => LineTrue'
  BY <1>1 DEF LineTrue, history, lineVars
<1> QED BY <1>1, <1>2, <1>3, <1>4, <1>5 DEF JourneyTrue, history

(* Only fate changes, or what send counts. *)
LEMMA OthersKeep ==
  ASSUME JourneyTrue, Abort \/ SendRefused \/ UNCHANGED vars
  PROVE  JourneyTrue'
<1>1. UNCHANGED <<now, out, rx, data, holder, info, record, sends, history>>
  BY DEF Abort, SendRefused, Refuse, vars, lineVars
<1>2. Times => Times'
  BY <1>1 DEF Times, history
<1>3. InfoTrue => InfoTrue'
  BY <1>1 DEF InfoTrue, HeldAs, history
<1>4. RecordTrue => RecordTrue'
  BY <1>1 DEF RecordTrue, history
<1>5. LineTrue => LineTrue'
  BY <1>1 DEF LineTrue, history
<1> QED BY <1>1, <1>2, <1>3, <1>4, <1>5 DEF JourneyTrue, history

LEMMA StoreKeeps ==
  ASSUME JourneyTrue, Store
  PROVE  JourneyTrue'
<1>1. /\ info # None /\ UNCHANGED <<now, lineVars, holder, sends, history>>
      /\ \/ record' = SerializeInfo(info) /\ info' = None
         \/ UNCHANGED <<record, info>>
  BY DEF Store
<1>2. Times => Times'
  BY <1>1 DEF Times, history
<1>3. LineTrue => LineTrue'
  BY <1>1 DEF LineTrue, history, lineVars
<1>4. InfoTrue => InfoTrue'
  BY <1>1 DEF InfoTrue, HeldAs, history
<1>5. InfoTrue /\ RecordTrue => RecordTrue'
  <2> SUFFICES ASSUME InfoTrue, RecordTrue PROVE RecordTrue'
    OBVIOUS
  <2>1. CASE record' = SerializeInfo(info)
    <3> DEFINE b == info.bundle
    <3>1. HeldAs(b)
      BY <1>1 DEF InfoTrue
    <3>2. /\ record'[1] = Uint(b.retention) /\ record'[6] = Uint(b.receivedAt)
          /\ record'[7] = toCbor(b)
      BY <2>1 DEF SerializeInfo, EncodeBundle
    <3>3. \A n : Uint(n).value = n
      BY DEF Uint
    <3> HIDE DEF b
    <3>4. record'[1].value = 0 /\ record'[6].value = since
      BY <3>1, <3>2, <3>3 DEF HeldAs
    <3>5. Carries(origin, b, holder - 1, stay)
      BY <3>1 DEF HeldAs
    <3> QED BY <1>1, <3>2, <3>4, <3>5 DEF RecordTrue, history
  <2>2. CASE record' = record
    BY <1>1, <2>2 DEF RecordTrue, history
  <2> QED BY <1>1, <2>1, <2>2
<1> QED BY <1>1, <1>2, <1>3, <1>4, <1>5 DEF JourneyTrue, history

LEMMA LoadKeeps ==
  ASSUME JourneyTrue, Load
  PROVE  JourneyTrue'
<1>1. /\ record # None /\ info' = DeserializeInfo(record, now) /\ record' = None
      /\ UNCHANGED <<now, lineVars, holder, sends, history>>
  BY DEF Load
<1>2. Times => Times'
  BY <1>1 DEF Times, history
<1>3. LineTrue => LineTrue'
  BY <1>1 DEF LineTrue, history, lineVars
<1>4. RecordTrue'
  BY <1>1 DEF RecordTrue
<1>5. RecordTrue /\ Times /\ GoodOrigin(origin) => InfoTrue'
  <2> SUFFICES ASSUME RecordTrue, Times, GoodOrigin(origin) PROVE ("bundle" \in DOMAIN info /\ HeldAs(info.bundle))'
    BY DEF InfoTrue
  <2>1. PICK b : /\ record[1].value = 0 /\ record[6].value = since
                 /\ record[7] = toCbor(b) /\ Carries(origin, b, holder - 1, stay)
    BY <1>1 DEF RecordTrue
  <2> DEFINE p == b.primary
             y == b.payload
             e == b.ext
             z == Reading(p, y, e, now)
             x == Kept(z, 0, since)
  <2>2. WellFormed(b) /\ GoodExt(b.ext)
    BY <2>1, WellCarried
  <2>3. fromCbor(record[7], now) = z
    <3>1. Parts(p, y, e)
      BY <2>2 DEF WellFormed
    <3>2. record[7] = Items(p, y, e)
      BY <2>1, toCborItems
    <3> HIDE DEF p, y, e
    <3> QED BY <3>1, <3>2, RecordReadsBack
  <2> HIDE DEF z
  <2>4. info'.bundle = x /\ "bundle" \in DOMAIN info'
    BY <1>1, <2>1, <2>3 DEF DeserializeInfo, DecodeBundle, Kept
  <2>5. /\ IsBundle(z) /\ z.valid = TRUE /\ z.primary = p /\ z.payload = y /\ z.ext = e
        /\ z.has = Marked(TypesIn(e))
    <3>1. IsReading(z, p, y, e, now)
      BY ReadingFields DEF z
    <3> QED BY <3>1 DEF IsReading
  <2>6. /\ IsBundle(x) /\ x.ext = z.ext /\ x.has = z.has /\ x.valid = z.valid
        /\ x.primary = z.primary /\ x.payload = z.payload
        /\ x.receivedAt = since /\ x.retention = 0
    <3> HIDE DEF p, y, e
    <3>1. IsBundle(z)
      BY <2>5
    <3> QED BY <3>1, BundleWithTimes
  <2> HIDE DEF x
  <2>7. Carries(b, x, 0, 0)
    BY <2>2, <2>5, <2>6, CarriesItself
  <2>8. Carries(origin, x, holder - 1, stay)
    <3>1. holder - 1 \in Nat /\ stay \in Nat
      BY DEF Times
    <3>2. Carries(origin, x, holder - 1 + 0, stay + 0)
      BY <2>1, <2>7, <3>1, CarriesOn
    <3> QED BY <3>1, <3>2
  <2>9. IsBundle(x) /\ x.valid = TRUE /\ x.has = Marked(TypesIn(x.ext))
        /\ x.receivedAt = since /\ x.retention = 0
    BY <2>5, <2>6
  <2> QED BY <1>1, <2>4, <2>8, <2>9 DEF HeldAs, history
<1> QED BY <1>1, <1>2, <1>3, <1>4, <1>5 DEF JourneyTrue, history

LEMMA SendKeepsBundle ==
  ASSUME Send, "bundle" \in DOMAIN info
  PROVE  "bundle" \in DOMAIN info' /\ info'.bundle = info.bundle
<1> DEFINE f == Append(info.forwardedTo, Node(Uri[holder + 1]))
           i1 == [info EXCEPT !.forwardedTo = f]
           m == i1.numOfBroadcasts + 1
           i2 == [i1 EXCEPT !.numOfBroadcasts = m]
           i3 == [i2 EXCEPT !.lastBroadcastTime = now]
<1>1. info' = i3
  BY DEF Send
<1> HIDE DEF f
<1>2. DOMAIN i1 = DOMAIN info /\ i1.bundle = info.bundle
  OBVIOUS
<1> HIDE DEF i1, m
<1>3. DOMAIN i2 = DOMAIN info /\ i2.bundle = info.bundle
  BY <1>2
<1> HIDE DEF i2
<1>4. DOMAIN i3 = DOMAIN info /\ i3.bundle = info.bundle
  BY <1>3
<1> HIDE DEF i3
<1> QED BY <1>1, <1>4

LEMMA SendKeeps ==
  ASSUME JourneyTrue, Send
  PROVE  JourneyTrue'
<1> DEFINE b == info.bundle
           d == now - b.receivedAt
           x == increaseHopCount(increaseAge(removePreviousNode(CopyOf(b)), d))
           n == sends + 1
           stamp == stay + now - since
<1>1. /\ info # None /\ out = <<>> /\ rx' = rx /\ data' = data /\ sends' = n
      /\ out' = CopyOfBundle(x, n) /\ copies' = Append(copies, stamp)
      /\ UNCHANGED <<now, holder, record, fate, origin, since, stay, noise, spoiled>>
  <2>1. out' = Encoding(toCbor(prepareForSend(b)), n)
    BY DEF Send, Write, Encoding
  <2>2. prepareForSend(b) = x
    BY DEF prepareForSend
  <2> HIDE DEF x
  <2> QED BY <2>1, <2>2 DEF Send, Write, CopyOfBundle
<1>2. GoodOrigin(origin) /\ GoodOrigin(origin)'
  BY <1>1 DEF JourneyTrue
<1> SUFFICES ASSUME ~spoiled, Times, InfoTrue, RecordTrue, LineTrue
             PROVE  Times' /\ InfoTrue' /\ RecordTrue' /\ LineTrue'
  BY <1>1, <1>2 DEF JourneyTrue
<1>3. /\ IsSeq(copies') /\ Len(copies') = n /\ (\A c \in 1 .. sends : copies'[c] = copies[c])
      /\ copies'[n] = stamp
  <2> HIDE DEF stamp
  <2> QED BY <1>1, SeqAppend DEF Times
<1>4. stamp \in Nat /\ n \in Nat /\ \A c \in 1 .. n : c \in 1 .. sends \/ c = n
  BY DEF Times
<1> HIDE DEF n, stamp
<1>5. Times'
  BY <1>1, <1>3, <1>4 DEF Times
<1>6. HeldAs(b) /\ "bundle" \in DOMAIN info
  BY <1>1 DEF InfoTrue
<1>7. InfoTrue'
  <2>1. "bundle" \in DOMAIN info' /\ info'.bundle = b
    BY <1>6, SendKeepsBundle
  <2> QED BY <1>1, <1>6, <2>1 DEF InfoTrue, HeldAs
<1>8. RecordTrue'
  BY <1>1 DEF RecordTrue
<1>9. Carries(origin, x, holder, stamp)
  <2>1. IsBundle(b) /\ b.has = Marked(TypesIn(b.ext)) /\ d = now - since
        /\ Carries(origin, b, holder - 1, stay)
    BY <1>6 DEF HeldAs
  <2>2. /\ d \in Nat /\ holder - 1 \in Nat /\ stay \in Nat
        /\ holder - 1 + 1 = holder /\ stay + d = stamp
    BY <2>1 DEF Times, stamp
  <2>3. GoodExt(b.ext)
    BY <2>1 DEF Carries
  <2> HIDE DEF b, d
  <2>4. Carries(b, x, 1, d)
    BY <2>1, <2>2, <2>3, BundlePrepared
  <2> HIDE DEF x
  <2>5. Carries(origin, x, holder - 1 + 1, stay + d)
    BY <2>1, <2>2, <2>4, CarriesOn
  <2> QED BY <2>2, <2>5
<1> HIDE DEF x, b
<1>10. LineTrue'
  <2>1. PICK F : /\ \A c \in 1 .. sends : Carries(origin, F[c], holder, copies[c])
                 /\ Arrived(rx, out, F, sends, noise) /\ Gathered(data, F, sends, noise)
    BY DEF LineTrue
  <2> DEFINE G == [c \in 1 .. n |-> IF c = n THEN x ELSE F[c]]
  <2>2. G[n] = x /\ \A c \in 1 .. sends : G[c] = F[c]
    <3>1. n \in 1 .. n /\ \A c \in 1 .. sends : c \in 1 .. n /\ c # n
      BY DEF n, Times
    <3> QED BY <3>1
  <2> HIDE DEF G
  <2>3. \A c \in 1 .. n : Carries(origin, G[c], holder, copies'[c])
    BY <1>3, <1>4, <1>9, <2>1, <2>2
  <2>4. AllWellFormed(F, sends) /\ WellFormed(x)
    BY <1>2, <1>9, <2>1, WellCarried DEF AllWellFormed
  <2>5. Arrived(rx, out', G, n, noise)
    <3>1. Arrived(rx, <<>>, F, sends, noise) /\ sends \in Nat
      BY <1>1, <2>1 DEF Times
    <3>2. Arrived(rx, out', G, sends + 1, noise)
      BY <2>2, <2>4, <3>1, ArrivedBefore
    <3> QED BY <3>2 DEF n
  <2>6. IsSeq(out') /\ Coming(out', CopyOfBundle(G[n], n), n, noise)
    <3> DEFINE E == CopyOfBundle(x, n)
    <3>1. IsSeq(E) /\ Len(E) \in Nat
      BY <2>4, CopyAt
    <3> HIDE DEF E
    <3>2. \A k \in 1 .. Len(E) : Len(E) - Len(E) + k = k
      BY <3>1
    <3>3. Coming(E, E, n, noise)
      BY <3>1, <3>2 DEF Coming, Same
    <3> QED BY <1>1, <2>2, <3>1, <3>3 DEF E
  <2>7. n >= 1
    BY DEF n, Times
  <2>8. Gathered(data', G, n, noise)
    <3>1. sends \in Nat /\ n \in Nat /\ sends <= n
      BY DEF n, Times
    <3>2. Gathered(data, G, n, noise)
      BY <2>1, <2>2, <3>1, GatheredMore
    <3> QED BY <1>1, <3>2
  <2> QED BY <1>1, <2>3, <2>5, <2>6, <2>7, <2>8 DEF LineTrue
<1> QED BY <1>5, <1>7, <1>8, <1>10

LEMMA ArriveKeeps ==
  ASSUME JourneyTrue, Arrive
  PROVE  JourneyTrue'
<1>1. /\ out # <<>> /\ out' = Tail(out)
      /\ rx' = IF Len(rx) < UartBuffer THEN Append(rx, Head(out)) ELSE rx
      /\ UNCHANGED <<now, data, holder, info, record, fate, sends, history>>
  BY DEF Arrive, Transmit
<1>2. Times => Times'
  BY <1>1 DEF Times, history
<1>3. InfoTrue => InfoTrue'
  BY <1>1 DEF InfoTrue, HeldAs, history
<1>4. RecordTrue => RecordTrue'
  BY <1>1 DEF RecordTrue, history
<1>5. LineTrue /\ Times /\ GoodOrigin(origin) => LineTrue'
  <2> SUFFICES ASSUME LineTrue, Times, GoodOrigin(origin) PROVE LineTrue'
    OBVIOUS
  <2>1. PICK F : /\ \A c \in 1 .. sends : Carries(origin, F[c], holder, copies[c])
                 /\ Arrived(rx, out, F, sends, noise) /\ Gathered(data, F, sends, noise)
                 /\ sends >= 1 /\ Coming(out, CopyOfBundle(F[sends], sends), sends, noise)
    BY <1>1 DEF LineTrue
  <2>2. AllWellFormed(F, sends) /\ sends \in Nat
    BY <2>1, WellCarried DEF AllWellFormed, Times
  <2>3. IsSeq(CopyOfBundle(F[sends], sends))
    <3>1. sends \in 1 .. sends
      BY <2>1, <2>2
    <3> QED BY <2>2, <3>1, CopyAt DEF AllWellFormed
  <2>4. Arrived(rx', out', F, sends, noise)
    BY <1>1, <2>1, <2>2, ArrivedMore
  <2>5. Coming(out', CopyOfBundle(F[sends], sends), sends, noise)
    BY <1>1, <2>1, <2>3, ComingOn
  <2>6. IsSeq(out')
    BY <2>5 DEF Coming
  <2> QED BY <1>1, <2>1, <2>4, <2>5, <2>6 DEF LineTrue, history
<1> QED BY <1>1, <1>2, <1>3, <1>4, <1>5 DEF JourneyTrue, history

LEMMA NoiseKeeps ==
  ASSUME NoiseKeepsCrcType, JourneyTrue, Noise
  PROVE  JourneyTrue'
<1> DEFINE x == Head(out)
           f == Damaged(x.fields)
           mark == [copy |-> sends, checked |-> x.fields.crcType # 0]
<1>1. /\ out # <<>> /\ x.is = "block"
      /\ out' = <<[x EXCEPT !.fields = f]>> \o Tail(out)
      /\ noise' = noise \cup {mark}
      /\ UNCHANGED <<now, rx, data, holder, info, record, sends, origin, since, stay, copies,
                     spoiled>>
  BY DEF Noise
<1>2. Times => Times'
  BY <1>1 DEF Times
<1>3. InfoTrue => InfoTrue'
  BY <1>1 DEF InfoTrue, HeldAs
<1>4. RecordTrue => RecordTrue'
  BY <1>1 DEF RecordTrue
<1>5. LineTrue /\ Times /\ GoodOrigin(origin) => LineTrue'
  <2> SUFFICES ASSUME LineTrue, Times, GoodOrigin(origin) PROVE LineTrue'
    OBVIOUS
  <2>1. PICK F : /\ \A c \in 1 .. sends : Carries(origin, F[c], holder, copies[c])
                 /\ Arrived(rx, out, F, sends, noise) /\ Gathered(data, F, sends, noise)
                 /\ sends >= 1 /\ Coming(out, CopyOfBundle(F[sends], sends), sends, noise)
    BY <1>1 DEF LineTrue
  <2> DEFINE E == CopyOfBundle(F[sends], sends)
  <2>2. WellFormed(F[sends])
    <3>1. sends \in 1 .. sends
      BY <2>1 DEF Times
    <3> QED BY <2>1, <3>1, WellCarried
  <2>3. IsSeq(E) /\ \A k \in 1 .. Len(E) : E[k].is = "block" => IsItem(E[k])
    BY <2>2, CopyAt
  <2>4. "crcType" \in DOMAIN x.fields => "crcType" \in DOMAIN f /\ f.crcType = x.fields.crcType
    BY DEF NoiseKeepsCrcType
  <2>5. x.fields.crcType = 0 => \E m \in noise' : m.copy = sends /\ ~m.checked
    <3>1. mark \in noise' /\ mark.copy = sends /\ (mark.checked <=> x.fields.crcType # 0)
      BY <1>1
    <3> HIDE DEF mark, x
    <3> QED BY <3>1
  <2> HIDE DEF E, f
  <2>6. Coming(out', E, sends, noise') /\ Len(out') = Len(out)
    <3>1. noise \subseteq noise' /\ Coming(out, E, sends, noise)
      BY <1>1, <2>1 DEF E
    <3> DEFINE M == noise'
    <3>2. /\ noise \subseteq M
          /\ x.fields.crcType = 0 => \E m \in M : m.copy = sends /\ ~m.checked
      BY <2>5, <3>1
    <3>3. out' = Hit(out, f)
      BY <1>1 DEF Hit
    <3> HIDE DEF M
    <3>4. Harms(Head(out), f, sends, M)
      BY <1>1, <2>4, <3>2 DEF Harms
    <3>5. Coming(Hit(out, f), E, sends, M) /\ Len(Hit(out, f)) = Len(out)
      BY <1>1, <2>3, <3>1, <3>2, <3>4, ComingDamaged
    <3> QED BY <3>3, <3>5 DEF M
  <2>7. Arrived(rx', out', F, sends, noise')
    <3> DEFINE M == noise'
               z == out'
    <3>1. noise \subseteq M /\ Len(z) = Len(out)
      BY <1>1, <2>6
    <3> HIDE DEF M, z
    <3>2. Arrived(rx, z, F, sends, M)
      BY <2>1, <3>1, ArrivedWith
    <3> QED BY <1>1, <3>2 DEF M, z
  <2>8. IsSeq(out')
    BY <2>6 DEF Coming
  <2>9. Gathered(data', F, sends, noise')
    <3> DEFINE M == noise'
    <3>1. sends \in Nat /\ sends <= sends /\ noise \subseteq M /\ \A c \in 1 .. sends : F[c] = F[c]
      BY <1>1 DEF Times
    <3> HIDE DEF M
    <3>2. Gathered(data, F, sends, M)
      BY <2>1, <3>1, GatheredMore
    <3> QED BY <1>1, <3>2 DEF M
  <2> QED BY <1>1, <2>1, <2>6, <2>7, <2>8, <2>9 DEF LineTrue, E
<1> QED BY <1>1, <1>2, <1>3, <1>4, <1>5 DEF JourneyTrue

(* Read and Flush. *)
LEMMA PollingKeeps ==
  ASSUME JourneyTrue, rx' = <<>>, data' \in {rx, <<>>},
         UNCHANGED <<now, out, holder, info, record, sends, history>>
  PROVE  JourneyTrue'
<1>1. Times => Times'
  BY DEF Times, history
<1>2. InfoTrue => InfoTrue'
  BY DEF InfoTrue, HeldAs, history
<1>3. RecordTrue => RecordTrue'
  BY DEF RecordTrue, history
<1>4. LineTrue => LineTrue'
  <2>1. \A F : Arrived(rx, out, F, sends, noise) => Gathered(data', F, sends, noise)
    BY ArrivedNothing, GatheredIfArrived
  <2> QED BY <2>1, ArrivedNothing DEF LineTrue, history
<1> QED BY <1>1, <1>2, <1>3, <1>4 DEF JourneyTrue, history

LEMMA PollKeeps ==
  ASSUME JourneyTrue, Poll
  PROVE  JourneyTrue'
<1> DEFINE c == Piece(data, Min(DOMAIN Found))[1].copy
           taken == FirstFound
<1>1. rx' = <<>> /\ data' = <<>> /\ DOMAIN Found # {}
  BY DEF Poll, Flush
<1>2. PICK ghost \in Ghosts(taken) : Take(Process(taken, ghost), c)
  BY DEF Poll
<1> HIDE DEF taken, c
<1> DEFINE done == Process(taken, ghost)
<1>3. CASE MustDelete(done)
  <2>1. UNCHANGED <<now, out, holder, info, record, sends, history>>
    BY <1>2, <1>3 DEF Take
  <2> QED BY <1>1, <2>1, PollingKeeps
<1>4. CASE ~MustDelete(done)
  <2>1. /\ holder' = holder + 1 /\ info' = BundleInfo(done.bundle) /\ record' = None
        /\ out' = <<>> /\ sends' = 0 /\ since' = now /\ stay' = copies[c]
        /\ copies' = <<>> /\ now' = now /\ origin' = origin
        /\ spoiled' = (spoiled \/ \E n \in noise : n.copy = c /\ ~n.checked)
    BY <1>2, <1>4 DEF Take
  <2>2. GoodOrigin(origin) /\ GoodOrigin(origin)'
    BY <2>1 DEF JourneyTrue
  <2> SUFFICES ASSUME ~spoiled, Unspoiled(c, noise), Times, LineTrue
               PROVE  Times' /\ InfoTrue' /\ RecordTrue' /\ LineTrue'
    BY <2>1, <2>2 DEF JourneyTrue, Unspoiled
  <2>3. PICK F : /\ \A k \in 1 .. sends : Carries(origin, F[k], holder, copies[k])
                 /\ Gathered(data, F, sends, noise)
    BY DEF LineTrue
  <2>4. AllWellFormed(F, sends)
    BY <2>2, <2>3, WellCarried DEF AllWellFormed
  <2>5. c \in 1 .. sends
        /\ taken = Reading(F[c].primary, F[c].payload, F[c].ext, now)
    BY <1>1, <2>3, <2>4, PollFinds DEF c, taken
  <2>6. copies[c] \in Nat /\ holder \in Nat
    BY <2>5 DEF Times
  <2>7. Times'
    BY <2>1, <2>6, SeqEmpty DEF Times
  <2>8. InfoTrue'
    <3> DEFINE y == Reading(F[c].primary, F[c].payload, F[c].ext, now)
               x == CopyOf(Process(y, ghost).bundle)
    <3>1. info'.bundle = x /\ "bundle" \in DOMAIN info'
      <4>1. info' = BundleInfo(Process(y, ghost).bundle)
        BY <2>1, <2>5
      <4> HIDE DEF y
      <4> QED BY <4>1, TypesOfInfo
    <3>2. /\ IsBundle(x) /\ x.valid = TRUE /\ x.has = Marked(TypesIn(x.ext))
          /\ x.receivedAt = now /\ x.retention = 0 /\ Carries(origin, x, holder, copies[c])
      <4>1. ghost \in Ghosts(y) /\ Carries(origin, F[c], holder, copies[c])
        BY <2>3, <2>5
      <4> QED BY <2>2, <2>6, <4>1, Taken
    <3> HIDE DEF x
    <3>3. holder' - 1 = holder
      BY <2>1, <2>6
    <3> QED BY <2>1, <3>1, <3>2, <3>3 DEF InfoTrue, HeldAs
  <2>9. RecordTrue'
    BY <2>1 DEF RecordTrue
  <2>10. LineTrue'
    <3>1. \A k \in 1 .. sends' : FALSE
      BY <2>1
    <3> QED BY <1>1, <2>1, <3>1, ArrivedNothing, SeqEmpty DEF LineTrue
  <2> QED BY <2>7, <2>8, <2>9, <2>10
<1> QED BY <1>3, <1>4

LEMMA JourneyGoesOn ==
  ASSUME NoiseKeepsCrcType, JourneyTrue, [Next]_vars
  PROVE  JourneyTrue'
<1>1. CASE Tick
  BY <1>1, TickKeeps
<1>2. CASE Abort \/ SendRefused \/ UNCHANGED vars
  BY <1>2, OthersKeep
<1>3. CASE Send
  BY <1>3, SendKeeps
<1>4. CASE Store
  BY <1>4, StoreKeeps
<1>5. CASE Load
  BY <1>5, LoadKeeps
<1>6. CASE Arrive
  BY <1>6, ArriveKeeps
<1>7. CASE Noise
  BY <1>7, NoiseKeeps
<1>8. CASE PollRead \/ PollNothing
  <2>1. /\ rx' = <<>> /\ data' \in {rx, <<>>}
        /\ UNCHANGED <<now, out, holder, info, record, sends, history>>
    BY <1>8 DEF PollRead, Read, PollNothing, Flush
  <2> QED BY <2>1, PollingKeeps
<1>9. CASE Poll
  BY <1>9, PollKeeps
<1> QED BY <1>1, <1>2, <1>3, <1>4, <1>5, <1>6, <1>7, <1>8, <1>9 DEF Next

(* The invariant holds, whatever bundle the journey begins with.            *)
THEOREM Journey ==
  ASSUME \A o \in Origins : GoodOrigin(o), NoiseKeepsCrcType
  PROVE  Spec => []JourneyTrue
<1>1. Init => JourneyTrue
  BY JourneyBegins
<1>2. JourneyTrue /\ [Next]_vars => JourneyTrue'
  BY JourneyGoesOn
<1> QED BY <1>1, <1>2, PTL DEF Spec

LEMMA IntactIfTrue ==
  ASSUME JourneyTrue
  PROVE  TravelsIntact
<1> SUFFICES ASSUME info # None, ~spoiled
             PROVE  LET b == info.bundle
                    IN  /\ b.valid /\ b.primary = origin.primary /\ b.payload = origin.payload
                        /\ getID(b) = getID(origin)
                        /\ Cargo(b) = Cargo(origin)
                        /\ b.has = Marked({b.ext[i].type : i \in DOMAIN b.ext})
  BY DEF TravelsIntact
<1> DEFINE b == info.bundle
<1>1. HeldAs(b)
  BY DEF JourneyTrue, InfoTrue
<1> HIDE DEF b
<1>2. /\ b.valid = TRUE /\ b.primary = origin.primary /\ b.payload = origin.payload
      /\ Cargo(b) = Cargo(origin) /\ b.has = Marked(TypesIn(b.ext))
  BY <1>1 DEF HeldAs, Carries
<1>3. origin.valid = TRUE
  BY DEF JourneyTrue, GoodOrigin
<1>4. getID(b) = getID(origin)
  BY <1>2, <1>3 DEF getID
<1>5. b.valid
  BY <1>2
<1> QED BY <1>2, <1>4, <1>5 DEF TypesIn, b

(* Wherever it is, the bundle is the one that was sent, as far as no block  *)
(* without a CRC was changed on its way: through prepareForSend, toCbor, the *)
(* line, getNewBundles, fromCbor, bundleReception and the storages.          *)
THEOREM BundlesTravelIntact ==
  ASSUME \A o \in Origins : GoodOrigin(o), NoiseKeepsCrcType
  PROVE  Spec => []TravelsIntact
<1>1. Spec => []JourneyTrue
  BY Journey
<1>2. JourneyTrue => TravelsIntact
  BY IntactIfTrue
<1> QED BY <1>1, <1>2, PTL

LEMMA CountsIfTrue ==
  ASSUME JourneyTrue
  PROVE  CountsTrue
<1> DEFINE b == info.bundle
           d == now - b.receivedAt
           x == increaseHopCount(increaseAge(removePreviousNode(CopyOf(b)), d))
<1> SUFFICES ASSUME info # None, ~spoiled
             PROVE  /\ Has(origin, HopCount) => getHopCount(x) = getHopCount(origin) + holder
                    /\ Has(origin, BundleAge) =>
                         getAge(x) = getAge(origin) + stay + now - since
  BY DEF CountsTrue, prepareForSend
<1>1. HeldAs(b) /\ Times /\ GoodOrigin(origin)
  BY DEF JourneyTrue, InfoTrue
<1>2. /\ IsBundle(b) /\ b.has = Marked(TypesIn(b.ext)) /\ b.receivedAt = since
      /\ Carries(origin, b, holder - 1, stay)
  BY <1>1 DEF HeldAs
<1>3. /\ d \in Nat /\ d = now - since /\ holder - 1 \in Nat /\ stay \in Nat
      /\ holder - 1 + 1 = holder /\ now \in Nat /\ since \in Nat
  BY <1>1, <1>2 DEF Times
<1>4. GoodExt(b.ext) /\ GoodExt(origin.ext) /\ origin.has = Marked(TypesIn(origin.ext))
  BY <1>1, <1>2 DEF Carries, GoodOrigin
<1> HIDE DEF b, d
<1>5. /\ Carries(b, x, 1, d)
      /\ \A type \in {BundleAge, HopCount} : type \in b.has => type \in x.has
  BY <1>2, <1>3, <1>4, BundlePrepared
<1> HIDE DEF x
<1>6. Carries(origin, x, holder, stay + d)
  <2>1. Carries(origin, x, holder - 1 + 1, stay + d)
    BY <1>2, <1>3, <1>5, CarriesOn
  <2> QED BY <1>3, <2>1
<1>7. GoodExt(x.ext) /\ IsSeq(x.ext) /\ IsSeq(origin.ext)
  BY <1>4, <1>6 DEF Carries, GoodExt
<1>8. ASSUME NEW type \in {BundleAge, HopCount}, type \in TypesIn(b.ext) PROVE Has(x, type)
  <2>1. type \in b.has
    BY <1>2, <1>8 DEF Marked
  <2> QED BY <1>5, <2>1 DEF Has
<1>9. ASSUME Has(origin, HopCount) PROVE getHopCount(x) = getHopCount(origin) + holder
  <2>0. PICK l : \E n \in Nat : Counted(origin.ext, HopCount, <<l, n>>)
    <3>1. HopCount \in TypesIn(origin.ext)
      BY <1>4, <1>9 DEF Has, Marked
    <3> QED BY <1>4, <3>1, HopsCounted
  <2>1. PICK n \in Nat : Counted(origin.ext, HopCount, <<l, n>>)
    BY <2>0
  <2>2. Counted(x.ext, HopCount, <<l, n + holder>>)
    BY <1>6, <2>1 DEF Carries
  <2>3. Has(x, HopCount)
    <3>1. Counted(b.ext, HopCount, <<l, n + (holder - 1)>>)
      BY <1>2, <2>1 DEF Carries
    <3>2. HopCount \in TypesIn(b.ext)
      BY <3>1, CountedTypes
    <3> QED BY <1>8, <3>2
  <2>4. DataOf(origin, HopCount) = <<l, n>> /\ DataOf(x, HopCount) = <<l, n + holder>>
    BY <1>7, <2>1, <2>2, CountedFirst
  <2>5. getHopCount(origin) = n /\ getHopCount(x) = n + holder
    BY <1>9, <2>3, <2>4 DEF getHopCount
  <2> QED BY <2>5
<1>10. ASSUME Has(origin, BundleAge)
       PROVE  getAge(x) = getAge(origin) + stay + now - since
  <2>1. PICK n \in Nat : Counted(origin.ext, BundleAge, <<n>>)
    <3>1. BundleAge \in TypesIn(origin.ext)
      BY <1>4, <1>10 DEF Has, Marked
    <3> QED BY <1>4, <3>1, AgeCounted
  <2>2. Counted(x.ext, BundleAge, <<n + (stay + d)>>)
    BY <1>6, <2>1 DEF Carries
  <2>3. Has(x, BundleAge)
    <3>1. Counted(b.ext, BundleAge, <<n + stay>>)
      BY <1>2, <2>1 DEF Carries
    <3>2. BundleAge \in TypesIn(b.ext)
      BY <3>1, CountedTypes
    <3> QED BY <1>8, <3>2
  <2>4. DataOf(origin, BundleAge) = <<n>> /\ DataOf(x, BundleAge) = <<n + (stay + d)>>
    BY <1>7, <2>1, <2>2, CountedFirst
  <2>5. getAge(origin) = n /\ getAge(x) = n + (stay + d)
    BY <1>10, <2>3, <2>4 DEF getAge
  <2>6. n + (stay + d) = n + stay + now - since
    BY <1>3
  <2> QED BY <2>5, <2>6
<1> QED BY <1>9, <1>10

(* The hop count is the number of links, the age the time at nodes, however *)
(* often the bundle was sent, refused, stored and loaded.                   *)
THEOREM CountsAreTrue ==
  ASSUME \A o \in Origins : GoodOrigin(o), NoiseKeepsCrcType
  PROVE  Spec => []CountsTrue
<1>1. Spec => []JourneyTrue
  BY Journey
<1>2. JourneyTrue => CountsTrue
  BY CountsIfTrue
<1> QED BY <1>1, <1>2, PTL

-----------------------------------------------------------------------------
(* The neighbours that got the bundle.                                     *)

GoodPeer(node, h) ==
  node.uri = Uri[h + 1] /\ node.eids = <<fromUri(node.uri)>> /\ Readable(fromUri(node.uri))

Peers(list, h, s) == IsSeq(list) /\ Len(list) = s /\ \A i \in 1 .. s : GoodPeer(list[i], h)

IsInfo(i) ==
  i = [bundle |-> i.bundle, locallyDelivered |-> i.locallyDelivered,
       forwardedTo |-> i.forwardedTo, numOfBroadcasts |-> i.numOfBroadcasts,
       lastBroadcastTime |-> i.lastBroadcastTime]

PeersTrue ==
  /\ info = None \/ record = None
  /\ holder \in Nat /\ holder >= 1 /\ sends \in Nat
  /\ info # None => /\ IsInfo(info) /\ Peers(info.forwardedTo, holder, sends)
                    /\ info.numOfBroadcasts = sends
  /\ record # None => /\ record[4].value = sends
                      /\ \E list : Peers(list, holder, sends) /\ record[3].value = EncodeNodes(list)

(* A node is read with the EIDs it was written with. *)
LEMMA NodeReadsBack ==
  ASSUME NEW n, NEW h, GoodPeer(n, h)
  PROVE  GoodPeer(DeserializeNode(SerializeNode(n)), h)
<1> DEFINE e == fromUri(n.uri)
           a == EncodeEids(n.eids)
           r == SerializeNode(n)
           x == DeserializeNode(r)
<1>1. n.eids = <<e>> /\ e.valid /\ EidFromCbor(EidToCbor(e)) = e
  BY DEF GoodPeer, Readable
<1> HIDE DEF e
<1>2. r[2].value = a /\ r[3].value = n.uri
  BY DEF SerializeNode
<1>3. a = [i \in {1} |-> EidToCbor(e)]
  <2>1. DOMAIN <<e>> = {1} /\ <<e>>[1] = e
    OBVIOUS
  <2> HIDE DEF e
  <2> QED BY <1>1, <2>1 DEF EncodeEids
<1> HIDE DEF a, r
<1>4. DecodeEids(a) = <<e>>
  <2>1. DOMAIN a = {1} /\ EidFromCbor(a[1]) = e
    BY <1>1, <1>3
  <2>2. DecodeEids(a) = [i \in {1} |-> e]
    BY <1>1, <2>1 DEF DecodeEids
  <2>3. [i \in {1} |-> e] = <<e>>
    <3>1. IsSeq(<<e>>) /\ Len(<<e>>) = 1 /\ <<e>>[1] = e
      <4>1. <<e>> \in Seq({e})
        OBVIOUS
      <4> QED BY <4>1, SeqSets
    <3> DEFINE f == [i \in 1 .. 1 |-> e]
    <3>2. f = [i \in 1 .. 1 |-> f[i]] /\ f[1] = e /\ 1 .. 1 = {1} /\ 1 \in Nat
      OBVIOUS
    <3>3. [i \in {1} |-> e] = f
      BY <3>2
    <3> HIDE DEF f
    <3>4. IsSeq(f) /\ Len(f) = 1
      BY <3>2, SeqOfFunction
    <3>5. f = <<e>>
      BY <3>1, <3>2, <3>4, SeqEquals
    <3> QED BY <3>3, <3>5
  <2> QED BY <2>2, <2>3
<1>5. x.uri = n.uri /\ x.eids = <<e>>
  BY <1>2, <1>4 DEF DeserializeNode
<1> HIDE DEF x
<1> QED BY <1>5 DEF GoodPeer, x, r, e

LEMMA NodesReadBack ==
  ASSUME NEW list, NEW h, NEW s \in Nat, Peers(list, h, s)
  PROVE  Peers(DecodeNodes(EncodeNodes(list)), h, s)
<1> DEFINE f == DecodeNodes(EncodeNodes(list))
<1>1. DOMAIN list = 1 .. s
  BY SeqBasics DEF Peers
<1>2. f = [i \in 1 .. s |-> DeserializeNode(SerializeNode(list[i]))]
  BY <1>1 DEF DecodeNodes, EncodeNodes
<1> HIDE DEF f
<1>3. f = [i \in 1 .. s |-> f[i]]
  BY <1>2
<1>4. IsSeq(f) /\ Len(f) = s
  BY <1>3, SeqOfFunction
<1>5. \A i \in 1 .. s : GoodPeer(f[i], h)
  BY <1>2, NodeReadsBack DEF Peers
<1> QED BY <1>4, <1>5 DEF Peers, f

LEMMA PeersGoOn ==
  ASSUME JourneyAssumption, \A n \in 2 .. NumNodes : Readable(fromUri(Uri[n])),
         PeersTrue, [Next]_vars
  PROVE  PeersTrue'
<1>1. CASE Tick \/ Abort \/ SendRefused \/ Arrive \/ Noise \/ PollRead \/ PollNothing
           \/ UNCHANGED vars
  <2>1. UNCHANGED <<holder, info, record, sends>>
    BY <1>1 DEF Tick, Abort, SendRefused, Arrive, Noise, PollRead, PollNothing, vars
  <2> QED BY <2>1 DEF PeersTrue, Peers, GoodPeer
<1>2. CASE Send
  <2> DEFINE node == Node(Uri[holder + 1])
             list == Append(info.forwardedTo, node)
             k == info.numOfBroadcasts + 1
             bundle == info.bundle
             local == info.locallyDelivered
  <2>1. /\ info # None /\ holder < NumNodes /\ sends' = sends + 1
        /\ UNCHANGED <<holder, record>>
    BY <1>2 DEF Send
  <2>2. record' = None
    BY <2>1 DEF PeersTrue
  <2>3. IsInfo(info) /\ Peers(info.forwardedTo, holder, sends) /\ info.numOfBroadcasts = sends
    BY <2>1 DEF PeersTrue
  <2>4. info' = [bundle |-> bundle, locallyDelivered |-> local, forwardedTo |-> list,
                 numOfBroadcasts |-> k, lastBroadcastTime |-> now]
    <3>1. info' = [[[info EXCEPT !.forwardedTo = list]
                      EXCEPT !.numOfBroadcasts = k] EXCEPT !.lastBroadcastTime = now]
      BY <1>2 DEF Send
    <3>2. PICK f, m, l : info = [bundle |-> bundle, locallyDelivered |-> local,
                                 forwardedTo |-> f, numOfBroadcasts |-> m,
                                 lastBroadcastTime |-> l]
      BY <2>3 DEF IsInfo
    <3> HIDE DEF bundle, local, list, k
    <3> QED BY <3>1, <3>2
  <2>5. GoodPeer(node, holder)
    <3>1. Readable(fromUri(Uri[holder + 1]))
      <4>1. holder + 1 \in 2 .. NumNodes
        BY <2>1 DEF PeersTrue, JourneyAssumption
      <4> QED BY <4>1
    <3> QED BY <3>1 DEF GoodPeer, Node
  <2> HIDE DEF node
  <2>6. /\ IsSeq(list) /\ Len(list) = sends + 1
        /\ (\A i \in 1 .. sends : list[i] = info.forwardedTo[i]) /\ list[sends + 1] = node
    BY <2>3, SeqAppend DEF Peers
  <2>7. k = sends + 1 /\ sends + 1 \in Nat
    BY <2>3 DEF PeersTrue
  <2> HIDE DEF list, k, bundle, local
  <2>8. Peers(list, holder, sends + 1)
    <3>1. \A i \in 1 .. sends + 1 : i \in 1 .. sends \/ i = sends + 1
      BY DEF PeersTrue
    <3> QED BY <2>3, <2>5, <2>6, <3>1 DEF Peers
  <2>9. IsInfo(info') /\ info'.forwardedTo = list /\ info'.numOfBroadcasts = k
    <3>1. /\ info'.forwardedTo = list /\ info'.numOfBroadcasts = k /\ info'.bundle = bundle
          /\ info'.locallyDelivered = local /\ info'.lastBroadcastTime = now
      BY <2>4
    <3> QED BY <2>4, <3>1 DEF IsInfo
  <2> QED BY <2>1, <2>2, <2>7, <2>8, <2>9 DEF PeersTrue
<1>3. CASE Store
  <2>1. /\ info # None /\ UNCHANGED <<holder, sends>>
        /\ \/ record' = SerializeInfo(info) /\ info' = None
           \/ UNCHANGED <<record, info>>
    BY <1>3 DEF Store, history
  <2>2. CASE record' = SerializeInfo(info) /\ info' = None
    <3>1. /\ record'[3].value = EncodeNodes(info.forwardedTo)
          /\ record'[4].value = info.numOfBroadcasts
      BY <2>2 DEF SerializeInfo, Uint
    <3> QED BY <2>1, <2>2, <3>1 DEF PeersTrue
  <2>3. CASE UNCHANGED <<record, info>>
    BY <2>1, <2>3 DEF PeersTrue
  <2> QED BY <2>1, <2>2, <2>3
<1>4. CASE Load
  <2>1. /\ record # None /\ info' = DeserializeInfo(record, now) /\ record' = None
        /\ UNCHANGED <<holder, sends>>
    BY <1>4 DEF Load
  <2>2. PICK list : /\ Peers(list, holder, sends) /\ record[3].value = EncodeNodes(list)
                    /\ record[4].value = sends
    BY <2>1 DEF PeersTrue
  <2>3. IsInfo(info') /\ info'.forwardedTo = DecodeNodes(EncodeNodes(list))
        /\ info'.numOfBroadcasts = sends
    BY <2>1, <2>2 DEF DeserializeInfo, IsInfo
  <2>4. Peers(DecodeNodes(EncodeNodes(list)), holder, sends)
    BY <2>2, NodesReadBack DEF PeersTrue
  <2> QED BY <2>1, <2>3, <2>4 DEF PeersTrue
<1>5. CASE Poll
  <2>1. PICK bundle : \/ UNCHANGED <<holder, info, record, sends>>
                      \/ /\ holder' = holder + 1 /\ info' = BundleInfo(bundle)
                         /\ record' = None /\ sends' = 0
    BY <1>5 DEF Poll, Take
  <2>2. CASE UNCHANGED <<holder, info, record, sends>>
    BY <2>2 DEF PeersTrue
  <2>3. CASE /\ holder' = holder + 1 /\ info' = BundleInfo(bundle)
             /\ record' = None /\ sends' = 0
    <3>1. IsInfo(info') /\ info'.forwardedTo = <<>> /\ info'.numOfBroadcasts = 0
      BY <2>3 DEF BundleInfo, IsInfo
    <3>2. Peers(<<>>, holder', 0)
      <4>1. \A i \in 1 .. 0 : FALSE
        OBVIOUS
      <4> QED BY <4>1, SeqEmpty DEF Peers
    <3>3. holder' \in Nat /\ holder' >= 1
      BY <2>3 DEF PeersTrue
    <3> QED BY <2>3, <3>1, <3>2, <3>3 DEF PeersTrue
  <2> QED BY <2>1, <2>2, <2>3
<1> QED BY <1>1, <1>2, <1>3, <1>4, <1>5 DEF Next

(* Each time the bundle was sent, and no other time, the neighbour on the   *)
(* line is noted as one that got it, and writing the record and reading it  *)
(* again changes none of these notes.                                       *)
THEOREM RecordsKeepTheirPeers ==
  ASSUME \A n \in 2 .. NumNodes : Readable(fromUri(Uri[n]))
  PROVE  Spec => []RecordsKeepPeers
<1>1. Init => PeersTrue
  <2> SUFFICES ASSUME Init PROVE PeersTrue
    OBVIOUS
  <2>1. holder = 1 /\ sends = 0 /\ info = BundleInfo(origin) /\ record = None
    BY DEF Init
  <2>2. IsInfo(info) /\ info.forwardedTo = <<>> /\ info.numOfBroadcasts = 0
    BY <2>1 DEF BundleInfo, IsInfo
  <2>3. Peers(<<>>, holder, 0)
    <3>1. \A i \in 1 .. 0 : FALSE
      OBVIOUS
    <3> QED BY <3>1, SeqEmpty DEF Peers
  <2> QED BY <2>1, <2>2, <2>3 DEF PeersTrue
<1>2. PeersTrue /\ [Next]_vars => PeersTrue'
  BY JourneyAssumption, PeersGoOn
<1>3. PeersTrue => RecordsKeepPeers
  <2> SUFFICES ASSUME PeersTrue, info # None
               PROVE  /\ Len(info.forwardedTo) = sends /\ info.numOfBroadcasts = sends
                      /\ \A i \in DOMAIN info.forwardedTo :
                           GoodPeer(info.forwardedTo[i], holder)
    BY DEF RecordsKeepPeers, GoodPeer
  <2>1. Peers(info.forwardedTo, holder, sends) /\ info.numOfBroadcasts = sends
    BY DEF PeersTrue
  <2>2. DOMAIN info.forwardedTo = 1 .. sends
    BY <2>1, SeqBasics DEF Peers
  <2> QED BY <2>1, <2>2 DEF Peers
<1> QED BY <1>1, <1>2, <1>3, PTL DEF Spec

-----------------------------------------------------------------------------
(* What may come next to what on the line, whatever the bundles are and     *)
(* whatever noise makes of their blocks.                                   *)

LEMMA OtherField ==
  ASSUME NEW b, Solid(b), NEW f, f # "ext", NEW v
  PROVE  Solid([b EXCEPT ![f] = v])
<1> DEFINE x == [b EXCEPT ![f] = v]
<1>1. DOMAIN x = DOMAIN b /\ x["ext"] = b["ext"]
  BY DEF Solid
<1> HIDE DEF x
<1>2. Solid(x)
  BY <1>1 DEF Solid
<1> QED BY <1>2 DEF x

LEMMA OtherExt ==
  ASSUME NEW b, Solid(b), NEW v, IsSeq(v)
  PROVE  Solid([b EXCEPT !.ext = v]) /\ [b EXCEPT !.ext = v].ext = v
<1> DEFINE x == [b EXCEPT !.ext = v]
<1>1. DOMAIN x = DOMAIN b /\ x["ext"] = v
  BY DEF Solid
<1> HIDE DEF x
<1>2. Solid(x) /\ x.ext = v
  BY <1>1 DEF Solid
<1> QED BY <1>2 DEF x

LEMMA TurnSolid ==
  ASSUME NEW b, Solid(b), NEW item
  PROVE  Solid(AddBlock(b, item))
<1> DEFINE no == FALSE
           block == fromCborCanonical(item)
           primary == fromCborPrimary(item)
           e == Append(b.ext, block)
           u == b.used \cup {block.number}
           h == b.has \cup Marked({block.type})
           invalid == [b EXCEPT !.valid = no]
           paid == [b EXCEPT !.payload = AsPayload(block)]
           longer == [b EXCEPT !.ext = e, !.used = u, !.has = h]
           headed == [b EXCEPT !.primary = primary, !.valid = primary.valid]
<1>1. AddBlock(b, item) \in {b, invalid, paid, longer, headed}
  BY DEF AddBlock
<1>2. Solid(invalid) /\ Solid(paid)
  <2> HIDE DEF no, block
  <2> QED BY OtherField
<1>3. Solid(headed)
  <2> DEFINE x == [b EXCEPT !.primary = primary]
             v == primary.valid
  <2>1. headed = [x EXCEPT !.valid = v]
    OBVIOUS
  <2>2. Solid(x)
    BY OtherField
  <2> HIDE DEF x, v
  <2> QED BY <2>1, <2>2, OtherField
<1>4. Solid(longer)
  <2> DEFINE x == [b EXCEPT !.ext = e]
             y == [x EXCEPT !.used = u]
  <2>1. IsSeq(e)
    <3> HIDE DEF block
    <3> QED BY SeqAppend DEF Solid
  <2> HIDE DEF e, u, h
  <2>2. longer = [y EXCEPT !.has = h]
    OBVIOUS
  <2>3. Solid(x)
    BY <2>1, OtherExt
  <2> HIDE DEF x
  <2>4. Solid(y)
    BY <2>3, OtherField
  <2> HIDE DEF y
  <2> QED BY <2>2, <2>4, OtherField
<1> HIDE DEF invalid, paid, longer, headed
<1> QED BY <1>1, <1>2, <1>3, <1>4

(* Whatever is read, the blocks of the bundle are a sequence. *)
LEMMA ReadSolid ==
  ASSUME NEW s, IsSeq(s), NEW t
  PROVE  Solid(fromCbor(s, t))
<1> DEFINE yes == TRUE
           empty == EmptyBundle(t)
           base == [empty EXCEPT !.valid = yes]
<1>1. Solid(empty)
  BY SeqEmpty DEF Solid, EmptyBundle
<1>2. Solid(base)
  <2> HIDE DEF empty, yes
  <2> QED BY <1>1, OtherField
<1>3. ASSUME NEW k \in 1 .. Len(s) PROVE Solid(ReadAll(base, SubSeq(s, 2, k - 1)))
  <2> DEFINE items == SubSeq(s, 2, k - 1)
  <2> HIDE DEF base
  <2>1. IsSeq(items)
    <3>1. Len(s) \in Nat
      BY SeqBasics
    <3>2. 2 \in Int /\ k - 1 \in Int /\ 1 <= 2 /\ k - 1 <= Len(s)
      BY <3>1
    <3> QED BY <3>2, SeqPart
  <2> HIDE DEF items
  <2> DEFINE n == Len(items)
  <2>2. n \in Nat /\ DOMAIN items = 1 .. n
    BY <2>1, SeqBasics
  <2> HIDE DEF n
  <2>3. PICK r : /\ r[0] = base
                 /\ \A j \in 1 .. n : r[j] = AddBlock(r[j - 1], items[j])
                 /\ ReadAll(base, items) = r[n]
    BY <2>2, ReadTrace
  <2> DEFINE T == {j \in 0 .. n : Solid(r[j])}
  <2>4. 0 \in T
    BY <1>2, <2>2, <2>3
  <2>5. \A j \in 0 .. n - 1 : j \in T => j + 1 \in T
    <3> SUFFICES ASSUME NEW j \in 0 .. n - 1, Solid(r[j]) PROVE j + 1 \in T
      OBVIOUS
    <3>1. j + 1 \in 1 .. n /\ j + 1 \in 0 .. n /\ j + 1 - 1 = j
      BY <2>2
    <3>2. r[j + 1] = AddBlock(r[j], items[j + 1])
      BY <2>3, <3>1
    <3> QED BY <3>1, <3>2, TurnSolid
  <2>6. n \in T
    <3> HIDE DEF T
    <3>1. 0 .. n \subseteq T
      BY <2>2, <2>4, <2>5, SetInduction
    <3> QED BY <2>2, <3>1
  <2> QED BY <2>3, <2>6 DEF items
<1>4. CASE fromCbor(s, t) = empty
  BY <1>1, <1>4
<1>5. CASE fromCbor(s, t) # empty
  <2> DEFINE I == {i \in 1 .. Len(s) : s[i].is = "end"}
             k == SelectInSeq(s, LAMBDA i : i.is = "end")
  <2>1. k = IF I # {} THEN Min(I) ELSE 0
    BY DEF SelectInSeq
  <2>2. k # 0 /\ fromCbor(s, t) = ReadAll(base, SubSeq(s, 2, k - 1))
    BY <1>5 DEF fromCbor, ReadAll
  <2>3. Len(s) \in Nat /\ I \in SUBSET (1 .. Len(s))
    BY SeqBasics
  <2> HIDE DEF I, k, base
  <2>4. k \in 1 .. Len(s)
    <3>1. I # {} /\ k = Min(I)
      BY <2>1, <2>2
    <3> QED BY <2>3, <3>1, LeastOf
  <2> QED BY <1>3, <2>2, <2>4
<1> QED BY <1>4, <1>5

(* Nor do the steps of a node change that. *)
LEMMA PreviousNodeSolid ==
  ASSUME NEW b, Solid(b)
  PROVE  Solid(removePreviousNode(b))
<1> DEFINE e == b.ext
           I == {i \in 1 .. Len(e) : e[i].type = PreviousNode}
           p == SelectInSeq(e, LAMBDA c : c.type = PreviousNode)
           f == IF Has(b, PreviousNode) THEN RemoveFirstMatch(e, LAMBDA c : c.type = PreviousNode)
                ELSE e
           h == b.has \ {PreviousNode}
           x == [b EXCEPT !.ext = f]
<1>1. IsSeq(e) /\ Len(e) \in Nat
  BY SeqBasics DEF Solid
<1>2. p = IF I # {} THEN Min(I) ELSE 0
  BY DEF SelectInSeq
<1>3. f = e \/ (I # {} /\ f = RemoveAt(e, p))
  BY DEF RemoveFirstMatch
<1>4. I # {} => p \in 1 .. Len(e)
  <2> SUFFICES ASSUME I # {} PROVE p \in 1 .. Len(e)
    OBVIOUS
  <2>1. I \in SUBSET (1 .. Len(e)) /\ p = Min(I)
    BY <1>2
  <2> HIDE DEF I, e, p
  <2> QED BY <1>1, <2>1, LeastOf
<1>5. removePreviousNode(b) = [x EXCEPT !.has = h]
  <2>1. removePreviousNode(b) = [b EXCEPT !.ext = f, !.has = h]
    BY DEF removePreviousNode
  <2> HIDE DEF f, h
  <2> QED BY <2>1
<1> HIDE DEF I, p, f, h
<1>6. IsSeq(f)
  <2> HIDE DEF e
  <2>1. CASE f = e
    BY <1>1, <2>1
  <2>2. CASE I # {} /\ f = RemoveAt(e, p)
    BY <1>1, <1>4, <2>2, SeqWithout
  <2> QED BY <1>3, <2>1, <2>2
<1>7. Solid(x)
  BY <1>6, OtherExt
<1> HIDE DEF x
<1>8. Solid([x EXCEPT !.has = h])
  BY <1>7, OtherField
<1> QED BY <1>5, <1>8

LEMMA CountsSolid ==
  ASSUME NEW b, Solid(b), NEW d
  PROVE  Solid(increaseAge(b, d)) /\ Solid(increaseHopCount(b))
<1> DEFINE e == b.ext
           aged == [i \in DOMAIN e |->
                      IF e[i].type = BundleAge
                      THEN BundleAgeBlock(e[i].data[1] + d, e[i].crcType, e[i].number)
                      ELSE e[i]]
           hopped == [i \in DOMAIN e |->
                        IF e[i].type = HopCount
                        THEN HopCountBlock(e[i].data[1], e[i].data[2] + 1, e[i].crcType, e[i].number)
                        ELSE e[i]]
<1>1. Len(e) \in Nat /\ DOMAIN e = 1 .. Len(e)
  BY SeqBasics DEF Solid
<1>2. increaseAge(b, d) \in {b, [b EXCEPT !.ext = aged]}
  BY DEF increaseAge
<1>3. increaseHopCount(b) \in {b, [b EXCEPT !.ext = hopped]}
  BY DEF increaseHopCount
<1>4. aged = [i \in 1 .. Len(e) |-> aged[i]] /\ hopped = [i \in 1 .. Len(e) |-> hopped[i]]
  BY <1>1
<1> HIDE DEF e, aged, hopped
<1>5. IsSeq(aged) /\ IsSeq(hopped)
  BY <1>1, <1>4, SeqOfFunction
<1>6. Solid([b EXCEPT !.ext = aged]) /\ Solid([b EXCEPT !.ext = hopped])
  BY <1>5, OtherExt
<1> QED BY <1>2, <1>3, <1>6

LEMMA PreparedSolid ==
  ASSUME NEW b, Solid(b)
  PROVE  Solid(prepareForSend(b))
<1> DEFINE b0 == CopyOf(b)
           b1 == removePreviousNode(b0)
           d == now - b.receivedAt
           b2 == increaseAge(b1, d)
<1>1. Solid(b0)
  BY OtherField DEF CopyOf
<1>2. prepareForSend(b) = increaseHopCount(b2)
  BY DEF prepareForSend
<1> HIDE DEF b0
<1>3. Solid(b1)
  BY <1>1, PreviousNodeSolid
<1> HIDE DEF b1, d
<1>4. Solid(b2)
  BY <1>3, CountsSolid
<1> HIDE DEF b2
<1> QED BY <1>2, <1>4, CountsSolid

LEMMA RemovedSolid ==
  ASSUME NEW b, Solid(b), NEW number
  PROVE  Solid(removeBlock(b, number))
<1> DEFINE e == b.ext
           I == {i \in 1 .. Len(e) : e[i].number = number}
           p == SelectInSeq(e, LAMBDA c : c.number = number)
           f == RemoveAt(e, p)
           h == b.has \ {e[p].type}
           x == [b EXCEPT !.ext = f]
<1>1. IsSeq(e) /\ Len(e) \in Nat
  BY SeqBasics DEF Solid
<1>2. p = IF I # {} THEN Min(I) ELSE 0
  BY DEF SelectInSeq
<1>3. p = 0 \/ p \in 1 .. Len(e)
  <2> SUFFICES ASSUME I # {} PROVE p \in 1 .. Len(e)
    BY <1>2
  <2>1. I \in SUBSET (1 .. Len(e)) /\ p = Min(I)
    BY <1>2
  <2> HIDE DEF I, e, p
  <2> QED BY <1>1, <2>1, LeastOf
<1>4. removeBlock(b, number) = b
      \/ (p # 0 /\ removeBlock(b, number) = [b EXCEPT !.ext = f, !.has = h])
  BY DEF removeBlock
<1>5. [b EXCEPT !.ext = f, !.has = h] = [x EXCEPT !.has = h]
  <2> HIDE DEF f, h
  <2> QED OBVIOUS
<1>6. p # 0 => IsSeq(f)
  <2> HIDE DEF e, p
  <2> QED BY <1>1, <1>3, SeqWithout
<1> HIDE DEF p, f, h
<1>7. p # 0 => Solid(x)
  BY <1>6, OtherExt
<1> HIDE DEF x
<1>8. p # 0 => Solid([x EXCEPT !.has = h])
  BY <1>7, OtherField
<1> QED BY <1>4, <1>5, <1>8

LEMMA ProcessedSolid ==
  ASSUME NEW b, Solid(b), NEW ghost
  PROVE  Solid(Process(b, ghost).bundle)
<1> DEFINE n == Len(b.ext)
           items == [i \in DOMAIN b.ext |-> i]
           base == [bundle |-> b, fate |-> "travels"]
<1>1. n \in Nat /\ DOMAIN items = 1 .. n
  BY SeqBasics DEF Solid
<1>2. "bundle" \in DOMAIN base /\ base.bundle = b
  OBVIOUS
<1>3. Process(b, ghost) = TakeTurns(ghost, base, items)
  BY DEF Process, TakeTurns
<1> HIDE DEF n, items, base
<1>4. PICK r : /\ r[0] = base
               /\ \A k \in 1 .. n : r[k] = Turn(ghost, r[k - 1], items[k])
               /\ TakeTurns(ghost, base, items) = r[n]
  BY <1>1, ProcessTrace
<1> DEFINE T == {k \in 0 .. n : "bundle" \in DOMAIN r[k] /\ Solid(r[k].bundle)}
<1>5. 0 \in T
  BY <1>1, <1>2, <1>4
<1>6. ASSUME NEW s, "bundle" \in DOMAIN s, Solid(s.bundle), NEW i
      PROVE  "bundle" \in DOMAIN Turn(ghost, s, i) /\ Solid(Turn(ghost, s, i).bundle)
  <2> DEFINE t == Turn(ghost, s, i)
  <2>1. \/ t = s \/ t = [s EXCEPT !.fate = "deleted"]
        \/ \E number : t = [s EXCEPT !.bundle = removeBlock(@, number)]
    BY DEF Turn
  <2>2. \A number : Solid(removeBlock(s.bundle, number))
    BY <1>6, RemovedSolid
  <2> HIDE DEF t
  <2>3. "bundle" \in DOMAIN t /\ Solid(t.bundle)
    BY <1>6, <2>1, <2>2
  <2> QED BY <2>3 DEF t
<1>7. ASSUME NEW k \in 0 .. n - 1, k \in T PROVE k + 1 \in T
  <2>1. k + 1 \in 1 .. n /\ k + 1 - 1 = k
    BY <1>1
  <2>2. r[k + 1] = Turn(ghost, r[k], items[k + 1])
    BY <1>4, <2>1
  <2>3. "bundle" \in DOMAIN r[k] /\ Solid(r[k].bundle)
    BY <1>7
  <2>4. "bundle" \in DOMAIN r[k + 1] /\ Solid(r[k + 1].bundle)
    BY <1>6, <2>2, <2>3
  <2> QED BY <2>1, <2>4
<1>8. n \in T
  <2> HIDE DEF T
  <2>1. 0 .. n \subseteq T
    BY <1>1, <1>5, <1>7, SetInduction
  <2> QED BY <1>1, <2>1
<1> QED BY <1>3, <1>4, <1>8

-----------------------------------------------------------------------------
(* y may come right after x. *)
Follows(x, y) ==
  /\ y.is = "begin" => x = Break
  /\ y = Break => x = End

Stream(s) == IsSeq(s) /\ \A i \in 1 .. Len(s) - 1 : Follows(s[i], s[i + 1])

Outgoing(o) ==
  /\ Stream(o) /\ \A k \in 1 .. Len(o) : "is" \in DOMAIN o[k]
  /\ o # <<>> => o[Len(o)] = Break

(* What is on its way goes on where the buffer ends, unless that is full. *)
Joined(r, o) ==
  \/ r = <<>>
  \/ ~(Len(r) < UartBuffer)
  \/ IF o = <<>> THEN r[Len(r)] = Break ELSE Follows(r[Len(r)], o[1])

LEMMA FollowsIf ==
  ASSUME NEW x, NEW y, y.is \notin {"begin", "break"}
  PROVE  Follows(x, y)
<1>1. y # Break
  BY DEF Break
<1> QED BY <1>1 DEF Follows

LEMMA ItemIs ==
  ASSUME NEW n, NEW f
  PROVE  Item(n, f).is = "block" /\ "is" \in DOMAIN Item(n, f)
<1> DEFINE c == calculateCRC(f.crcType, f)
<1>1. Item(n, f) = [is |-> "block", len |-> n, fields |-> f, crc |-> c]
  BY DEF Item
<1> HIDE DEF c
<1> QED BY <1>1

LEMMA EncodingStreams ==
  ASSUME NEW b, Solid(b), NEW c
  PROVE  LET E == Encoding(toCbor(b), c)
         IN  /\ Outgoing(E) /\ E # <<>> /\ E[1].is = "begin"
             /\ \A k \in 1 .. Len(E) : E[k].is = "begin" => E[k].copy = c
<1> DEFINE p == b.primary
           y == b.payload
           e == b.ext
           n == Len(e)
           items == Items(p, y, e)
           E == Encoding(items, c)
           B(x) == x.is = "block" /\ "is" \in DOMAIN x
<1>1. toCbor(b) = items
  BY toCborItems
<1>2. IsSeq(e)
  BY DEF Solid
<1> HIDE DEF p, y, e
<1>3. n \in Nat /\ \A k \in 2 .. n + 3 : B(items[k])
  <2>1. /\ n \in Nat /\ items[2] = PrimaryToCbor(p)
        /\ \A i \in 1 .. n : items[i + 2] = BlockToCbor(e[i])
        /\ items[n + 3] = BlockToCbor(y)
    <3> HIDE DEF items
    <3> QED BY <1>2, ItemsAt DEF items
  <2> HIDE DEF items, n
  <2>2. B(items[2]) /\ B(items[n + 3])
    BY <2>1, ItemIs DEF PrimaryToCbor, BlockToCbor
  <2>3. ASSUME NEW i \in 1 .. n PROVE B(items[i + 2])
    <3> DEFINE x == e[i]
    <3>1. items[i + 2] = BlockToCbor(x)
      BY <2>1
    <3> HIDE DEF x
    <3> QED BY <3>1, ItemIs DEF BlockToCbor
  <2>4. ASSUME NEW k \in 2 .. n + 3 PROVE B(items[k])
    <3>1. k = 2 \/ k = n + 3 \/ (k - 2 \in 1 .. n /\ k - 2 + 2 = k)
      BY <2>1
    <3> HIDE DEF B
    <3>2. CASE k - 2 \in 1 .. n /\ k - 2 + 2 = k
      <4>1. B(items[k - 2 + 2])
        BY <2>3, <3>2
      <4> QED BY <3>2, <4>1
    <3> QED BY <2>2, <3>1, <3>2
  <2> QED BY <2>1, <2>4
<1>4. /\ IsSeq(E) /\ Len(E) = n + 5 /\ E[1] = [is |-> "begin", copy |-> c]
      /\ \A k \in 2 .. n + 3 : E[k] = items[k]
      /\ E[n + 4] = End /\ E[n + 5] = Break
  <2> HIDE DEF items, E, n
  <2> QED BY <1>2, EncodingAt DEF items, E, n
<1> HIDE DEF items, E, n
<1>5. E[1].is = "begin" /\ "is" \in DOMAIN E[1] /\ E[1].copy = c
  BY <1>4
<1>6. \A k \in 2 .. n + 3 : B(E[k])
  BY <1>3, <1>4
<1>7. End.is = "end" /\ "is" \in DOMAIN End /\ Break.is = "break" /\ "is" \in DOMAIN Break
  BY DEF End, Break
<1>8. Follows(End, Break)
  BY DEF Follows, End, Break
<1> DEFINE m == Len(E)
           Mid(k) == E[k].is \in {"block", "end"} /\ "is" \in DOMAIN E[k]
<1>9. /\ m \in Nat /\ m >= 2 /\ E[m] = Break /\ E[m - 1] = End
      /\ \A k \in 2 .. m - 1 : Mid(k)
  <2>1. m = n + 5 /\ m - 1 = n + 4 /\ m \in Nat /\ m >= 2
        /\ \A k \in 2 .. m - 1 : k \in 2 .. n + 3 \/ k = n + 4
    BY <1>3, <1>4
  <2>2. Mid(n + 4) /\ \A k \in 2 .. n + 3 : Mid(k)
    BY <1>4, <1>6, <1>7
  <2> HIDE DEF m, Mid
  <2> QED BY <1>4, <2>1, <2>2
<1>10. \A k \in 1 .. m : "is" \in DOMAIN E[k]
  <2>1. \A k \in 1 .. m : k = 1 \/ k \in 2 .. m - 1 \/ k = m
    BY <1>9
  <2> QED BY <1>5, <1>7, <1>9, <2>1
<1>11. \A k \in 1 .. m - 1 : Follows(E[k], E[k + 1])
  <2> SUFFICES ASSUME NEW k \in 1 .. m - 1 PROVE Follows(E[k], E[k + 1])
    OBVIOUS
  <2>1. k = m - 1 \/ (k < m - 1 /\ k + 1 \in 2 .. m - 1)
    BY <1>9
  <2>2. CASE k = m - 1
    <3>1. k + 1 = m
      BY <1>9, <2>2
    <3> QED BY <1>8, <1>9, <2>2, <3>1
  <2>3. CASE k < m - 1 /\ k + 1 \in 2 .. m - 1
    <3>1. E[k + 1].is \notin {"begin", "break"}
      BY <1>9, <2>3
    <3> QED BY <3>1, FollowsIf
  <2> QED BY <2>1, <2>2, <2>3
<1>12. E # <<>>
  BY <1>9
<1>13. Stream(E) /\ Outgoing(E)
  BY <1>4, <1>9, <1>10, <1>11 DEF Stream, Outgoing
<1>14. \A k \in 1 .. m : E[k].is = "begin" => E[k].copy = c
  <2> TAKE k \in 1 .. m
  <2>1. k = 1 \/ k \in 2 .. m - 1 \/ k = m
    BY <1>9
  <2>2. CASE k = 1
    BY <1>5, <2>2
  <2>3. CASE k \in 2 .. m - 1
    BY <1>9, <2>3
  <2>4. CASE k = m
    BY <1>7, <1>9, <2>4
  <2> QED BY <2>1, <2>2, <2>3, <2>4
<1> QED BY <1>1, <1>5, <1>12, <1>13, <1>14 DEF E

LEMMA TailStreams ==
  ASSUME NEW o, Outgoing(o), o # <<>>
  PROVE  /\ Outgoing(Tail(o))
         /\ IF Tail(o) = <<>> THEN o[1] = Break ELSE Follows(o[1], Tail(o)[1])
<1> DEFINE t == Tail(o)
           n == Len(o)
<1>1. /\ IsSeq(o) /\ n \in Nat /\ n >= 1 /\ o[n] = Break
      /\ \A k \in 1 .. n - 1 : Follows(o[k], o[k + 1])
      /\ \A k \in 1 .. n : "is" \in DOMAIN o[k]
  BY SeqTail, SeqBasics DEF Outgoing, Stream
<1>2. IsSeq(t) /\ Len(t) = n - 1 /\ \A k \in 1 .. n - 1 : t[k] = o[k + 1]
  BY <1>1, SeqTail
<1> HIDE DEF t, n
<1>3. t # <<>> => n > 1
  <2>1. Len(t) = 0 => t = <<>>
    BY <1>2, SeqEmpty, SeqEquals
  <2> QED BY <1>1, <1>2, <2>1
<1>4. \A k \in 1 .. Len(t) - 1 : Follows(t[k], t[k + 1])
  <2> TAKE k \in 1 .. Len(t) - 1
  <2>1. k \in 1 .. n - 1 /\ k + 1 \in 1 .. n - 1
    BY <1>1, <1>2
  <2> QED BY <1>1, <1>2, <2>1
<1>5. \A k \in 1 .. Len(t) : "is" \in DOMAIN t[k]
  <2> TAKE k \in 1 .. Len(t)
  <2>1. k \in 1 .. n - 1 /\ k + 1 \in 1 .. n
    BY <1>1, <1>2
  <2> QED BY <1>1, <1>2, <2>1
<1>6. t # <<>> => t[Len(t)] = Break
  <2> HAVE t # <<>>
  <2>1. n - 1 \in 1 .. n - 1 /\ n - 1 + 1 = n
    BY <1>1, <1>3
  <2> QED BY <1>1, <1>2, <2>1
<1>7. t # <<>> => Follows(o[1], t[1])
  <2> HAVE t # <<>>
  <2>1. 1 \in 1 .. n - 1
    BY <1>1, <1>3
  <2>2. Follows(o[1], o[1 + 1]) /\ t[1] = o[1 + 1]
    BY <1>1, <1>2, <2>1
  <2> QED BY <2>2
<1>8. t = <<>> => o[1] = Break
  <2> HAVE t = <<>>
  <2>1. n = 1
    BY <1>1, <1>2, SeqEmpty
  <2>2. o[n] = Break
    BY <1>1
  <2> HIDE DEF t
  <2> QED BY <2>1, <2>2
<1>9. Outgoing(t)
  BY <1>2, <1>4, <1>5, <1>6 DEF Outgoing, Stream
<1> QED BY <1>7, <1>8, <1>9 DEF t

LEMMA ArrivalStreams ==
  ASSUME NEW r, Stream(r), NEW o, Outgoing(o), o # <<>>, Joined(r, o)
  PROVE  LET s == IF Len(r) < UartBuffer THEN Append(r, Head(o)) ELSE r
         IN  Stream(s) /\ Outgoing(Tail(o)) /\ Joined(s, Tail(o))
<1> DEFINE x == Head(o)
           s == Append(r, x)
           t == Tail(o)
           n == Len(r)
<1>1. Outgoing(t) /\ x = o[1]
      /\ IF t = <<>> THEN x = Break ELSE Follows(x, t[1])
  BY TailStreams, SeqTail DEF Outgoing, Stream
<1> HIDE DEF x, t
<1>2. CASE ~(Len(r) < UartBuffer)
  BY <1>1, <1>2 DEF Joined, t
<1>3. CASE Len(r) < UartBuffer
  <2>1. IsSeq(r) /\ n \in Nat /\ \A k \in 1 .. n - 1 : Follows(r[k], r[k + 1])
    BY SeqBasics DEF Stream
  <2>2. IsSeq(s) /\ Len(s) = n + 1 /\ (\A k \in 1 .. n : s[k] = r[k]) /\ s[n + 1] = x
    BY <2>1, SeqAppend
  <2> HIDE DEF s
  <2>3. n = 0 \/ Follows(r[n], x)
    <3>1. r = <<>> => n = 0
      BY SeqEmpty
    <3> QED BY <1>1, <1>3, <3>1 DEF Joined
  <2> HIDE DEF n
  <2>4. \A k \in 1 .. Len(s) - 1 : Follows(s[k], s[k + 1])
    <3> TAKE k \in 1 .. Len(s) - 1
    <3>1. k \in 1 .. n /\ (k = n \/ (k \in 1 .. n - 1 /\ k + 1 \in 1 .. n))
      BY <2>1, <2>2
    <3>2. CASE k = n
      <4>1. n # 0
        BY <3>1, <3>2
      <4> QED BY <2>2, <2>3, <3>1, <3>2, <4>1
    <3>3. CASE k \in 1 .. n - 1 /\ k + 1 \in 1 .. n
      BY <2>1, <2>2, <3>1, <3>3
    <3> QED BY <3>1, <3>2, <3>3
  <2>5. Stream(s)
    BY <2>2, <2>4 DEF Stream
  <2>6. Joined(s, t)
    BY <1>1, <2>2 DEF Joined
  <2> QED BY <1>1, <1>3, <2>5, <2>6 DEF s, x, t
<1> QED BY <1>2, <1>3

LEMMA HitStreams ==
  ASSUME NEW r, NEW o, Outgoing(o), o # <<>>, Joined(r, o), Head(o).is = "block", NEW f
  PROVE  Outgoing(Hit(o, f)) /\ Joined(r, Hit(o, f))
<1> DEFINE x == Head(o)
           y == [x EXCEPT !.fields = f]
           t == Tail(o)
           n == Len(o)
           h == Hit(o, f)
<1>1. /\ IsSeq(o) /\ n \in Nat /\ n >= 1 /\ x = o[1] /\ o[n] = Break
      /\ \A k \in 1 .. n - 1 : Follows(o[k], o[k + 1])
      /\ \A k \in 1 .. n : "is" \in DOMAIN o[k]
  BY SeqTail, SeqBasics DEF Outgoing, Stream
<1>2. IsSeq(t) /\ Len(t) = n - 1 /\ \A k \in 1 .. n - 1 : t[k] = o[k + 1]
  BY <1>1, SeqTail
<1>3. x.is = "block" /\ "is" \in DOMAIN y /\ y.is = "block"
  <2>1. "is" \in DOMAIN x
    <3>1. 1 \in 1 .. n
      BY <1>1
    <3>2. "is" \in DOMAIN o[1]
      BY <1>1, <3>1
    <3> QED BY <1>1, <3>2
  <2> HIDE DEF x
  <2> QED BY <2>1 DEF x
<1>4. Break.is = "break"
  BY DEF Break
<1> HIDE DEF t, n, x
<1>5. h = <<y>> \o t
  BY DEF Hit, t, x
<1> HIDE DEF y, h
<1>6. IsSeq(h) /\ Len(h) = n /\ h[1] = y /\ \A k \in 2 .. n : h[k] = o[k]
  <2>1. IsSeq(<<y>>) /\ Len(<<y>>) = 1 /\ <<y>>[1] = y
    BY DEF IsSeq
  <2> DEFINE a == <<y>>
  <2> HIDE DEF a
  <2>2. /\ IsSeq(a \o t) /\ Len(a \o t) = Len(a) + Len(t)
        /\ \A i \in 1 .. Len(a) : (a \o t)[i] = a[i]
        /\ \A i \in 1 .. Len(t) : (a \o t)[Len(a) + i] = t[i]
    BY <1>2, <2>1, SeqConcat DEF a
  <2>3. Len(a) = 1 /\ a[1] = y /\ h = a \o t
    BY <1>5, <2>1 DEF a
  <2>4. \A k \in 2 .. n : h[k] = o[k]
    <3> TAKE k \in 2 .. n
    <3>1. k - 1 \in 1 .. n - 1 /\ 1 + (k - 1) = k /\ (k - 1) + 1 = k
      BY <1>1
    <3>2. h[1 + (k - 1)] = t[k - 1] /\ t[k - 1] = o[(k - 1) + 1]
      BY <1>2, <2>2, <2>3, <3>1
    <3> QED BY <3>1, <3>2
  <2>5. Len(h) = n
    BY <1>1, <1>2, <2>2, <2>3
  <2>6. h[1] = y
    BY <2>2, <2>3
  <2> QED BY <2>2, <2>3, <2>4, <2>5, <2>6
<1>7. n > 1
  <2>1. n # 1
    BY <1>1, <1>3, <1>4
  <2> QED BY <1>1, <2>1
<1>8. \A z : Follows(z, x) => Follows(z, y)
  BY <1>1, <1>3, <1>4 DEF Follows
<1>9. \A z : Follows(x, z) => Follows(y, z)
  <2>1. x # End
    BY <1>3 DEF End
  <2>2. x # Break
    BY <1>3, <1>4
  <2> QED BY <2>1, <2>2 DEF Follows
<1>10. \A k \in 1 .. n - 1 : Follows(h[k], h[k + 1])
  <2> TAKE k \in 1 .. n - 1
  <2>1. k + 1 \in 2 .. n /\ (k = 1 \/ k \in 2 .. n)
    BY <1>1
  <2>2. CASE k = 1
    <3>1. h[k + 1] = o[k + 1] /\ h[k] = y /\ o[k] = x
      BY <1>1, <1>6, <2>1, <2>2
    <3> QED BY <1>1, <1>9, <3>1
  <2>3. CASE k \in 2 .. n
    BY <1>1, <1>6, <2>1, <2>3
  <2> QED BY <2>1, <2>2, <2>3
<1>11. \A k \in 1 .. n : "is" \in DOMAIN h[k]
  <2>1. \A k \in 1 .. n : k = 1 \/ k \in 2 .. n
    BY <1>1
  <2> QED BY <1>1, <1>3, <1>6, <2>1
<1>12. h[n] = Break /\ h # <<>>
  <2>1. n \in 2 .. n
    BY <1>1, <1>7
  <2> QED BY <1>1, <1>6, <2>1, SeqEmpty
<1>13. Outgoing(h)
  BY <1>6, <1>10, <1>11, <1>12 DEF Outgoing, Stream
<1>14. Joined(r, h)
  BY <1>1, <1>6, <1>8, <1>12 DEF Joined
<1> QED BY <1>13, <1>14 DEF h

(* At the end of a whole copy a poll decodes what the copy decodes to. *)
LEMMA WholeFound ==
  ASSUME NEW r, Stream(r), HoldsWhole(r)
  PROVE  DOMAIN getNewBundles(r) # {}
<1>1. IsSeq(r) /\ Len(r) \in Nat /\ DOMAIN r = 1 .. Len(r)
  BY SeqBasics DEF Stream
<1>2. \A k \in 1 .. Len(r) - 1 : Follows(r[k], r[k + 1])
  BY DEF Stream
<1>3. PICK i \in 1 .. Len(r), j \in 1 .. Len(r) :
        /\ i < j /\ \A k \in i .. j - 1 : k \notin Ends(r)
        /\ r[i].is = "begin" /\ r[j] = End
        /\ fromCbor(SubSeq(r, i, j), now).valid
  BY <1>1 DEF HoldsWhole
<1>4. i \in 1 .. Len(r) /\ j \in 1 .. Len(r) /\ i < j /\ r[i].is = "begin"
      /\ \A k \in i .. j - 1 : k \notin Ends(r)
  BY <1>3
<1>5. fromCbor(SubSeq(r, i, j), now).valid
  BY <1>3
<1>6. Break.is = "break" /\ End.is = "end"
  BY DEF Break, End
<1>7. j \in Ends(r) /\ i \in Begins(r)
  BY <1>1, <1>3, <1>6 DEF Ends, Begins
<1>8. Start(r, j) = i
  <2> DEFINE before == {x \in Ends(r) : x < j}
  <2>1. Start(r, j) = IF before = {} THEN FirstBegin(r)
                      ELSE IF r[Max(before)].is = "block" THEN Max(before)
                      ELSE Max(before) + 2
    BY DEF Start
  <2>2. before \in SUBSET (1 .. Len(r)) /\ \A x \in before : r[x].is \in {"end", "block"}
    BY <1>1 DEF Ends
  <2>3. \A x \in before : x \in 1 .. i - 1
    BY <1>1, <1>4, <2>2
  <2>4. i > 1 => i - 1 \in 1 .. Len(r) - 1 /\ r[i - 1] = Break
    <3> HAVE i > 1
    <3>1. i - 1 \in 1 .. Len(r) - 1 /\ i - 1 + 1 = i
      BY <1>1, <1>4
    <3>2. Follows(r[i - 1], r[i])
      BY <1>2, <3>1
    <3> QED BY <1>4, <3>1, <3>2 DEF Follows
  <2>5. i > 2 => i - 2 \in 1 .. Len(r) - 1 /\ r[i - 2] = End
    <3> HAVE i > 2
    <3>1. i - 2 \in 1 .. Len(r) - 1 /\ i - 2 + 1 = i - 1
      BY <1>1, <1>4
    <3>2. Follows(r[i - 2], r[i - 1])
      BY <1>2, <3>1
    <3> QED BY <1>4, <2>4, <3>1, <3>2 DEF Follows
  <2>6. CASE i > 2
    <3>1. i - 2 \in before
      <4>1. i - 2 \in Ends(r)
        BY <1>1, <1>4, <1>6, <2>5, <2>6 DEF Ends
      <4> QED BY <1>4, <4>1
    <3> HIDE DEF before
    <3>2. before # {}
      BY <3>1
    <3>3. Max(before) \in before /\ Max(before) >= i - 2
      BY <1>1, <2>2, <3>1, <3>2, GreatestOf
    <3>4. Max(before) \in 1 .. i - 1 /\ Max(before) # i - 1
      <4>1. Max(before) \in 1 .. i - 1 /\ r[Max(before)].is \in {"end", "block"}
        BY <2>2, <2>3, <3>3
      <4>2. r[i - 1].is \notin {"end", "block"}
        BY <1>4, <1>6, <2>4, <2>6
      <4> QED BY <4>1, <4>2
    <3>5. Max(before) = i - 2
      BY <1>4, <3>3, <3>4
    <3>6. r[Max(before)].is = "end"
      BY <1>6, <2>5, <2>6, <3>5
    <3>7. Start(r, j) = Max(before) + 2
      BY <2>1, <3>2, <3>6
    <3> QED BY <1>4, <3>5, <3>7
  <2>7. CASE ~(i > 2)
    <3>1. i = 1 \/ (i = 2 /\ r[1] = Break)
      BY <1>4, <2>4, <2>7
    <3>2. \A x \in 1 .. i - 1 : x = 1 /\ r[x] = Break
      BY <3>1
    <3>3. before = {}
      BY <1>6, <2>2, <2>3, <3>2
    <3>4. \A x \in 1 .. i - 1 : x \notin Begins(r)
      BY <1>6, <3>2 DEF Begins
    <3>5. FirstBegin(r) = i
      BY <1>1, <1>7, <3>4, FirstBeginAt
    <3> QED BY <2>1, <3>3, <3>5
  <2> QED BY <2>6, <2>7
<1>9. Piece(r, j) = SubSeq(r, i, j)
  <2>1. ~(i > j + 1)
    BY <1>4
  <2> QED BY <1>8, <2>1 DEF Piece
<1>10. Decoded(r, j).valid
  BY <1>5, <1>9 DEF Decoded
<1>11. j \in DOMAIN getNewBundles(r)
  BY <1>7, <1>10 DEF getNewBundles
<1> QED BY <1>11

-----------------------------------------------------------------------------
(* The invariant of the line's framing.                                    *)

HoldsSolid(i) == "bundle" \in DOMAIN i /\ Solid(i.bundle)

FramesKept ==
  /\ Stream(rx) /\ Stream(data) /\ Outgoing(out) /\ Joined(rx, out)
  /\ info # None => HoldsSolid(info)
  /\ record # None => IsSeq(record[7])

LEMMA InfoSolid ==
  ASSUME NEW b, Solid(b)
  PROVE  HoldsSolid(BundleInfo(b))
<1> DEFINE x == CopyOf(b)
<1>1. Solid(x)
  BY OtherField DEF CopyOf
<1> HIDE DEF x
<1>2. BundleInfo(b) = [bundle |-> x, locallyDelivered |-> FALSE, forwardedTo |-> <<>>,
                       numOfBroadcasts |-> 0, lastBroadcastTime |-> 0]
  BY DEF BundleInfo, x
<1> QED BY <1>1, <1>2 DEF HoldsSolid

LEMMA NothingStreams ==
  /\ Stream(<<>>) /\ Outgoing(<<>>) /\ \A o : Joined(<<>>, o)
<1>1. IsSeq(<<>>) /\ Len(<<>>) = 0
  BY SeqEmpty
<1> DEFINE z == <<>>
<1>2. Stream(z)
  <2>1. \A i \in 1 .. Len(z) - 1 : Follows(z[i], z[i + 1])
    BY <1>1
  <2> QED BY <1>1, <2>1 DEF Stream
<1>3. Outgoing(z)
  <2>1. \A k \in 1 .. Len(z) : "is" \in DOMAIN z[k]
    BY <1>1
  <2> QED BY <1>2, <2>1 DEF Outgoing
<1> QED BY <1>2, <1>3 DEF Joined

LEMMA FramesBegin ==
  ASSUME \A o \in Origins : Solid(o), Init
  PROVE  FramesKept
<1>1. /\ Solid(origin) /\ out = <<>> /\ rx = <<>> /\ data = <<>>
      /\ info = BundleInfo(origin) /\ record = None
  BY DEF Init, LineInit
<1>2. HoldsSolid(info)
  BY <1>1, InfoSolid
<1> QED BY <1>1, <1>2, NothingStreams DEF FramesKept

LEMMA FramesOnSend ==
  ASSUME FramesKept, Send
  PROVE  FramesKept'
<1> DEFINE b == info.bundle
           x == prepareForSend(b)
           c == sends + 1
           E == Encoding(toCbor(x), c)
<1>1. info # None /\ out = <<>> /\ out' = E /\ UNCHANGED <<rx, data, record>>
  BY DEF Send, Write, Encoding
<1>2. HoldsSolid(info)
  BY <1>1 DEF FramesKept
<1>3. HoldsSolid(info')
  BY <1>2, SendKeepsBundle DEF HoldsSolid
<1>4. Outgoing(E) /\ E # <<>> /\ E[1].is = "begin"
  <2>1. Solid(x)
    BY <1>2, PreparedSolid DEF HoldsSolid
  <2> HIDE DEF x
  <2> QED BY <2>1, EncodingStreams
<1> HIDE DEF E
<1>5. Joined(rx, E)
  <2>1. Joined(rx, <<>>)
    BY <1>1 DEF FramesKept
  <2>2. Follows(Break, E[1])
    <3>1. Break.is = "break" /\ E[1] # Break
      BY <1>4 DEF Break
    <3> QED BY <1>4, <3>1 DEF Follows
  <2> QED BY <1>4, <2>1, <2>2 DEF Joined
<1> QED BY <1>1, <1>3, <1>4, <1>5 DEF FramesKept

LEMMA FramesOnArrive ==
  ASSUME FramesKept, Arrive
  PROVE  FramesKept'
<1>1. /\ out # <<>> /\ out' = Tail(out) /\ UNCHANGED <<data, info, record>>
      /\ rx' = IF Len(rx) < UartBuffer THEN Append(rx, Head(out)) ELSE rx
  BY DEF Arrive, Transmit
<1>2. Stream(rx) /\ Outgoing(out) /\ Joined(rx, out)
  BY DEF FramesKept
<1>3. Stream(rx') /\ Outgoing(out') /\ Joined(rx', out')
  BY <1>1, <1>2, ArrivalStreams
<1> QED BY <1>1, <1>3 DEF FramesKept

LEMMA FramesOnNoise ==
  ASSUME FramesKept, Noise
  PROVE  FramesKept'
<1> DEFINE f == Damaged(Head(out).fields)
<1>1. /\ out # <<>> /\ Head(out).is = "block" /\ out' = Hit(out, f)
      /\ UNCHANGED <<rx, data, info, record>>
  BY DEF Noise, Hit
<1> HIDE DEF f
<1>2. Stream(rx) /\ Outgoing(out) /\ Joined(rx, out)
  BY DEF FramesKept
<1>3. Outgoing(Hit(out, f)) /\ Joined(rx, Hit(out, f))
  BY <1>1, <1>2, HitStreams
<1> QED BY <1>1, <1>2, <1>3 DEF FramesKept

LEMMA FramesOnStore ==
  ASSUME FramesKept, Store
  PROVE  FramesKept'
<1>1. /\ info # None /\ UNCHANGED <<rx, data, out>>
      /\ \/ record' = SerializeInfo(info) /\ info' = None
         \/ UNCHANGED <<record, info>>
  BY DEF Store, lineVars
<1>2. CASE UNCHANGED <<record, info>>
  BY <1>1, <1>2 DEF FramesKept
<1>3. CASE record' = SerializeInfo(info) /\ info' = None
  <2> DEFINE b == info.bundle
  <2>1. Solid(b)
    BY <1>1 DEF FramesKept, HoldsSolid
  <2>2. record'[7] = toCbor(b)
    BY <1>3 DEF SerializeInfo, EncodeBundle
  <2> HIDE DEF b
  <2>3. IsSeq(Items(b.primary, b.payload, b.ext))
    <3>1. IsSeq(b.ext)
      BY <2>1 DEF Solid
    <3> QED BY <3>1, ItemsAt
  <2>4. IsSeq(record'[7])
    BY <2>2, <2>3, toCborItems
  <2> QED BY <1>1, <1>3, <2>4 DEF FramesKept
<1> QED BY <1>1, <1>2, <1>3

LEMMA FramesOnLoad ==
  ASSUME FramesKept, Load
  PROVE  FramesKept'
<1>1. /\ record # None /\ info' = DeserializeInfo(record, now) /\ record' = None
      /\ UNCHANGED <<rx, data, out>>
  BY DEF Load, lineVars
<1> DEFINE z == fromCbor(record[7], now)
           y == [z EXCEPT !.retention = record[1].value]
           x == [y EXCEPT !.receivedAt = record[6].value]
<1>2. Solid(z)
  BY <1>1, ReadSolid DEF FramesKept
<1>3. Solid(x)
  <2> HIDE DEF z
  <2>1. Solid(y)
    BY <1>2, OtherField
  <2> HIDE DEF y
  <2> QED BY <2>1, OtherField
<1>4. info' = [bundle |-> x, locallyDelivered |-> record[2].value,
               forwardedTo |-> DecodeNodes(record[3].value),
               numOfBroadcasts |-> record[4].value, lastBroadcastTime |-> record[5].value]
  BY <1>1 DEF DeserializeInfo, DecodeBundle
<1> HIDE DEF x
<1>5. HoldsSolid(info')
  BY <1>3, <1>4 DEF HoldsSolid
<1> QED BY <1>1, <1>5 DEF FramesKept

LEMMA FramesOnPoll ==
  ASSUME FramesKept, Poll
  PROVE  FramesKept'
<1> DEFINE D == DOMAIN Found
           first == Min(D)
           s == Piece(data, first)
           c == s[1].copy
           taken == FirstFound
<1>1. D # {} /\ rx' = <<>> /\ data' = <<>>
  BY DEF Poll, Flush
<1>2. PICK ghost : Take(Process(taken, ghost), c)
  BY DEF Poll
<1>3. IsSeq(data) /\ Len(data) \in Nat /\ DOMAIN data = 1 .. Len(data)
  BY SeqBasics DEF FramesKept, Stream
<1>4. D \in SUBSET (1 .. Len(data))
  BY <1>3 DEF Found, getNewBundles, Ends
<1>5. first \in D
  <2> HIDE DEF D
  <2> QED BY <1>1, <1>3, <1>4, LeastOf
<1>6. taken = fromCbor(s, now)
  <2>1. taken = Found[first]
    BY DEF FirstFound
  <2> HIDE DEF first, taken
  <2> QED BY <1>5, <2>1 DEF Found, getNewBundles, Decoded
<1>7. first \in 1 .. Len(data)
  BY <1>4, <1>5
<1> HIDE DEF first, D, taken, c
<1>8. IsSeq(s)
  <2> DEFINE i == Start(data, first)
             l == IF i > first + 1 THEN Len(data) ELSE first
  <2>1. i \in Int /\ i >= 1
    BY <1>3, <1>7, StartAt
  <2>2. s = SubSeq(data, i, l)
    BY DEF Piece
  <2> HIDE DEF i, s
  <2>3. l \in Int /\ l <= Len(data)
    BY <1>3, <1>7, <2>1
  <2> HIDE DEF l
  <2> QED BY <1>3, <2>1, <2>2, <2>3, SeqPart
<1> HIDE DEF s
<1>9. Solid(taken)
  BY <1>6, <1>8, ReadSolid
<1> DEFINE done == Process(taken, ghost)
<1>10. Solid(done.bundle)
  BY <1>9, ProcessedSolid
<1> HIDE DEF done
<1>11. CASE MustDelete(done)
  <2>1. UNCHANGED <<out, info, record>>
    BY <1>2, <1>11 DEF Take, done
  <2> QED BY <1>1, <2>1, NothingStreams DEF FramesKept
<1>12. CASE ~MustDelete(done)
  <2>1. info' = BundleInfo(done.bundle) /\ record' = None /\ out' = <<>>
    BY <1>2, <1>12 DEF Take, done
  <2>2. HoldsSolid(info')
    <3> DEFINE b == done.bundle
    <3>1. Solid(b) /\ info' = BundleInfo(b)
      BY <1>10, <2>1
    <3> HIDE DEF b
    <3> QED BY <3>1, InfoSolid
  <2> QED BY <1>1, <2>1, <2>2, NothingStreams DEF FramesKept
<1> QED BY <1>11, <1>12

LEMMA FramesGoOn ==
  ASSUME FramesKept, [Next]_vars
  PROVE  FramesKept'
<1>1. CASE Tick \/ Abort \/ SendRefused \/ UNCHANGED vars
  <2>1. UNCHANGED <<rx, data, out, info, record>>
    BY <1>1 DEF Tick, Abort, SendRefused, Refuse, vars, lineVars
  <2> QED BY <2>1 DEF FramesKept
<1>2. CASE Send
  BY <1>2, FramesOnSend
<1>3. CASE Store
  BY <1>3, FramesOnStore
<1>4. CASE Load
  BY <1>4, FramesOnLoad
<1>5. CASE Arrive
  BY <1>5, FramesOnArrive
<1>6. CASE Noise
  BY <1>6, FramesOnNoise
<1>7. CASE PollRead
  <2>1. data' = rx /\ rx' = <<>> /\ UNCHANGED <<out, info, record>>
    BY <1>7 DEF PollRead, Read
  <2> QED BY <2>1, NothingStreams DEF FramesKept
<1>8. CASE PollNothing
  <2>1. rx' = <<>> /\ data' = <<>> /\ UNCHANGED <<out, info, record>>
    BY <1>8 DEF PollNothing, Flush
  <2> QED BY <2>1, NothingStreams DEF FramesKept
<1>9. CASE Poll
  BY <1>9, FramesOnPoll
<1> QED BY <1>1, <1>2, <1>3, <1>4, <1>5, <1>6, <1>7, <1>8, <1>9 DEF Next

(* A poll takes nothing only if it finds nothing. *)
LEMMA PollTakes ==
  ASSUME FramesKept, [Next]_vars
  PROVE  poll = "read" /\ poll' = "idle" /\ HoldsWhole(data) =>
           holder' = holder + 1 \/ fate' = "deleted"
<1> SUFFICES ASSUME poll = "read", poll' = "idle", HoldsWhole(data)
             PROVE  holder' = holder + 1 \/ fate' = "deleted"
  OBVIOUS
<1>1. DOMAIN Found # {}
  BY WholeFound DEF FramesKept, Found
<1>2. ~PollNothing
  BY <1>1 DEF PollNothing
<1>3. ~PollRead
  BY DEF PollRead, Read
<1>4. ~(Tick \/ Abort \/ Send \/ SendRefused \/ Store \/ Load \/ Arrive \/ Noise
         \/ UNCHANGED vars)
  BY DEF Tick, Abort, Send, Write, SendRefused, Refuse, Store, Load, Arrive, Transmit, Noise,
         vars, lineVars
<1>5. Poll
  BY <1>2, <1>3, <1>4 DEF Next
<1>6. PICK b, c : Take(b, c)
  BY <1>5 DEF Poll
<1> QED BY <1>6 DEF Take

(* Whatever the bundles are and whatever the noise: a poll that has read a    *)
(* whole copy, with no 0xff in a block of it, takes it.                      *)
THEOREM PollsTakeTheWhole ==
  ASSUME \A o \in Origins : Solid(o)
  PROVE  Spec => PollTakesWhole
<1>1. Init => FramesKept
  BY FramesBegin
<1>2. FramesKept /\ [Next]_vars => FramesKept'
  BY FramesGoOn
<1>3. FramesKept /\ [Next]_vars =>
        [poll = "read" /\ poll' = "idle" /\ HoldsWhole(data) =>
           holder' = holder + 1 \/ fate' = "deleted"]_vars
  BY PollTakes
<1> QED BY <1>1, <1>2, <1>3, PTL DEF Spec, PollTakesWhole

-----------------------------------------------------------------------------
(* Types.                                                                  *)

(* Each begin has the number of a copy that was sent. *)
Numbered(s, n) ==
  \A i \in 1 .. Len(s) : s[i].is = "begin" => s[i].copy \in 1 .. n

(* No time at nodes is longer than the journey, and nothing is on the line,  *)
(* or read from it, behind the last node.                                    *)
Ranges ==
  /\ now \in 0 .. MaxTime /\ holder \in 1 .. NumNodes /\ sends \in 0 .. MaxSends
  /\ fate \in {"travels", "deleted", "aborted"}
  /\ info = None <=> record # None
  /\ Len(rx) <= UartBuffer /\ Len(data) <= UartBuffer /\ poll \in {"idle", "read"}
  /\ usedBytesInCycle \in 0 .. UartBuffer
  /\ since \in 0 .. now /\ stay \in 0 .. since
  /\ IsSeq(copies) /\ Len(copies) = sends /\ \A c \in 1 .. sends : copies[c] \in 0 .. now
  /\ Numbered(rx, sends) /\ Numbered(data, sends) /\ Numbered(out, sends)
  /\ rx # <<>> \/ data # <<>> \/ out # <<>> => holder < NumNodes

NatsAssumption == /\ NumNodes \in Nat \ {0} /\ MaxTime \in Nat /\ MaxSends \in Nat
                  /\ UartBuffer \in Nat

LEMMA NothingNumbered == \A n : Numbered(<<>>, n)
<1>1. Len(<<>>) = 0
  BY SeqEmpty
<1> DEFINE z == <<>>
<1>2. \A i \in 1 .. Len(z) : FALSE
  BY <1>1
<1> QED BY <1>2 DEF Numbered

LEMMA RangesBegin ==
  ASSUME NatsAssumption, NoneIsNothing, Init
  PROVE  Ranges
<1>1. /\ now = 0 /\ holder = 1 /\ sends = 0 /\ fate = "travels" /\ info = BundleInfo(origin)
      /\ record = None /\ rx = <<>> /\ out = <<>> /\ poll = "idle" /\ data = <<>>
      /\ usedBytesInCycle = 0 /\ since = 0 /\ stay = 0 /\ copies = <<>>
  BY DEF Init, LineInit
<1>2. info # None
  <2>1. "bundle" \in DOMAIN info
    BY <1>1, TypesOfInfo
  <2> QED BY <2>1 DEF NoneIsNothing
<1>3. Len(<<>>) = 0 /\ IsSeq(<<>>)
  BY SeqEmpty
<1> QED BY <1>1, <1>2, <1>3, NothingNumbered DEF Ranges, NatsAssumption

(* The length of what is written is a number. *)
LEMMA TaggedAre ==
  ASSUME NEW b, Solid(b), NEW c
  PROVE  IsSeq(Tagged(toCbor(b), c))
<1> DEFINE p == b.primary
           y == b.payload
           e == b.ext
           n == Len(e)
           items == Items(p, y, e)
           start == [is |-> "begin", copy |-> c]
           g == Tagged(items, c)
<1>1. toCbor(b) = items
  BY toCborItems
<1>2. IsSeq(e)
  BY DEF Solid
<1> HIDE DEF p, y, e
<1>3. n \in Nat /\ IsSeq(items) /\ Len(items) = n + 4
  <2> HIDE DEF items, n
  <2> QED BY <1>2, ItemsAt DEF items, n
<1> HIDE DEF items, n
<1>4. g = [items EXCEPT ![1] = start]
  BY DEF Tagged
<1> HIDE DEF start, g
<1>5. 1 \in 1 .. Len(items)
  BY <1>3
<1>6. LET x == [items EXCEPT ![1] = start]
      IN  IsSeq(x) /\ Len(x) = Len(items)
  BY <1>3, <1>5, SeqExcept
<1>7. IsSeq(g)
  BY <1>4, <1>6
<1> QED BY <1>1, <1>7 DEF g

LEMMA RangesOnSend ==
  ASSUME NatsAssumption, NoneIsNothing, FramesKept, Ranges, Send
  PROVE  Ranges'
<1> DEFINE x == prepareForSend(info.bundle)
           c == sends + 1
           items == Tagged(toCbor(x), c)
           E == Encoding(toCbor(x), c)
           stamp == stay + now - since
<1>1. /\ info # None /\ holder < NumNodes /\ sends < MaxSends /\ Accepts(items)
      /\ usedBytesInCycle' = UsedWith(items) /\ rx' = rx /\ out' = E /\ sends' = c
      /\ copies' = Append(copies, stamp)
      /\ UNCHANGED <<now, poll, data, holder, record, fate, since, stay>>
  BY DEF Send, Write, Encoding
<1>2. HoldsSolid(info)
  BY <1>1 DEF FramesKept
<1>3. info' # None
  <2>1. "bundle" \in DOMAIN info'
    BY <1>2, SendKeepsBundle DEF HoldsSolid
  <2> QED BY <2>1 DEF NoneIsNothing
<1>4. Solid(x)
  BY <1>2, PreparedSolid DEF HoldsSolid
<1> HIDE DEF x
<1>5. usedBytesInCycle' \in 0 .. UartBuffer
  <2>1. IsSeq(items)
    BY <1>4, TaggedAre
  <2> HIDE DEF items
  <2>2. Len(items) \in Nat
    BY <2>1, SeqBasics
  <2> DEFINE l == Len(items)
             u == IF NewCycle THEN 0 ELSE usedBytesInCycle
  <2>3. UsedWith(items) = u + l + 1
    BY DEF UsedWith
  <2>4. u \in Nat
    BY DEF Ranges
  <2>5. usedBytesInCycle' <= UartBuffer
    BY <1>1 DEF Accepts
  <2> HIDE DEF l, u
  <2>6. l \in Nat
    BY <2>2 DEF l
  <2> QED BY <1>1, <2>3, <2>4, <2>5, <2>6 DEF NatsAssumption
<1>6. c \in 0 .. MaxSends /\ c \in 1 .. c /\ 1 .. sends \subseteq 1 .. c
      /\ \A k \in 1 .. c : k \in 1 .. sends \/ k = c
  BY <1>1 DEF Ranges, NatsAssumption
<1>7. IsSeq(copies') /\ Len(copies') = c /\ \A k \in 1 .. c : copies'[k] \in 0 .. now
  <2>1. /\ IsSeq(copies) /\ Len(copies) = sends /\ \A k \in 1 .. sends : copies[k] \in 0 .. now
    BY DEF Ranges
  <2>2. stamp \in 0 .. now
    BY DEF Ranges
  <2> HIDE DEF stamp
  <2>3. /\ IsSeq(copies') /\ Len(copies') = Len(copies) + 1
        /\ \A k \in 1 .. Len(copies) : copies'[k] = copies[k]
        /\ copies'[Len(copies) + 1] = stamp
    BY <1>1, <2>1, SeqAppend
  <2>4. \A k \in 1 .. c : copies'[k] \in 0 .. now
    <3> TAKE k \in 1 .. c
    <3>1. CASE k \in 1 .. sends
      BY <2>1, <2>3, <3>1
    <3>2. CASE k = c
      BY <2>1, <2>2, <2>3, <3>2
    <3> QED BY <1>6, <3>1, <3>2
  <2> QED BY <2>1, <2>3, <2>4
<1> HIDE DEF c
<1>8. Numbered(E, c)
  <2>1. \A k \in 1 .. Len(E) : E[k].is = "begin" => E[k].copy = c
    BY <1>4, EncodingStreams
  <2> HIDE DEF E
  <2> QED BY <1>6, <2>1 DEF Numbered
<1>9. Numbered(rx, c) /\ Numbered(data, c)
  BY <1>6 DEF Ranges, Numbered
<1> HIDE DEF E, stamp, items
<1> QED BY <1>1, <1>3, <1>5, <1>6, <1>7, <1>8, <1>9 DEF Ranges

LEMMA RangesOnArrive ==
  ASSUME FramesKept, Ranges, Arrive
  PROVE  Ranges'
<1> DEFINE x == Head(out)
           t == Tail(out)
           n == Len(out)
           l == Len(rx)
<1>1. /\ out # <<>> /\ out' = t /\ rx' = IF l < UartBuffer THEN Append(rx, x) ELSE rx
      /\ UNCHANGED <<now, poll, data, holder, info, record, fate, sends, since, stay, copies,
                     usedBytesInCycle>>
  BY DEF Arrive, Transmit, history
<1>2. IsSeq(rx) /\ IsSeq(out) /\ Numbered(rx, sends) /\ Numbered(out, sends)
      /\ l \in Nat /\ n \in Nat /\ l <= UartBuffer
  BY SeqBasics DEF FramesKept, Outgoing, Stream, Ranges
<1>3. /\ Len(t) = n - 1 /\ n >= 1 /\ x = out[1]
      /\ \A i \in 1 .. n - 1 : t[i] = out[i + 1]
  BY <1>1, <1>2, SeqTail
<1> HIDE DEF x, t
<1>4. Numbered(t, sends)
  <2> SUFFICES ASSUME NEW i \in 1 .. Len(t)
               PROVE  t[i].is = "begin" => t[i].copy \in 1 .. sends
    BY DEF Numbered
  <2>1. i \in 1 .. n - 1 /\ i + 1 \in 1 .. n
    BY <1>2, <1>3
  <2> QED BY <1>2, <1>3, <2>1 DEF Numbered
<1>5. Numbered(rx', sends) /\ Len(rx') <= UartBuffer
  <2>1. CASE ~(l < UartBuffer)
    BY <1>1, <1>2, <2>1
  <2>2. CASE l < UartBuffer
    <3>1. /\ Len(rx') = l + 1 /\ (\A i \in 1 .. l : rx'[i] = rx[i]) /\ rx'[l + 1] = x
      BY <1>1, <1>2, <2>2, SeqAppend
    <3>2. x.is = "begin" => x.copy \in 1 .. sends
      <4>1. 1 \in 1 .. n
        BY <1>2, <1>3
      <4> QED BY <1>2, <1>3, <4>1 DEF Numbered
    <3>3. Numbered(rx', sends)
      <4> DEFINE z == rx'
      <4> SUFFICES ASSUME NEW i \in 1 .. Len(z)
                   PROVE  z[i].is = "begin" => z[i].copy \in 1 .. sends
        BY DEF Numbered
      <4>1. i \in 1 .. l \/ i = l + 1
        BY <1>2, <3>1
      <4>2. CASE i \in 1 .. l
        BY <1>2, <3>1, <4>2 DEF Numbered
      <4>3. CASE i = l + 1
        BY <3>1, <3>2, <4>3
      <4> QED BY <4>1, <4>2, <4>3
    <3>4. l + 1 <= UartBuffer \/ ~(UartBuffer \in Int)
      BY <1>2, <2>2
    <3> QED BY <3>1, <3>3, <3>4, SerialAssumption
  <2> QED BY <2>1, <2>2
<1>6. holder < NumNodes
  BY <1>1 DEF Ranges
<1> QED BY <1>1, <1>4, <1>5, <1>6 DEF Ranges

LEMMA RangesOnNoise ==
  ASSUME FramesKept, Ranges, Noise
  PROVE  Ranges'
<1> DEFINE f == Damaged(Head(out).fields)
           x == Head(out)
           y == [x EXCEPT !.fields = f]
           t == Tail(out)
           n == Len(out)
           h == <<y>> \o t
<1>1. /\ out # <<>> /\ x.is = "block" /\ out' = h
      /\ UNCHANGED <<now, rx, poll, data, holder, info, record, fate, sends, since, stay,
                     copies, usedBytesInCycle>>
  BY DEF Noise
<1>2. IsSeq(out) /\ n \in Nat /\ n >= 1 /\ Numbered(out, sends)
      /\ \A k \in 1 .. n : "is" \in DOMAIN out[k]
  BY <1>1, SeqTail, SeqBasics DEF FramesKept, Outgoing, Stream, Ranges
<1>3. /\ IsSeq(t) /\ Len(t) = n - 1 /\ x = out[1]
      /\ \A k \in 1 .. n - 1 : t[k] = out[k + 1]
  BY <1>1, <1>2, SeqTail
<1>4. y.is = "block"
  <2>1. "is" \in DOMAIN x
    <3>1. 1 \in 1 .. n
      BY <1>2
    <3> QED BY <1>2, <1>3, <3>1
  <2> HIDE DEF x
  <2> QED BY <1>1, <2>1
<1> HIDE DEF x, y, t, f
<1>5. Len(h) = n /\ h[1] = y /\ \A k \in 2 .. n : h[k] = out[k]
  <2>1. IsSeq(<<y>>) /\ Len(<<y>>) = 1 /\ <<y>>[1] = y
    BY DEF IsSeq
  <2> DEFINE a == <<y>>
  <2> HIDE DEF a
  <2>2. /\ Len(a \o t) = Len(a) + Len(t)
        /\ \A i \in 1 .. Len(a) : (a \o t)[i] = a[i]
        /\ \A i \in 1 .. Len(t) : (a \o t)[Len(a) + i] = t[i]
    <3>1. IsSeq(a) /\ IsSeq(t)
      BY <1>3, <2>1 DEF a
    <3> QED BY <3>1, SeqConcat
  <2>3. Len(a) = 1 /\ a[1] = y /\ h = a \o t
    BY <2>1 DEF a
  <2> HIDE DEF h
  <2>4. \A k \in 2 .. n : h[k] = out[k]
    <3> TAKE k \in 2 .. n
    <3>1. k - 1 \in 1 .. n - 1 /\ 1 + (k - 1) = k /\ (k - 1) + 1 = k
      BY <1>2
    <3>2. h[1 + (k - 1)] = t[k - 1] /\ t[k - 1] = out[(k - 1) + 1]
      BY <1>3, <2>2, <2>3, <3>1
    <3> QED BY <3>1, <3>2
  <2>5. Len(h) = n
    BY <1>2, <1>3, <2>2, <2>3
  <2>6. h[1] = y
    BY <2>2, <2>3
  <2> QED BY <2>4, <2>5, <2>6
<1> HIDE DEF h
<1>6. Numbered(h, sends)
  <2> SUFFICES ASSUME NEW i \in 1 .. Len(h)
               PROVE  h[i].is = "begin" => h[i].copy \in 1 .. sends
    BY DEF Numbered
  <2>1. i \in 1 .. n /\ (i = 1 \/ i \in 2 .. n)
    BY <1>2, <1>5
  <2>2. CASE i = 1
    BY <1>4, <1>5, <2>2
  <2>3. CASE i \in 2 .. n
    BY <1>2, <1>5, <2>1, <2>3 DEF Numbered
  <2> QED BY <2>1, <2>2, <2>3
<1>7. holder < NumNodes
  BY <1>1 DEF Ranges
<1> QED BY <1>1, <1>6, <1>7 DEF Ranges

LEMMA RangesOnStore ==
  ASSUME NoneIsNothing, Ranges, Store
  PROVE  Ranges'
<1>1. /\ info # None
      /\ UNCHANGED <<now, rx, poll, data, out, usedBytesInCycle, holder, sends, since, stay,
                     copies>>
      /\ \/ record' = SerializeInfo(info) /\ info' = None /\ fate' = fate
         \/ fate' = "aborted" /\ UNCHANGED <<record, info>>
  BY DEF Store, lineVars, history
<1>2. info' = None <=> record' # None
  <2>1. CASE record' = SerializeInfo(info) /\ info' = None
    <3>1. \A a, b, c, d, e, f, g : DOMAIN <<a, b, c, d, e, f, g>> = 1 .. 7
      OBVIOUS
    <3>2. DOMAIN record' = 1 .. 7
      BY <2>1, <3>1 DEF SerializeInfo
    <3> QED BY <2>1, <3>2 DEF NoneIsNothing
  <2>2. CASE UNCHANGED <<record, info>>
    BY <2>2 DEF Ranges
  <2> QED BY <1>1, <2>1, <2>2
<1> QED BY <1>1, <1>2 DEF Ranges

LEMMA RangesOnLoad ==
  ASSUME NoneIsNothing, Ranges, Load
  PROVE  Ranges'
<1>1. /\ info' = DeserializeInfo(record, now) /\ record' = None /\ fate' \in {"deleted", fate}
      /\ UNCHANGED <<now, rx, poll, data, out, usedBytesInCycle, holder, sends, since, stay,
                     copies>>
  BY DEF Load, lineVars, history
<1>2. info' # None
  <2>1. "bundle" \in DOMAIN info'
    BY <1>1 DEF DeserializeInfo
  <2> QED BY <2>1 DEF NoneIsNothing
<1> QED BY <1>1, <1>2 DEF Ranges

LEMMA RangesOnPoll ==
  ASSUME NatsAssumption, NoneIsNothing, FramesKept, Ranges, Poll
  PROVE  Ranges'
<1> DEFINE D == DOMAIN Found
           first == Min(D)
           s == Piece(data, first)
           c == s[1].copy
           taken == FirstFound
           i == Start(data, first)
<1>1. D # {} /\ rx' = <<>> /\ data' = <<>> /\ poll' = "idle"
  BY DEF Poll, Flush
<1>2. PICK ghost : Take(Process(taken, ghost), c)
  BY DEF Poll
<1> DEFINE done == Process(taken, ghost)
<1>3. IsSeq(data) /\ Len(data) \in Nat /\ DOMAIN data = 1 .. Len(data)
  BY SeqBasics DEF FramesKept, Stream
<1>4. D = {k \in Ends(data) : Decoded(data, k).valid}
  BY DEF Found, getNewBundles
<1>5. D \in SUBSET (1 .. Len(data))
  BY <1>3, <1>4 DEF Ends
<1>6. first \in D
  <2> HIDE DEF D
  <2> QED BY <1>1, <1>3, <1>5, LeastOf
<1> HIDE DEF first, taken
<1>7. first \in 1 .. Len(data) /\ fromCbor(s, now).valid
  BY <1>4, <1>5, <1>6 DEF Decoded
<1> HIDE DEF D, done
<1>8. c \in 1 .. sends
  <2>1. i \in 1 .. Len(data) /\ data[i].is = "begin" /\ s[1] = data[i]
    BY <1>3, <1>7, PieceBegins
  <2> HIDE DEF i, s
  <2> QED BY <2>1 DEF Ranges, Numbered
<1> HIDE DEF c, s
<1>9. holder < NumNodes
  <2>1. data # <<>>
    BY <1>3, <1>7, SeqEmpty
  <2> QED BY <2>1 DEF Ranges
<1>10. Len(<<>>) = 0 /\ IsSeq(<<>>)
  BY SeqEmpty
<1>11. CASE MustDelete(done)
  <2>1. /\ fate' = "deleted"
        /\ UNCHANGED <<now, out, usedBytesInCycle, holder, info, record, sends, since, stay,
                       copies>>
    BY <1>2, <1>11 DEF Take, history, done
  <2> QED BY <1>1, <1>9, <1>10, <2>1, NothingNumbered DEF Ranges, NatsAssumption
<1>12. CASE ~MustDelete(done)
  <2>1. /\ holder' = holder + 1 /\ info' = BundleInfo(done.bundle) /\ record' = None
        /\ out' = <<>> /\ usedBytesInCycle' = 0 /\ sends' = 0 /\ since' = now
        /\ stay' = copies[c] /\ copies' = <<>> /\ fate' = fate /\ now' = now
    BY <1>2, <1>12 DEF Take, done
  <2>2. info' # None
    <3>1. "bundle" \in DOMAIN info'
      BY <2>1, TypesOfInfo
    <3> QED BY <3>1 DEF NoneIsNothing
  <2>3. copies[c] \in 0 .. now
    BY <1>8 DEF Ranges
  <2>4. holder + 1 \in 1 .. NumNodes
    BY <1>9 DEF Ranges, NatsAssumption
  <2> QED BY <1>1, <1>10, <2>1, <2>2, <2>3, <2>4, NothingNumbered DEF Ranges, NatsAssumption
<1> QED BY <1>11, <1>12

LEMMA RangesGoOn ==
  ASSUME NatsAssumption, NoneIsNothing, FramesKept, Ranges, [Next]_vars
  PROVE  Ranges'
<1>1. CASE Tick
  <2>1. /\ now < MaxTime /\ now' = now + 1
        /\ UNCHANGED <<rx, poll, data, out, usedBytesInCycle, holder, info, record, fate,
                       sends, since, stay, copies>>
    BY <1>1 DEF Tick, lineVars, history
  <2>2. now' \in 0 .. MaxTime /\ 0 .. now \subseteq 0 .. now'
    BY <2>1 DEF Ranges, NatsAssumption
  <2> QED BY <2>1, <2>2 DEF Ranges
<1>2. CASE Abort
  <2>1. /\ fate' = "aborted"
        /\ UNCHANGED <<now, rx, poll, data, out, usedBytesInCycle, holder, info, record, sends,
                       since, stay, copies>>
    BY <1>2 DEF Abort, lineVars, history
  <2> QED BY <2>1 DEF Ranges
<1>3. CASE SendRefused
  <2>1. /\ usedBytesInCycle' \in {0, usedBytesInCycle}
        /\ UNCHANGED <<now, rx, poll, data, out, holder, info, record, fate, sends, since, stay,
                       copies>>
    BY <1>3 DEF SendRefused, Refuse, history
  <2> QED BY <2>1 DEF Ranges, NatsAssumption
<1>4. CASE PollRead \/ PollNothing
  <2>1. /\ rx' = <<>> /\ data' \in {rx, <<>>} /\ poll' \in {"read", "idle"}
        /\ UNCHANGED <<now, out, usedBytesInCycle, holder, info, record, fate, sends, since,
                       stay, copies>>
    BY <1>4 DEF PollRead, Read, PollNothing, Flush, lineVars, history
  <2> QED BY <2>1, NothingNumbered, SeqEmpty DEF Ranges, NatsAssumption
<1>5. CASE UNCHANGED vars
  BY <1>5 DEF vars, lineVars, history, Ranges
<1>6. CASE Send
  BY <1>6, RangesOnSend
<1>7. CASE Store
  BY <1>7, RangesOnStore
<1>8. CASE Load
  BY <1>8, RangesOnLoad
<1>9. CASE Arrive
  BY <1>9, RangesOnArrive
<1>10. CASE Noise
  BY <1>10, RangesOnNoise
<1>11. CASE Poll
  BY <1>11, RangesOnPoll
<1> QED BY <1>1, <1>2, <1>3, <1>4, <1>5, <1>6, <1>7, <1>8, <1>9, <1>10, <1>11 DEF Next

(* Every variable keeps its type, damaged bundles or not: times do not run    *)
(* beyond the end, no bundle goes beyond the last node, buffer and budget     *)
(* keep their limits, and the bundle is in hand or in the store, never both.  *)
THEOREM TypeCorrect ==
  ASSUME \A o \in Origins : Solid(o), NoneIsNothing
  PROVE  Spec => []TypeOK
<1>1. NatsAssumption
  BY JourneyAssumption, SerialAssumption DEF NatsAssumption
<1>2. Init => FramesKept /\ Ranges
  BY <1>1, FramesBegin, RangesBegin
<1>3. FramesKept /\ Ranges /\ [Next]_vars => (FramesKept /\ Ranges)'
  BY <1>1, FramesGoOn, RangesGoOn
<1>4. Ranges => TypeOK
  <2> SUFFICES ASSUME Ranges PROVE TypeOK
    OBVIOUS
  <2>1. copies \in Seq(0 .. MaxTime)
    <3> DEFINE n == Len(copies)
               S == 0 .. MaxTime
    <3>1. n \in Nat /\ copies = [i \in 1 .. n |-> copies[i]]
      BY DEF Ranges, IsSeq
    <3>2. \A i \in 1 .. n : copies[i] \in S
      BY <1>1 DEF Ranges, NatsAssumption
    <3> HIDE DEF n, S
    <3>3. copies \in [1 .. n -> S]
      BY <3>1, <3>2
    <3>4. copies \in Seq(S)
      BY <3>1, <3>3, SeqDef
    <3> QED BY <3>4 DEF S
  <2>2. since \in 0 .. MaxTime /\ stay \in 0 .. MaxTime
    BY <1>1 DEF Ranges, NatsAssumption
  <2>3. (info = None) # (record = None)
    <3>1. info = None <=> record # None
      BY DEF Ranges
    <3> QED BY <3>1, Zenon
  <2> QED BY <2>1, <2>2, <2>3 DEF Ranges, TypeOK
<1> QED BY <1>2, <1>3, <1>4, PTL DEF Spec
=============================================================================
