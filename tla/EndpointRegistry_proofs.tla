------------------------ MODULE EndpointRegistry_proofs ------------------------
(***************************************************************************)
(* Proofs about EndpointRegistry, for any endpoints, URIs and numbers of   *)
(* calls and bundles: what the registry and the buffers keep although      *)
(* nothing takes a mutex, and what the endpoints erased during a delivery  *)
(* can cost it.                                                            *)
(***************************************************************************)
EXTENDS EndpointRegistry, SequenceTheorems, FiniteSetTheorems, FunctionTheorems, TLAPS

-----------------------------------------------------------------------------
(* The registry.                                                           *)

SlotsTyped ==
  /\ slots \in Seq(Endpoints \cup {Null}) /\ size \in 0 .. Len(slots)
  /\ \A i \in 1 .. size : slots[i] \in Endpoints
  /\ BPA \in [Endpoints -> BOOLEAN]

RegistryInv == SlotsTyped /\ RegistryConsistent

LEMMA RegistryInit == Init => RegistryInv
<1> SUFFICES ASSUME Init PROVE RegistryInv
  OBVIOUS
<1>1. slots = <<>> /\ size = 0 /\ BPA = [e \in Endpoints |-> FALSE]
  BY DEF Init
<1>2. 1 .. 0 = {}
  OBVIOUS
<1>3. SlotsTyped
  BY <1>1 DEF SlotsTyped
<1>4. Registered = {}
  BY <1>1, <1>2 DEF Registered
<1>5. \A i, j \in 1 .. size : slots[i] = slots[j] => i = j
  BY <1>1, <1>2
<1>6. \A e \in Valid : ~BPA[e]
  BY <1>1, RegistryAssumption
<1> QED BY <1>3, <1>4, <1>5, <1>6 DEF RegistryInv, RegistryConsistent

(* The vector with one element more, moved or not.                         *)
LEMMA EntryAdded ==
  ASSUME SlotsTyped, NEW e \in Endpoints
  PROVE  LET new == IF size < Len(slots) THEN [slots EXCEPT ![size + 1] = e]
                    ELSE slots \o <<e>> \o [i \in 1 .. size - 1 |-> Null]
         IN  /\ new \in Seq(Endpoints \cup {Null}) /\ size + 1 <= Len(new)
             /\ \A i \in 1 .. size : new[i] = slots[i]
             /\ new[size + 1] = e
<1> DEFINE E == Endpoints \cup {Null}
           rest == [i \in 1 .. size - 1 |-> Null]
<1>0. slots \in Seq(E) /\ Len(slots) \in Nat /\ size \in 0 .. Len(slots)
  BY DEF SlotsTyped
<1>1. CASE size < Len(slots)
  <2>1. size + 1 \in 1 .. Len(slots)
    BY <1>0, <1>1
  <2>2. [slots EXCEPT ![size + 1] = e] \in Seq(E) /\ Len([slots EXCEPT ![size + 1] = e]) = Len(slots)
    BY <1>0, <2>1, ExceptSeq
  <2>3. DOMAIN slots = 1 .. Len(slots)
    BY <1>0, LenProperties
  <2> QED BY <1>0, <1>1, <2>1, <2>2, <2>3
<1>2. CASE ~(size < Len(slots))
  <2>1. size = Len(slots)
    BY <1>0, <1>2
  <2>2. rest \in Seq(E)
    <3>1. CASE size = 0
      <4>1. 1 .. size - 1 = {}
        BY <3>1
      <4>2. <<>> \in Seq(E) /\ <<>> = [i \in {} |-> Null]
        OBVIOUS
      <4>3. rest = <<>>
        BY <4>1, <4>2
      <4> QED BY <4>2, <4>3
    <3>2. CASE size # 0
      <4>1. size - 1 \in Nat
        BY <3>2, <1>0
      <4> QED BY <4>1, IsASeq
    <3> QED BY <3>1, <3>2
  <2>3. <<e>> \in Seq(E) /\ Len(<<e>>) = 1 /\ <<e>>[1] = e
    OBVIOUS
  <2> HIDE DEF rest
  <2>4. /\ slots \o <<e>> \in Seq(E) /\ Len(slots \o <<e>>) = size + 1
        /\ \A i \in 1 .. size : (slots \o <<e>>)[i] = slots[i]
        /\ (slots \o <<e>>)[size + 1] = e
    BY <1>0, <2>1, <2>3, ConcatProperties
  <2> DEFINE s == slots \o <<e>>
  <2> HIDE DEF s
  <2>5. /\ s \o rest \in Seq(E) /\ Len(s \o rest) = Len(s) + Len(rest)
        /\ \A i \in 1 .. Len(s) : (s \o rest)[i] = s[i]
    BY <2>2, <2>4, ConcatProperties, LenProperties DEF s
  <2>6. Len(rest) \in Nat
    BY <2>2, LenProperties
  <2>7. /\ size + 1 <= Len(s \o rest)
        /\ \A i \in 1 .. size : (s \o rest)[i] = slots[i]
        /\ (s \o rest)[size + 1] = e
    BY <1>0, <2>4, <2>5, <2>6 DEF s
  <2> QED BY <1>2, <2>5, <2>7 DEF s, rest
<1> QED BY <1>1, <1>2

LEMMA RegistryNext == RegistryInv /\ [Next]_vars => RegistryInv'
<1> SUFFICES ASSUME RegistryInv, [Next]_vars PROVE RegistryInv'
  OBVIOUS
<1>0. SlotsTyped /\ RegistryConsistent /\ size \in Nat /\ Len(slots) \in Nat
  BY DEF RegistryInv, SlotsTyped
<1>1. CASE UNCHANGED registry
  BY <1>0, <1>1 DEF registry, RegistryInv, SlotsTyped, RegistryConsistent, Registered
<1>2. ASSUME NEW e \in Endpoints, registerEndpoint(e) PROVE RegistryInv'
  <2>1. BPA' = [BPA EXCEPT ![e] = TRUE]
    BY <1>2 DEF registerEndpoint
  <2>2. CASE ~(e \in Valid /\ e \notin Registered)
    <3>1. UNCHANGED <<slots, size>>
      BY <1>2, <2>2 DEF registerEndpoint
    <3>2. e \in Valid => e \in Registered
      BY <2>2
    <3>3. Registered' = Registered
      BY <3>1 DEF Registered
    <3> QED BY <1>0, <2>1, <3>1, <3>2, <3>3, RegistryAssumption
            DEF RegistryInv, SlotsTyped, RegistryConsistent
  <2>3. CASE e \in Valid /\ e \notin Registered
    <3>1. size' = size + 1 /\ slots' = IF size < Len(slots) THEN [slots EXCEPT ![size + 1] = e]
                                     ELSE slots \o <<e>> \o [i \in 1 .. size - 1 |-> Null]
      BY <1>2, <2>3 DEF registerEndpoint
    <3>2. /\ slots' \in Seq(Endpoints \cup {Null}) /\ size' <= Len(slots')
          /\ \A i \in 1 .. size : slots'[i] = slots[i]
          /\ slots'[size + 1] = e
      BY <1>0, <3>1, EntryAdded
    <3>3. \A i \in 1 .. size' : i \in 1 .. size \/ i = size + 1
      BY <3>1, <1>0
    <3>4. Registered' = Registered \cup {e}
      <4>1. Registered' \subseteq Registered \cup {e}
        BY <3>2, <3>3 DEF Registered
      <4>2. 1 .. size \subseteq 1 .. size' /\ size + 1 \in 1 .. size'
        BY <3>1, <1>0
      <4> QED BY <4>1, <4>2, <3>2 DEF Registered
    <3>5. SlotsTyped'
      <4>1. size' \in 0 .. Len(slots')
        <5>1. Len(slots') \in Nat
          BY <3>2, LenProperties
        <5>2. size' = size + 1
          BY <3>1
        <5>3. size' \in Nat
          BY <5>2, <1>0
        <5>4. size' <= Len(slots')
          BY <3>2
        <5> QED BY <5>1, <5>3, <5>4
      <4> QED BY <1>0, <2>1, <3>2, <3>3, <4>1 DEF SlotsTyped
    <3>6. \A i \in 1 .. size : slots[i] # e
      BY <2>3 DEF Registered
    <3>7. \A i, j \in 1 .. size' : slots'[i] = slots'[j] => i = j
      BY <3>2, <3>3, <3>6, <1>0 DEF RegistryConsistent
    <3>8. \A f \in Valid : (\A g \in Endpoints \ {f} : Uri[g] # Uri[f])
                             => (f \in Registered' <=> BPA'[f])
      BY <2>1, <3>4, <1>0, RegistryAssumption DEF SlotsTyped, RegistryConsistent
    <3> QED BY <3>5, <3>7, <3>8 DEF RegistryInv, RegistryConsistent
  <2> QED BY <2>2, <2>3
<1>3. ASSUME NEW e \in Endpoints, unregisterEndpoint(e) PROVE RegistryInv'
  <2>1. PICK i \in 1 .. size : IsFirstWithUri(i, e) /\ EraseSlot(i)
    BY <1>3 DEF unregisterEndpoint, Unregister
  <2>2. /\ BPA' = [BPA EXCEPT ![e] = FALSE] /\ size' = size - 1
        /\ slots' = [j \in DOMAIN slots |-> IF j \in i .. size - 1 THEN slots[j + 1]
                                           ELSE slots[j]]
        /\ Uri[slots[i]] = Uri[e]
    BY <1>3, <2>1 DEF unregisterEndpoint, Unregister, EraseSlot, IsFirstWithUri
  <2>3. slots \in [1 .. Len(slots) -> Endpoints \cup {Null}] /\ DOMAIN slots = 1 .. Len(slots)
        /\ size <= Len(slots)
    BY <1>0, LenProperties DEF SlotsTyped
  <2>4. slots' \in [1 .. Len(slots) -> Endpoints \cup {Null}]
    <3>1. \A j \in 1 .. Len(slots) : j \in i .. size - 1 => j + 1 \in 1 .. Len(slots)
      BY <2>3, <1>0
    <3> QED BY <2>2, <2>3, <3>1
  <2>5. slots' \in Seq(Endpoints \cup {Null}) /\ Len(slots') = Len(slots)
    BY <2>4, <1>0
  <2> DEFINE old(j) == IF j \in i .. size - 1 THEN j + 1 ELSE j
  <2>6. \A j \in 1 .. size' : /\ old(j) \in 1 .. size /\ old(j) # i
                              /\ slots'[j] = slots[old(j)]
    BY <2>1, <2>2, <2>3, <1>0
  <2>7. \A j, k \in 1 .. size' : old(j) = old(k) => j = k
    BY <2>1, <2>2, <1>0
  <2>8. \A k \in 1 .. size : k # i => \E j \in 1 .. size' : old(j) = k
    <3> TAKE k \in 1 .. size
    <3>1. CASE k < i
      BY <2>1, <2>2, <3>1, <1>0
    <3>2. CASE k > i
      <4>1. k - 1 \in 1 .. size' /\ old(k - 1) = k
        BY <2>1, <2>2, <3>2, <1>0
      <4> QED BY <4>1
    <3> QED BY <3>1, <3>2, <2>1, <1>0
  <2> HIDE DEF old
  <2>9. SlotsTyped'
    <3>1. size' \in 0 .. Len(slots')
      BY <2>1, <2>2, <2>3, <2>5, <1>0
    <3>2. \A j \in 1 .. size' : slots'[j] \in Endpoints
      BY <2>6, <1>0 DEF SlotsTyped
    <3> QED BY <2>2, <2>5, <3>1, <3>2, <1>0 DEF SlotsTyped
  <2>10. \A j, k \in 1 .. size' : slots'[j] = slots'[k] => j = k
    BY <2>6, <2>7, <1>0 DEF RegistryConsistent
  <2>11. \A f : f # slots[i] => (f \in Registered' <=> f \in Registered)
    BY <2>6, <2>8 DEF Registered
  <2>12. slots[i] \notin Registered'
    BY <2>1, <2>6, <1>0 DEF Registered, RegistryConsistent
  <2>13. ASSUME NEW f \in Valid, \A g \in Endpoints \ {f} : Uri[g] # Uri[f]
         PROVE  f \in Registered' <=> BPA'[f]
    <3>1. slots[i] \in Endpoints /\ f \in Endpoints
      BY <2>1, <1>0, RegistryAssumption DEF SlotsTyped
    <3>2. CASE f = e
      <4>1. slots[i] = f
        BY <3>1, <3>2, <2>2, <2>13
      <4> QED BY <4>1, <3>1, <3>2, <2>2, <2>12, <1>0 DEF SlotsTyped
    <3>3. CASE f # e
      <4>1. slots[i] # f
        BY <3>3, <2>2, <2>13
      <4>2. f \in Registered <=> BPA[f]
        BY <2>13, <1>0 DEF RegistryConsistent
      <4>3. BPA'[f] = BPA[f]
        BY <3>1, <3>3, <2>2, <1>0 DEF SlotsTyped
      <4> QED BY <4>1, <4>2, <4>3, <2>11
    <3> QED BY <3>2, <3>3
  <2> QED BY <2>9, <2>10, <2>13 DEF RegistryInv, RegistryConsistent
<1>4. CASE Deliver \/ EndCallbackChange \/ PollEnd \/ UNCHANGED vars
           \/ (\E e \in Endpoints : PollFront(e))
           \/ (\E e \in Changing, op \in {"set", "clear"} : BeginCallbackChange(e, op))
  <2>1. UNCHANGED registry
    BY <1>4 DEF Deliver, StartDelivery, NextEndpoint, ReadFreedVector, EndDelivery, TestCallback,
       CallCallback, AppendElement, AppendEnd, EndCallbackChange, PollEnd, PollFront,
       BeginCallbackChange, vars
  <2> QED BY <1>1, <2>1
<1> QED BY <1>2, <1>3, <1>4 DEF Next, Application

(* Whatever is registered and unregistered while bundles are delivered: no *)
(* endpoint is in the registry twice, and one with a URI of its own is in  *)
(* it exactly while it can send.                                           *)
THEOREM RegistryStaysConsistent == Spec => []RegistryConsistent
<1>1. RegistryInv => RegistryConsistent
  BY DEF RegistryInv
<1> QED BY <1>1, RegistryInit, RegistryNext, PTL DEF Spec

-----------------------------------------------------------------------------
(* A buffer as it is in memory: s holds n elements.                        *)

LEMMA PutAppends ==
  ASSUME NEW s \in Seq(Nat), NEW n \in 0 .. Len(s), NEW b \in Nat
  PROVE  /\ Put(s, n, b) \in Seq(Nat)
         /\ Len(Put(s, n, b)) >= Len(s) /\ Len(Put(s, n, b)) >= n + 1
         /\ Len(Put(s, n, b)) \in Nat
         /\ SubSeq(Put(s, n, b), 1, n + 1) = Append(SubSeq(s, 1, n), b)
<1> DEFINE t == Put(s, n, b)
<1>0. Len(s) \in Nat /\ n \in Nat
  BY LenProperties
<1>1. /\ t \in Seq(Nat) /\ Len(t) >= Len(s) /\ Len(t) >= n + 1 /\ Len(t) \in Nat
      /\ t[n + 1] = b /\ \A i \in 1 .. n : t[i] = s[i]
  <2>1. CASE n < Len(s)
    <3>1. n + 1 \in 1 .. Len(s)
      BY <2>1, <1>0
    <3>2. /\ [s EXCEPT ![n + 1] = b] \in Seq(Nat) /\ Len([s EXCEPT ![n + 1] = b]) = Len(s)
          /\ \A j \in 1 .. Len(s) : [s EXCEPT ![n + 1] = b][j] = IF j = n + 1 THEN b ELSE s[j]
      BY <3>1, ExceptSeq
    <3>3. t = [s EXCEPT ![n + 1] = b]
      BY <2>1 DEF Put
    <3> HIDE DEF t
    <3> QED BY <3>1, <3>2, <3>3, <1>0
  <2>2. CASE ~(n < Len(s))
    <3>1. n = Len(s) /\ t = Append(s, b)
      BY <2>2, <1>0 DEF Put
    <3> HIDE DEF t
    <3> QED BY <3>1, <1>0, AppendProperties
  <2> QED BY <2>1, <2>2
<1> HIDE DEF t
<1>2. /\ SubSeq(s, 1, n) \in Seq(Nat) /\ Len(SubSeq(s, 1, n)) = n
      /\ \A i \in 1 .. n : SubSeq(s, 1, n)[i] = s[i]
  <2>1. \A i \in 1 .. n : s[i] \in Nat
    BY <1>0, ElementOfSeq
  <2> QED BY <2>1, <1>0, SubSeqProperties
<1>3. /\ SubSeq(t, 1, n + 1) \in Seq(Nat) /\ Len(SubSeq(t, 1, n + 1)) = n + 1
      /\ \A i \in 1 .. n + 1 : SubSeq(t, 1, n + 1)[i] = t[i]
  <2>1. \A i \in 1 .. n + 1 : t[i] \in Nat
    BY <1>0, <1>1, ElementOfSeq
  <2> QED BY <2>1, <1>0, SubSeqProperties
<1> DEFINE q == SubSeq(s, 1, n)
           r == SubSeq(t, 1, n + 1)
<1> HIDE DEF q, r
<1>4. /\ Append(q, b) \in Seq(Nat) /\ Len(Append(q, b)) = n + 1
      /\ \A i \in 1 .. n : Append(q, b)[i] = q[i]
      /\ Append(q, b)[n + 1] = b
  BY <1>2, AppendProperties DEF q
<1>5. \A i \in 1 .. n + 1 : r[i] = Append(q, b)[i]
  <2> TAKE i \in 1 .. n + 1
  <2>1. r[i] = t[i]
    BY <1>3 DEF r
  <2>2. CASE i = n + 1
    BY <2>1, <2>2, <1>1, <1>4
  <2>3. CASE i # n + 1
    <3>1. i \in 1 .. n
      BY <2>3, <1>0
    <3> QED BY <2>1, <3>1, <1>1, <1>2, <1>4 DEF q
  <2> QED BY <2>2, <2>3
<1>6. r = Append(q, b)
  BY <1>3, <1>4, <1>5, SeqEqual DEF r
<1> QED BY <1>1, <1>6 DEF q, r, t

(* Moving the elements behind the first one to the front.                  *)
Moved(s, n) == [i \in DOMAIN s |-> IF i < n THEN s[i + 1] ELSE s[i]]

LEMMA MovedDropsFirst ==
  ASSUME NEW s \in Seq(Nat), NEW n \in 1 .. Len(s)
  PROVE  /\ Moved(s, n) \in Seq(Nat) /\ Len(Moved(s, n)) = Len(s)
         /\ s[1] \in Nat
         /\ SubSeq(s, 1, n) = <<s[1]>> \o SubSeq(Moved(s, n), 1, n - 1)
<1> DEFINE t == Moved(s, n)
<1>0. Len(s) \in Nat /\ n \in Nat /\ DOMAIN s = 1 .. Len(s) /\ s \in [1 .. Len(s) -> Nat]
  BY LenProperties
<1>1. \A i \in 1 .. Len(s) : (IF i < n THEN s[i + 1] ELSE s[i]) \in Nat
  <2> TAKE i \in 1 .. Len(s)
  <2>1. i < n => i + 1 \in 1 .. Len(s)
    BY <1>0
  <2> QED BY <2>1, <1>0
<1>2. t \in [1 .. Len(s) -> Nat] /\ \A i \in 1 .. Len(s) : i < n => t[i] = s[i + 1]
  BY <1>0, <1>1 DEF Moved
<1> HIDE DEF t
<1>3. t \in Seq(Nat) /\ Len(t) = Len(s)
  BY <1>0, <1>2
<1>4. 1 \in 1 .. Len(s) /\ n \in 1 .. Len(s)
  BY <1>0
<1>5. SubSeq(s, 1, n) = <<s[1]>> \o SubSeq(s, 2, n)
  BY <1>0, <1>4, SubSeqRecursiveFirst
<1>6. SubSeq(s, 2, n) = SubSeq(t, 1, n - 1)
  <2> DEFINE q == SubSeq(s, 2, n)
             r == SubSeq(t, 1, n - 1)
  <2>1. /\ q \in Seq(Nat) /\ Len(q) = n - 1 /\ \A i \in 1 .. n - 1 : q[i] = s[i + 1]
    <3>1. \A i \in 2 .. n : s[i] \in Nat
      BY <1>0
    <3>2. /\ q \in Seq(Nat) /\ Len(q) = IF 2 <= n THEN n - 2 + 1 ELSE 0
          /\ \A i \in 1 .. n - 2 + 1 : q[i] = s[2 + i - 1]
      BY <3>1, <1>0, SubSeqProperties
    <3>3. n - 2 + 1 = n - 1 /\ \A i \in 1 .. n - 1 : 2 + i - 1 = i + 1
      BY <1>0
    <3> HIDE DEF q
    <3> QED BY <3>2, <3>3, <1>0
  <2>2. /\ r \in Seq(Nat) /\ Len(r) = n - 1 /\ \A i \in 1 .. n - 1 : r[i] = t[i]
    <3>1. \A i \in 1 .. n - 1 : t[i] \in Nat
      BY <1>0, <1>2
    <3>2. /\ r \in Seq(Nat) /\ Len(r) = IF 1 <= n - 1 THEN n - 1 - 1 + 1 ELSE 0
          /\ \A i \in 1 .. n - 1 - 1 + 1 : r[i] = t[1 + i - 1]
      BY <3>1, <1>0, SubSeqProperties
    <3>3. n - 1 - 1 + 1 = n - 1 /\ \A i \in 1 .. n - 1 : 1 + i - 1 = i
      BY <1>0
    <3> HIDE DEF r
    <3> QED BY <3>2, <3>3, <1>0
  <2> HIDE DEF q, r
  <2>3. \A i \in 1 .. n - 1 : q[i] = r[i]
    <3> TAKE i \in 1 .. n - 1
    <3>1. i \in 1 .. Len(s) /\ i < n
      BY <1>0
    <3> QED BY <3>1, <2>1, <2>2, <1>2
  <2>4. q = r
    BY <2>1, <2>2, <2>3, SeqEqual
  <2> QED BY <2>4 DEF q, r
<1> QED BY <1>0, <1>3, <1>4, <1>5, <1>6 DEF t

-----------------------------------------------------------------------------
(* The loop of localBundleDelivery stays within the slots the vector had,  *)
(* and those have held endpoints ever since.                               *)

InLoop == {"loop", "test", "call", "append", "grow"}

LoopTyped ==
  /\ receiver = Waiting \/
       /\ receiver = [at |-> receiver.at, dest |-> receiver.dest, index |-> receiver.index,
                      last |-> receiver.last, ep |-> receiver.ep,
                      count |-> receiver.count, freed |-> receiver.freed]
       /\ receiver.at \in InLoop
       /\ receiver.index \in Nat \ {0} /\ receiver.last \in 0 .. Len(slots)
       /\ \A i \in 1 .. receiver.last : slots[i] \in Endpoints
  /\ receiver.at \in InLoop \ {"loop"} => receiver.ep \in Endpoints
  /\ app = Free \/ /\ app = [op |-> app.op, ep |-> app.ep, count |-> app.count]
                   /\ app.op \in {"set", "clear", "shrink"} /\ app.ep \in Endpoints

LEMMA LoopInit == Init => LoopTyped
  BY DEF Init, LoopTyped, Waiting, Free, InLoop

LEMMA LoopNext ==
  ASSUME RegistryInv, LoopTyped, [Next]_vars
  PROVE  LoopTyped'
<1>0. /\ slots \in Seq(Endpoints \cup {Null}) /\ size \in 0 .. Len(slots) /\ Len(slots) \in Nat
      /\ \A i \in 1 .. size : slots[i] \in Endpoints
      /\ DOMAIN slots = 1 .. Len(slots)
  BY LenProperties DEF RegistryInv, SlotsTyped
<1> USE DEF InLoop, Waiting, Free
<1>1. CASE Deliver
  <2>1. UNCHANGED <<slots, app>>
    BY <1>1 DEF Deliver, StartDelivery, NextEndpoint, ReadFreedVector, EndDelivery, TestCallback,
       CallCallback, AppendElement, AppendEnd, registry
  <2>a. ASSUME NEW at \in InLoop, NEW dest, NEW index \in Nat \ {0}, NEW ep, NEW n, NEW freed,
               receiver.at \in InLoop,
               receiver' = [at |-> at, dest |-> dest, index |-> index, last |-> receiver.last,
                            ep |-> ep, count |-> n, freed |-> freed],
               at # "loop" => ep \in Endpoints
        PROVE  LoopTyped'
    <3>1. /\ receiver.last \in 0 .. Len(slots) /\ \A i \in 1 .. receiver.last : slots[i] \in Endpoints
      BY <2>a DEF LoopTyped
    <3> HIDE DEF InLoop
    <3>2. /\ receiver'.at = at /\ receiver'.dest = dest /\ receiver'.index = index
          /\ receiver'.last = receiver.last /\ receiver'.ep = ep
          /\ receiver'.count = n /\ receiver'.freed = freed
      BY <2>a
    <3> QED BY <2>1, <2>a, <3>1, <3>2 DEF LoopTyped
  <2>b. receiver.at \in InLoop =>
          /\ receiver = [at |-> receiver.at, dest |-> receiver.dest, index |-> receiver.index,
                         last |-> receiver.last, ep |-> receiver.ep,
                         count |-> receiver.count, freed |-> receiver.freed]
          /\ receiver.index \in Nat \ {0}
    BY DEF LoopTyped
  <2>2. ASSUME NEW dest \in Uris, StartDelivery(dest) PROVE LoopTyped'
    BY <2>1, <2>2, <1>0 DEF StartDelivery, LoopTyped
  <2>3. CASE NextEndpoint
    <3>1. receiver.index \in 1 .. receiver.last /\ receiver.at = "loop"
      BY <2>3 DEF NextEndpoint, LoopTyped
    <3>2. slots[receiver.index] \in Endpoints
      BY <3>1 DEF LoopTyped
    <3>3. receiver.index + 1 \in Nat \ {0}
      BY <2>b, <3>1
    <3>4. CASE Uri[slots[receiver.index]] = receiver.dest
      <4>1. receiver' = [at |-> "test", dest |-> receiver.dest, index |-> receiver.index + 1,
                         last |-> receiver.last, ep |-> slots[receiver.index],
                         count |-> receiver.count, freed |-> receiver.freed]
        BY <2>3, <2>b, <3>1, <3>4 DEF NextEndpoint
      <4> QED BY <2>a, <3>1, <3>2, <3>3, <4>1
    <3>5. CASE Uri[slots[receiver.index]] # receiver.dest
      <4>1. receiver' = [at |-> "loop", dest |-> receiver.dest, index |-> receiver.index + 1,
                         last |-> receiver.last, ep |-> receiver.ep,
                         count |-> receiver.count, freed |-> receiver.freed]
        BY <2>3, <2>b, <3>1, <3>5 DEF NextEndpoint
      <4> QED BY <2>a, <3>1, <3>3, <4>1
    <3> QED BY <3>4, <3>5
  <2>4. CASE ReadFreedVector
    BY <2>1, <2>4 DEF ReadFreedVector, LoopTyped
  <2>5. CASE EndDelivery
    BY <2>1, <2>5 DEF EndDelivery, LoopTyped
  <2>6. CASE TestCallback
    <3>1. PICK a \in {"call", "append"} : receiver' = [receiver EXCEPT !.at = a]
      BY <2>6 DEF TestCallback
    <3>2. receiver.at = "test"
      BY <2>6 DEF TestCallback
    <3>3. receiver' = [at |-> a, dest |-> receiver.dest, index |-> receiver.index,
                       last |-> receiver.last, ep |-> receiver.ep,
                       count |-> receiver.count, freed |-> receiver.freed]
      BY <2>6, <2>b, <3>1, <3>2 DEF TestCallback
    <3>4. receiver.ep \in Endpoints
      BY <3>2 DEF LoopTyped
    <3>5. a \in InLoop /\ a # "loop" /\ receiver.at \in InLoop /\ receiver.index \in Nat \ {0}
      BY <2>b, <3>1, <3>2
    <3> HIDE DEF InLoop
    <3> QED BY <2>a, <3>3, <3>4, <3>5, Zenon
  <2>7. CASE CallCallback
    <3>1. receiver.at = "call" /\ receiver.at \in InLoop
      BY <2>7 DEF CallCallback
    <3>2. CASE receiver' = receiver
      BY <2>1, <3>2 DEF LoopTyped
    <3>3. CASE receiver' = [receiver EXCEPT !.at = "loop", !.ep = Null]
      <4>1. receiver' = [at |-> "loop", dest |-> receiver.dest, index |-> receiver.index,
                         last |-> receiver.last, ep |-> Null,
                         count |-> receiver.count, freed |-> receiver.freed]
        BY <2>b, <3>1, <3>3
      <4>2. "loop" \in InLoop /\ receiver.index \in Nat \ {0}
        BY <2>b, <3>1
      <4> HIDE DEF InLoop
      <4> QED BY <2>a, <3>1, <4>1, <4>2
    <3> QED BY <2>7, <3>2, <3>3 DEF CallCallback
  <2>8. CASE AppendElement
    <3>2. receiver.at = "append"
      BY <2>8 DEF AppendElement
    <3>3. receiver' = [at |-> "grow", dest |-> receiver.dest, index |-> receiver.index,
                       last |-> receiver.last, ep |-> receiver.ep,
                       count |-> count[receiver.ep], freed |-> receiver.freed]
      BY <2>8, <2>b, <3>2 DEF AppendElement
    <3>4. receiver.ep \in Endpoints
      BY <3>2 DEF LoopTyped
    <3>5. "grow" \in InLoop /\ receiver.at \in InLoop /\ receiver.index \in Nat \ {0}
      BY <2>b, <3>2
    <3> HIDE DEF InLoop
    <3> QED BY <2>a, <3>3, <3>4, <3>5
  <2>9. CASE AppendEnd
    <3>2. receiver.at = "grow"
      BY <2>9 DEF AppendEnd
    <3>3. receiver' = [at |-> "loop", dest |-> receiver.dest, index |-> receiver.index,
                       last |-> receiver.last, ep |-> Null,
                       count |-> 0, freed |-> receiver.freed]
      BY <2>9, <2>b, <3>2 DEF AppendEnd
    <3>4. receiver.ep \in Endpoints
      BY <3>2 DEF LoopTyped
    <3>5. "loop" \in InLoop /\ receiver.at \in InLoop /\ receiver.index \in Nat \ {0}
      BY <2>b, <3>2
    <3> HIDE DEF InLoop
    <3> QED BY <2>a, <3>3, <3>4, <3>5
  <2> QED BY <1>1, <2>2, <2>3, <2>4, <2>5, <2>6, <2>7, <2>8, <2>9 DEF Deliver
<1>2. ASSUME NEW e \in Endpoints, registerEndpoint(e) PROVE LoopTyped'
  <2>1. app' = app /\ receiver' \in {receiver, [receiver EXCEPT !.freed = TRUE]}
        /\ (receiver = Waiting => receiver' = Waiting)
    BY <1>2 DEF registerEndpoint
  <2>2. /\ slots' \in Seq(Endpoints \cup {Null}) /\ Len(slots') \in Nat
        /\ Len(slots) <= Len(slots')
        /\ \A i \in 1 .. Len(slots) : slots'[i] = slots[i] \/ slots'[i] \in Endpoints
    <3>1. CASE UNCHANGED slots
      BY <3>1, <1>0
    <3>2. CASE size < Len(slots) /\ slots' = [slots EXCEPT ![size + 1] = e]
      <4>1. size + 1 \in 1 .. Len(slots)
        BY <3>2, <1>0
      <4>2. slots' \in Seq(Endpoints \cup {Null}) /\ Len(slots') = Len(slots)
        BY <3>2, <4>1, <1>0, ExceptSeq
      <4> QED BY <3>2, <4>1, <4>2, <1>0
    <3>3. CASE ~(size < Len(slots)) /\ slots' = slots \o <<e>> \o [i \in 1 .. size - 1 |-> Null]
      <4>1. /\ slots' \in Seq(Endpoints \cup {Null}) /\ size + 1 <= Len(slots')
            /\ \A i \in 1 .. size : slots'[i] = slots[i]
        BY <3>3, EntryAdded DEF RegistryInv
      <4>2. size = Len(slots)
        <5>1. ~(size < Len(slots))
          BY <3>3
        <5>2. size \in 0 .. Len(slots) /\ Len(slots) \in Nat
          BY <1>0
        <5> QED BY <5>1, <5>2
      <4>3. Len(slots') \in Nat
        BY <4>1, LenProperties
      <4>4. Len(slots) <= Len(slots')
        BY <4>1, <4>2, <4>3, <1>0
      <4> QED BY <4>1, <4>2, <4>3, <4>4
    <3> QED BY <1>2, <3>1, <3>2, <3>3 DEF registerEndpoint
  <2>3. CASE receiver = Waiting
    BY <2>1, <2>3 DEF LoopTyped
  <2>4. CASE receiver # Waiting
    <3>1. /\ receiver'.at = receiver.at /\ receiver'.index = receiver.index
          /\ receiver'.last = receiver.last /\ receiver'.ep = receiver.ep
          /\ receiver' = [at |-> receiver'.at, dest |-> receiver'.dest, index |-> receiver'.index,
                          last |-> receiver'.last, ep |-> receiver'.ep,
                          count |-> receiver'.count, freed |-> receiver'.freed]
      BY <2>1, <2>4 DEF LoopTyped
    <3>2. receiver'.last \in 0 .. Len(slots')
      BY <2>2, <2>4, <3>1, <1>0 DEF LoopTyped
    <3>3. \A i \in 1 .. receiver'.last : slots'[i] \in Endpoints
      <4>1. receiver.last \in 0 .. Len(slots)
        BY <2>4 DEF LoopTyped
      <4> QED BY <2>2, <2>4, <3>1, <4>1, <1>0 DEF LoopTyped
    <3> QED BY <2>1, <2>4, <3>1, <3>2, <3>3 DEF LoopTyped
  <2> QED BY <2>3, <2>4
<1>3. ASSUME NEW e \in Endpoints, unregisterEndpoint(e) PROVE LoopTyped'
  <2>1. PICK i \in 1 .. size : EraseSlot(i)
    BY <1>3 DEF unregisterEndpoint, Unregister
  <2>2. UNCHANGED <<app, receiver>>
    BY <1>3 DEF unregisterEndpoint, Unregister
  <2>3. slots' = [j \in DOMAIN slots |-> IF j \in i .. size - 1 THEN slots[j + 1] ELSE slots[j]]
    BY <2>1 DEF EraseSlot
  <2>4. \A j \in 1 .. Len(slots) : slots'[j] = slots[j] \/ slots'[j] \in Endpoints
    <3>1. \A j \in i .. size - 1 : j + 1 \in 1 .. size
      BY <1>0
    <3> QED BY <2>3, <3>1, <1>0
  <2>5. Len(slots') = Len(slots)
    <3>1. slots' \in [1 .. Len(slots) -> Endpoints \cup {Null}]
      <4>1. \A j \in 1 .. Len(slots) : slots[j] \in Endpoints \cup {Null}
        BY <1>0, ElementOfSeq
      <4>2. \A j \in i .. size - 1 : j + 1 \in 1 .. Len(slots)
        BY <1>0
      <4> QED BY <2>3, <4>1, <4>2, <1>0
    <3> QED BY <3>1, <1>0
  <2>6. CASE receiver = Waiting
    BY <2>2, <2>6 DEF LoopTyped
  <2>7. CASE receiver # Waiting
    <3>1. receiver.last \in 0 .. Len(slots) /\ \A j \in 1 .. receiver.last : j \in 1 .. Len(slots)
      BY <2>7, <1>0 DEF LoopTyped
    <3>2. \A j \in 1 .. receiver.last : slots'[j] \in Endpoints
      BY <2>4, <2>7, <3>1 DEF LoopTyped
    <3> QED BY <2>2, <2>5, <2>7, <3>1, <3>2 DEF LoopTyped
  <2> QED BY <2>6, <2>7
<1>4. CASE EndCallbackChange \/ PollEnd \/ UNCHANGED vars
           \/ (\E e \in Endpoints : PollFront(e))
           \/ (\E e \in Changing, op \in {"set", "clear"} : BeginCallbackChange(e, op))
  <2>1. UNCHANGED <<slots, receiver>>
    BY <1>4 DEF EndCallbackChange, PollEnd, PollFront, BeginCallbackChange, vars, registry
  <2>2. \/ app' = app \/ app' = Free
        \/ \E n : \E e \in Endpoints, op \in {"set", "clear", "shrink"} :
             app' = [op |-> op, ep |-> e, count |-> n]
    BY <1>4, RegistryAssumption DEF EndCallbackChange, PollEnd, PollFront, BeginCallbackChange, vars
  <2> QED BY <2>1, <2>2 DEF LoopTyped
<1> QED BY <1>1, <1>2, <1>3, <1>4 DEF Next, Application

-----------------------------------------------------------------------------
(* What the two tasks have in hand when they are in a buffer.              *)

Growing(e) == receiver.at = "grow" /\ receiver.ep = e

Shrinking(e) == app.op = "shrink" /\ app.ep = e

BuffersTyped ==
  /\ bundles \in Nat
  /\ cells \in [Endpoints -> Seq(Nat)] /\ count \in [Endpoints -> Nat]
  /\ appended \in [Endpoints -> Seq(Nat)] /\ polled \in [Endpoints -> Seq(Nat)]
  /\ \A e \in Endpoints : count[e] <= Len(cells[e])
  /\ receiver.at = "grow" => /\ receiver.count \in Nat
                             /\ receiver.count + 1 <= Len(cells[receiver.ep])
  /\ app.op = "shrink" => /\ app.count \in Nat \ {0}
                          /\ app.count <= Len(cells[app.ep])

InHand(e) ==
  /\ ~(Growing(e) /\ Shrinking(e))
  /\ Growing(e) => /\ receiver.count = count[e]
                   /\ appended[e] = polled[e] \o SubSeq(cells[e], 1, count[e] + 1)
  /\ Shrinking(e) => /\ app.count = count[e]
                     /\ appended[e] = polled[e] \o SubSeq(cells[e], 1, count[e] - 1)
  /\ ~Growing(e) /\ ~Shrinking(e) => appended[e] = polled[e] \o SubSeq(cells[e], 1, count[e])

BufferInv == BuffersTyped /\ \A e \in Endpoints \ overlapped : InHand(e)

LEMMA BufferInit == Init => BufferInv
<1> SUFFICES ASSUME Init PROVE BufferInv
  OBVIOUS
<1>1. /\ cells = [e \in Endpoints |-> <<>>] /\ count = [e \in Endpoints |-> 0]
      /\ appended = [e \in Endpoints |-> <<>>] /\ polled = [e \in Endpoints |-> <<>>]
      /\ bundles = 0 /\ receiver.at = "idle" /\ app.op = "none"
  BY DEF Init, Waiting, Free
<1>2. <<>> \in Seq(Nat) /\ Len(<<>>) = 0 /\ SubSeq(<<>>, 1, 0) = <<>> /\ <<>> \o <<>> = <<>>
  OBVIOUS
<1>3. BuffersTyped
  BY <1>1, <1>2 DEF BuffersTyped
<1>4. \A e \in Endpoints : InHand(e)
  BY <1>1, <1>2 DEF InHand, Growing, Shrinking
<1> QED BY <1>3, <1>4 DEF BufferInv

LEMMA Reassociated ==
  ASSUME NEW p \in Seq(Nat), NEW q \in Seq(Nat), NEW b \in Nat
  PROVE  /\ Append(p \o q, b) = p \o Append(q, b)
         /\ Append(p, b) \o q = p \o (<<b>> \o q)
         /\ Append(p, b) \in Seq(Nat)
<1>1. <<b>> \in Seq(Nat) /\ p \o q \in Seq(Nat)
  OBVIOUS
<1>2. /\ Append(p \o q, b) = (p \o q) \o <<b>>
      /\ Append(q, b) = q \o <<b>> /\ Append(p, b) = p \o <<b>>
  BY <1>1, AppendIsConcat
<1>3. (p \o q) \o <<b>> = p \o (q \o <<b>>) /\ (p \o <<b>>) \o q = p \o (<<b>> \o q)
  BY <1>1, ConcatAssociative, SMTT(20)
<1>4. Append(p, b) \in Seq(Nat)
  BY AppendProperties
<1> QED BY <1>2, <1>3, <1>4

(* A step that is in no buffer leaves what is in hand as it is.            *)
LEMMA ElsewhereNothingHappens ==
  ASSUME BufferInv, UNCHANGED <<buffers, bufferHistory>>, bundles' \in Nat,
         \/ receiver.at # "grow" /\ receiver'.at # "grow"
         \/ /\ receiver'.at = receiver.at /\ receiver'.ep = receiver.ep
            /\ receiver'.count = receiver.count,
         app' = app \/ (app.op # "shrink" /\ app'.op # "shrink")
  PROVE  BufferInv'
<1>1. UNCHANGED <<cells, count, appended, polled, overlapped>>
  BY DEF buffers, bufferHistory
<1>2. BuffersTyped'
  BY <1>1 DEF BufferInv, BuffersTyped
<1>3. ASSUME NEW e \in Endpoints \ overlapped PROVE InHand(e)'
  <2>1. InHand(e)
    BY DEF BufferInv
  <2>2. /\ (Growing(e) <=> Growing(e)') /\ (Growing(e) => receiver'.count = receiver.count)
        /\ (Shrinking(e) <=> Shrinking(e)') /\ (Shrinking(e) => app' = app)
    BY DEF Growing, Shrinking
  <2> QED BY <1>1, <2>1, <2>2 DEF InHand
<1> QED BY <1>1, <1>2, <1>3 DEF BufferInv

LEMMA AppendElementStep ==
  ASSUME LoopTyped, BufferInv, AppendElement
  PROVE  BufferInv'
<1> DEFINE e == receiver.ep
           n == count[e]
           t == Put(cells[e], n, bundles)
<1>1. e \in Endpoints /\ receiver.at = "append"
  BY DEF AppendElement, LoopTyped, InLoop
<1>2. /\ cells \in [Endpoints -> Seq(Nat)] /\ count \in [Endpoints -> Nat]
      /\ appended \in [Endpoints -> Seq(Nat)] /\ polled \in [Endpoints -> Seq(Nat)]
      /\ bundles \in Nat /\ \A f \in Endpoints : count[f] <= Len(cells[f]) /\ Len(cells[f]) \in Nat
  BY LenProperties DEF BufferInv, BuffersTyped
<1>3. /\ t \in Seq(Nat) /\ Len(t) >= Len(cells[e]) /\ Len(t) >= n + 1 /\ Len(t) \in Nat
      /\ SubSeq(t, 1, n + 1) = Append(SubSeq(cells[e], 1, n), bundles)
  <2>1. cells[e] \in Seq(Nat) /\ n \in 0 .. Len(cells[e]) /\ bundles \in Nat
    BY <1>1, <1>2
  <2> HIDE DEF e, n
  <2> QED BY <2>1, PutAppends
<1> HIDE DEF t
<1>4. /\ cells' = [cells EXCEPT ![e] = t]
      /\ receiver' = [receiver EXCEPT !.at = "grow", !.count = n]
      /\ appended' = [appended EXCEPT ![e] = Append(@, bundles)]
      /\ overlapped' = IF Shrinking(e) THEN overlapped \cup {e} ELSE overlapped
      /\ UNCHANGED <<count, app, bundles, polled>>
  BY DEF AppendElement, t, Shrinking
<1>5. /\ cells' \in [Endpoints -> Seq(Nat)] /\ cells'[e] = t
      /\ \A f \in Endpoints \ {e} : cells'[f] = cells[f]
  BY <1>1, <1>2, <1>3, <1>4
<1>6. receiver'.at = "grow" /\ receiver'.ep = e /\ receiver'.count = n
  <2>1. receiver = [at |-> receiver.at, dest |-> receiver.dest, index |-> receiver.index,
                    last |-> receiver.last, ep |-> receiver.ep,
                    count |-> receiver.count, freed |-> receiver.freed]
    BY <1>1 DEF LoopTyped, Waiting
  <2> QED BY <1>4, <2>1
<1>7. /\ Append(appended[e], bundles) \in Seq(Nat)
      /\ appended' \in [Endpoints -> Seq(Nat)] /\ appended'[e] = Append(appended[e], bundles)
      /\ \A f \in Endpoints \ {e} : appended'[f] = appended[f]
  <2>1. Append(appended[e], bundles) \in Seq(Nat)
    BY <1>1, <1>2, AppendProperties
  <2> QED BY <2>1, <1>1, <1>2, <1>4
<1> HIDE DEF e
<1>8. BuffersTyped'
  <2>1. \A f \in Endpoints : Len(cells'[f]) >= Len(cells[f]) /\ Len(cells'[f]) \in Nat
    <3> TAKE f \in Endpoints
    <3>1. CASE f = e
      <4>1. cells'[f] = t /\ cells[f] = cells[e]
        BY <3>1, <1>5
      <4> QED BY <4>1, <1>3
    <3>2. CASE f # e
      <4>1. cells'[f] = cells[f]
        BY <3>2, <1>5
      <4> QED BY <4>1, <1>2
    <3> QED BY <3>1, <3>2
  <2>2. \A f \in Endpoints : count'[f] <= Len(cells'[f])
    BY <2>1, <1>2, <1>4
  <2>3. receiver'.count \in Nat /\ receiver'.count + 1 <= Len(cells'[receiver'.ep])
    BY <1>1, <1>2, <1>3, <1>5, <1>6
  <2>4. app'.op = "shrink" => app'.count \in Nat \ {0} /\ app'.count <= Len(cells'[app'.ep])
    <3> SUFFICES ASSUME app.op = "shrink"
                 PROVE  app.count \in Nat \ {0} /\ app.count <= Len(cells'[app.ep])
      BY <1>4
    <3>1. app.ep \in Endpoints
      BY DEF LoopTyped, Free
    <3>2. app.count \in Nat \ {0} /\ app.count <= Len(cells[app.ep])
      BY DEF BufferInv, BuffersTyped
    <3> QED BY <2>1, <1>2, <3>1, <3>2
  <2> QED BY <1>2, <1>4, <1>5, <1>7, <2>2, <2>3, <2>4 DEF BuffersTyped
<1>9. ASSUME NEW f \in Endpoints \ overlapped' PROVE InHand(f)'
  <2>1. InHand(f)
    BY <1>4 DEF BufferInv
  <2>2. (Shrinking(f) <=> Shrinking(f)') /\ ~Growing(f) /\ (Growing(f)' <=> f = e)
    BY <1>1, <1>4, <1>6 DEF Shrinking, Growing
  <2>3. CASE f = e
    <3>1. ~Shrinking(e)
      BY <2>3, <1>4
    <3>2. appended[e] = polled[e] \o SubSeq(cells[e], 1, n)
      BY <3>1, <2>1, <2>2, <2>3 DEF InHand
    <3>3. SubSeq(cells[e], 1, n) \in Seq(Nat)
      BY <1>1, <1>2, SubSeqProperties, ElementOfSeq, SMTT(20)
    <3>4. Append(appended[e], bundles) = polled[e] \o Append(SubSeq(cells[e], 1, n), bundles)
      <4> DEFINE q == SubSeq(cells[e], 1, n)
      <4>1. polled[e] \in Seq(Nat) /\ q \in Seq(Nat) /\ bundles \in Nat
        BY <1>1, <1>2, <3>3
      <4>2. appended[e] = polled[e] \o q
        BY <3>2
      <4> HIDE DEF q
      <4>3. Append(polled[e] \o q, bundles) = polled[e] \o Append(q, bundles)
        BY <4>1, Reassociated
      <4> QED BY <4>2, <4>3 DEF q
    <3>5. appended'[e] = polled'[e] \o SubSeq(cells'[e], 1, count'[e] + 1)
      BY <1>3, <1>4, <1>5, <1>7, <3>4
    <3> QED BY <2>2, <2>3, <3>1, <3>5, <1>4, <1>6 DEF InHand
  <2>4. CASE f # e
    BY <2>1, <2>2, <2>4, <1>4, <1>5, <1>7 DEF InHand
  <2> QED BY <2>3, <2>4
<1> QED BY <1>8, <1>9 DEF BufferInv

LEMMA PollFrontStep ==
  ASSUME LoopTyped, BufferInv, NEW e \in Endpoints, PollFront(e)
  PROVE  BufferInv'
<1> DEFINE n == count[e]
           t == Moved(cells[e], n)
<1>2. /\ cells \in [Endpoints -> Seq(Nat)] /\ count \in [Endpoints -> Nat]
      /\ appended \in [Endpoints -> Seq(Nat)] /\ polled \in [Endpoints -> Seq(Nat)]
      /\ bundles \in Nat /\ \A f \in Endpoints : count[f] <= Len(cells[f]) /\ Len(cells[f]) \in Nat
  BY LenProperties DEF BufferInv, BuffersTyped
<1>1. n \in 1 .. Len(cells[e])
  BY <1>2 DEF PollFront
<1>3. /\ t \in Seq(Nat) /\ Len(t) = Len(cells[e]) /\ cells[e][1] \in Nat
      /\ SubSeq(cells[e], 1, n) = <<cells[e][1]>> \o SubSeq(t, 1, n - 1)
  <2>1. cells[e] \in Seq(Nat)
    BY <1>2
  <2> HIDE DEF n
  <2> QED BY <2>1, <1>1, MovedDropsFirst
<1>4. /\ cells' = [cells EXCEPT ![e] = t]
      /\ app.op = "none" /\ app'.op = "shrink" /\ app'.ep = e /\ app'.count = n
      /\ polled' = [polled EXCEPT ![e] = Append(@, cells[e][1])]
      /\ overlapped' = IF Growing(e) THEN overlapped \cup {e} ELSE overlapped
      /\ UNCHANGED <<count, receiver, bundles, appended>>
  BY <1>2 DEF PollFront, Moved, Growing, Free
<1> HIDE DEF t
<1>5. /\ cells' \in [Endpoints -> Seq(Nat)] /\ cells'[e] = t
      /\ \A f \in Endpoints \ {e} : cells'[f] = cells[f]
  BY <1>2, <1>3, <1>4
<1>7. /\ polled' \in [Endpoints -> Seq(Nat)] /\ polled'[e] = Append(polled[e], cells[e][1])
      /\ \A f \in Endpoints \ {e} : polled'[f] = polled[f]
  <2>1. Append(polled[e], cells[e][1]) \in Seq(Nat)
    BY <1>2, <1>3, AppendProperties
  <2> QED BY <2>1, <1>2, <1>4
<1>8. BuffersTyped'
  <2>1. \A f \in Endpoints : Len(cells'[f]) = Len(cells[f])
    BY <1>3, <1>5
  <2>2. \A f \in Endpoints : count'[f] <= Len(cells'[f])
    BY <2>1, <1>2, <1>4
  <2>3. receiver'.at = "grow" => /\ receiver'.count \in Nat
                                 /\ receiver'.count + 1 <= Len(cells'[receiver'.ep])
    <3> SUFFICES ASSUME receiver.at = "grow"
                 PROVE  receiver.count \in Nat /\ receiver.count + 1 <= Len(cells'[receiver.ep])
      BY <1>4
    <3>1. receiver.ep \in Endpoints
      BY DEF LoopTyped, InLoop
    <3> QED BY <2>1, <3>1 DEF BufferInv, BuffersTyped
  <2>4. app'.count \in Nat \ {0} /\ app'.count <= Len(cells'[app'.ep])
    BY <1>1, <1>2, <1>4, <2>1
  <2> QED BY <1>2, <1>4, <1>5, <1>7, <2>2, <2>3, <2>4 DEF BuffersTyped
<1>9. ASSUME NEW f \in Endpoints \ overlapped' PROVE InHand(f)'
  <2>1. InHand(f)
    BY <1>4 DEF BufferInv
  <2>2. (Growing(f) <=> Growing(f)') /\ ~Shrinking(f) /\ (Shrinking(f)' <=> f = e)
    BY <1>4 DEF Shrinking, Growing
  <2>3. CASE f = e
    <3>1. ~Growing(e)
      BY <2>3, <1>4
    <3>2. appended[e] = polled[e] \o SubSeq(cells[e], 1, n)
      BY <3>1, <2>1, <2>2, <2>3 DEF InHand
    <3>3. SubSeq(t, 1, n - 1) \in Seq(Nat)
      <4>1. \A i \in 1 .. n - 1 : t[i] \in Nat
        <5> TAKE i \in 1 .. n - 1
        <5>1. n \in Nat /\ Len(cells[e]) \in Nat
          BY <1>2
        <5>2. i \in 1 .. Len(t)
          BY <5>1, <1>1, <1>3
        <5> QED BY <5>2, <1>3, ElementOfSeq
      <4> QED BY <4>1, <1>1, <1>2, <1>3, SubSeqProperties, SMTT(20)
    <3>4. Append(polled[e], cells[e][1]) \o SubSeq(t, 1, n - 1)
            = polled[e] \o (<<cells[e][1]>> \o SubSeq(t, 1, n - 1))
      <4> DEFINE q == SubSeq(t, 1, n - 1)
                 b == cells[e][1]
      <4>1. polled[e] \in Seq(Nat) /\ q \in Seq(Nat) /\ b \in Nat
        BY <1>2, <1>3, <3>3
      <4> HIDE DEF q, b
      <4>2. Append(polled[e], b) \o q = polled[e] \o (<<b>> \o q)
        BY <4>1, Reassociated
      <4> QED BY <4>2 DEF q, b
    <3>5. appended'[e] = polled'[e] \o SubSeq(cells'[e], 1, count'[e] - 1)
      BY <1>3, <1>4, <1>5, <1>7, <3>2, <3>4
    <3> QED BY <2>2, <2>3, <3>1, <3>5, <1>4 DEF InHand
  <2>4. CASE f # e
    BY <2>1, <2>2, <2>4, <1>4, <1>5, <1>7 DEF InHand
  <2> QED BY <2>3, <2>4
<1> QED BY <1>8, <1>9 DEF BufferInv

LEMMA AppendEndStep ==
  ASSUME LoopTyped, BufferInv, AppendEnd
  PROVE  BufferInv'
<1> DEFINE e == receiver.ep
<1>1. e \in Endpoints /\ receiver.at = "grow"
  BY DEF AppendEnd, LoopTyped, InLoop
<1>2. /\ receiver.count \in Nat /\ receiver.count + 1 <= Len(cells[e])
      /\ count \in [Endpoints -> Nat]
  BY <1>1 DEF BufferInv, BuffersTyped
<1>3. /\ count' = [count EXCEPT ![e] = receiver.count + 1]
      /\ receiver' = [receiver EXCEPT !.at = "loop", !.ep = Null, !.count = 0]
      /\ UNCHANGED <<cells, app, bundles, appended, polled, overlapped>>
  BY DEF AppendEnd, bufferHistory
<1>4. receiver'.at = "loop"
  <2>1. receiver = [at |-> receiver.at, dest |-> receiver.dest, index |-> receiver.index,
                    last |-> receiver.last, ep |-> receiver.ep,
                    count |-> receiver.count, freed |-> receiver.freed]
    BY <1>1 DEF LoopTyped, Waiting
  <2> QED BY <1>3, <2>1
<1>5. /\ count' \in [Endpoints -> Nat] /\ count'[e] = receiver.count + 1
      /\ \A f \in Endpoints \ {e} : count'[f] = count[f]
  BY <1>1, <1>2, <1>3
<1>6. BuffersTyped'
  <2>1. \A f \in Endpoints : count'[f] <= Len(cells[f])
    BY <1>2, <1>5 DEF BufferInv, BuffersTyped
  <2> QED BY <1>3, <1>4, <1>5, <2>1 DEF BufferInv, BuffersTyped
<1>7. ASSUME NEW f \in Endpoints \ overlapped' PROVE InHand(f)'
  <2>1. InHand(f)
    BY <1>3 DEF BufferInv
  <2>2. (Shrinking(f) <=> Shrinking(f)') /\ ~Growing(f)' /\ (Growing(f) <=> f = e)
    BY <1>1, <1>3, <1>4 DEF Shrinking, Growing
  <2>3. CASE f = e
    <3>1. ~Shrinking(f)' /\ count'[f] = count[f] + 1
      BY <2>1, <2>2, <2>3, <1>5 DEF InHand
    <3>2. appended'[f] = polled'[f] \o SubSeq(cells'[f], 1, count[f] + 1)
      BY <2>1, <2>2, <2>3, <1>3 DEF InHand
    <3> QED BY <2>2, <3>1, <3>2 DEF InHand
  <2>4. CASE f # e
    BY <2>1, <2>2, <2>4, <1>3, <1>5 DEF InHand
  <2> QED BY <2>3, <2>4
<1> QED BY <1>3, <1>6, <1>7 DEF BufferInv

LEMMA PollEndStep ==
  ASSUME LoopTyped, BufferInv, PollEnd
  PROVE  BufferInv'
<1> DEFINE e == app.ep
<1>1. e \in Endpoints /\ app.op = "shrink"
  BY DEF PollEnd, LoopTyped, Free
<1>2. /\ app.count \in Nat \ {0} /\ app.count <= Len(cells[e]) /\ Len(cells[e]) \in Nat
      /\ count \in [Endpoints -> Nat]
  BY <1>1, LenProperties DEF BufferInv, BuffersTyped
<1>3. /\ count' = [count EXCEPT ![e] = app.count - 1]
      /\ app'.op = "none"
      /\ UNCHANGED <<cells, receiver, bundles, appended, polled, overlapped>>
  BY DEF PollEnd, bufferHistory, Free
<1>4. app.count - 1 \in Nat /\ app.count - 1 <= Len(cells[e])
  BY <1>2
<1>5. /\ count' \in [Endpoints -> Nat] /\ count'[e] = app.count - 1
      /\ \A f \in Endpoints \ {e} : count'[f] = count[f]
  BY <1>1, <1>2, <1>3, <1>4
<1>6. BuffersTyped'
  <2>1. \A f \in Endpoints : count'[f] <= Len(cells[f])
    BY <1>4, <1>5 DEF BufferInv, BuffersTyped
  <2> QED BY <1>3, <1>5, <2>1 DEF BufferInv, BuffersTyped
<1>7. ASSUME NEW f \in Endpoints \ overlapped' PROVE InHand(f)'
  <2>1. InHand(f)
    BY <1>3 DEF BufferInv
  <2>2. (Growing(f) <=> Growing(f)') /\ ~Shrinking(f)' /\ (Shrinking(f) <=> f = e)
    BY <1>1, <1>3 DEF Shrinking, Growing
  <2>3. CASE f = e
    <3>1. ~Growing(f)' /\ count'[f] = count[f] - 1
      BY <2>1, <2>2, <2>3, <1>5 DEF InHand
    <3>2. appended'[f] = polled'[f] \o SubSeq(cells'[f], 1, count[f] - 1)
      BY <2>1, <2>2, <2>3, <1>3 DEF InHand
    <3> QED BY <2>2, <3>1, <3>2 DEF InHand
  <2>4. CASE f # e
    BY <2>1, <2>2, <2>4, <1>3, <1>5 DEF InHand
  <2> QED BY <2>3, <2>4
<1> QED BY <1>3, <1>6, <1>7 DEF BufferInv

LEMMA BufferNext ==
  ASSUME LoopTyped, BufferInv, [Next]_vars
  PROVE  BufferInv'
<1>0. /\ bundles \in Nat
      /\ receiver.at \in InLoop =>
           receiver = [at |-> receiver.at, dest |-> receiver.dest, index |-> receiver.index,
                       last |-> receiver.last, ep |-> receiver.ep,
                       count |-> receiver.count, freed |-> receiver.freed]
  BY DEF BufferInv, BuffersTyped, LoopTyped, Waiting, InLoop
<1>1. ASSUME NEW dest \in Uris, StartDelivery(dest) PROVE BufferInv'
  BY <1>1, <1>0, ElsewhereNothingHappens DEF StartDelivery, Waiting
<1>2. CASE NextEndpoint \/ ReadFreedVector \/ EndDelivery
  <2>1. receiver.at = "loop" /\ receiver'.at # "grow"
    <3>1. receiver.at = "loop"
      BY <1>2 DEF NextEndpoint, ReadFreedVector, EndDelivery
    <3>2. CASE NextEndpoint
      <4>1. CASE Uri[slots[receiver.index]] = receiver.dest
        BY <3>1, <3>2, <4>1, <1>0 DEF NextEndpoint, InLoop
      <4>2. CASE Uri[slots[receiver.index]] # receiver.dest
        BY <3>1, <3>2, <4>2, <1>0 DEF NextEndpoint, InLoop
      <4> QED BY <4>1, <4>2
    <3>3. CASE ReadFreedVector
      <4>1. receiver' = receiver
        BY <3>3 DEF ReadFreedVector
      <4> QED BY <3>1, <4>1
    <3>4. CASE EndDelivery
      <4>1. receiver'.at = "idle"
        BY <3>4 DEF EndDelivery, Waiting
      <4> QED BY <3>1, <4>1
    <3> QED BY <1>2, <3>1, <3>2, <3>3, <3>4
  <2>2. UNCHANGED <<buffers, bufferHistory, bundles, app>>
    BY <1>2 DEF NextEndpoint, ReadFreedVector, EndDelivery
  <2> QED BY <2>1, <2>2, <1>0, ElsewhereNothingHappens
<1>3. CASE TestCallback \/ CallCallback
  <2>1. receiver.at # "grow" /\ receiver'.at # "grow"
    BY <1>3, <1>0 DEF TestCallback, CallCallback, InLoop
  <2>2. UNCHANGED <<buffers, bufferHistory, bundles, app>>
    BY <1>3 DEF TestCallback, CallCallback
  <2> QED BY <2>1, <2>2, <1>0, ElsewhereNothingHappens
<1>4. ASSUME NEW e \in Endpoints, registerEndpoint(e) PROVE BufferInv'
  <2>1. UNCHANGED <<buffers, bufferHistory, bundles, app>>
    BY <1>4 DEF registerEndpoint
  <2>2. receiver' = receiver \/ (receiver # Waiting /\ receiver' = [receiver EXCEPT !.freed = TRUE])
    BY <1>4 DEF registerEndpoint
  <2>3. receiver'.at = receiver.at /\ receiver'.ep = receiver.ep /\ receiver'.count = receiver.count
    BY <2>2 DEF LoopTyped
  <2> QED BY <2>1, <2>3, <1>0, ElsewhereNothingHappens
<1>5. ASSUME NEW e \in Endpoints, unregisterEndpoint(e) PROVE BufferInv'
  <2>1. UNCHANGED <<buffers, bufferHistory, bundles, app, receiver>>
    BY <1>5 DEF unregisterEndpoint, Unregister
  <2> QED BY <2>1, <1>0, ElsewhereNothingHappens
<1>6. ASSUME NEW e \in Changing, NEW op \in {"set", "clear"}, BeginCallbackChange(e, op)
      PROVE  BufferInv'
  <2>1. UNCHANGED <<buffers, bufferHistory, bundles, receiver>>
    BY <1>6 DEF BeginCallbackChange
  <2>2. app.op # "shrink" /\ app'.op # "shrink"
    BY <1>6 DEF BeginCallbackChange, Free
  <2> QED BY <2>1, <2>2, <1>0, ElsewhereNothingHappens
<1>7. CASE EndCallbackChange
  <2>1. UNCHANGED <<buffers, bufferHistory, bundles, receiver>>
    BY <1>7 DEF EndCallbackChange
  <2>2. app.op # "shrink" /\ app'.op # "shrink"
    BY <1>7 DEF EndCallbackChange, Free
  <2> QED BY <2>1, <2>2, <1>0, ElsewhereNothingHappens
<1>8. CASE UNCHANGED vars
  <2>1. UNCHANGED <<buffers, bufferHistory, bundles, receiver, app>>
    BY <1>8 DEF vars
  <2> QED BY <2>1, <1>0, ElsewhereNothingHappens
<1> QED BY <1>1, <1>2, <1>3, <1>4, <1>5, <1>6, <1>7, <1>8, AppendElementStep, AppendEndStep,
           PollFrontStep, PollEndStep DEF Next, Deliver, Application

(* However often bundles arrive while an endpoint is polled, unregistered  *)
(* or given a callback: as long as poll and a delivery were never in its   *)
(* buffer at the same time, it hands out what it buffered, in order and    *)
(* nothing twice.                                                          *)
THEOREM BuffersStayInOrder == Spec => []BuffersInOrder
<1>1. BufferInv => BuffersInOrder
  BY DEF BufferInv, InHand, BuffersInOrder, Growing, Shrinking, Kept
<1>2. Init => RegistryInv /\ LoopTyped /\ BufferInv
  BY RegistryInit, LoopInit, BufferInit
<1>3. RegistryInv /\ LoopTyped /\ BufferInv /\ [Next]_vars
        => (RegistryInv /\ LoopTyped /\ BufferInv)'
  BY RegistryNext, LoopNext, BufferNext
<1> QED BY <1>1, <1>2, <1>3, PTL DEF Spec

-----------------------------------------------------------------------------
(* What an erasure costs the delivery it happens in.  The loop keeps an    *)
(* index and the size from when it began, so of the slots it still visits  *)
(* some are part of the vector (Coming) and some no longer (Outdated): an  *)
(* outdated slot holds an endpoint that is elsewhere too, or was erased.   *)
(* Every erasure adds at most one visit that is one too many, now or as an *)
(* outdated slot, and at most one endpoint that will not be visited.       *)

Visits(e) == got[e] + IF receiver.at = "test" /\ receiver.ep = e THEN 1 ELSE 0

Coming == {slots[k] : k \in {j \in receiver.index .. receiver.last : j <= size}}

Outdated == {j \in receiver.index .. receiver.last : j > size}

Expected(e) == Visits(e) + IF e \in Coming THEN 1 ELSE 0

(* The second visit of an endpoint, the third, and so on, as far as they   *)
(* happened or are coming.                                                 *)
Again == {d \in Endpoints \X Nat : 2 <= d[2] /\ d[2] <= Expected(d[1])}

Missed == {e \in through : Uri[e] = receiver.dest /\ Visits(e) = 0 /\ e \notin Coming}

HistoryTyped ==
  /\ got \in [Endpoints -> Nat] /\ erasures \in Nat /\ through \subseteq Endpoints

Accounts ==
  /\ IsFiniteSet(Again) /\ IsFiniteSet(Outdated) /\ IsFiniteSet(Missed)
  /\ Cardinality(Again) + Cardinality(Outdated) <= erasures
  /\ Cardinality(Missed) <= erasures

ErasureInv ==
  /\ HistoryTyped
  /\ receiver = Waiting => got = [e \in Endpoints |-> 0] /\ erasures = 0
  /\ receiver # Waiting => Accounts

LEMMA NotMore ==
  ASSUME NEW S, NEW T, IsFiniteSet(S), T \subseteq S
  PROVE  /\ IsFiniteSet(T) /\ Cardinality(T) \in Nat /\ Cardinality(S) \in Nat
         /\ Cardinality(T) <= Cardinality(S)
  BY FS_Subset, FS_CardinalityType

LEMMA OneMore ==
  ASSUME NEW S, NEW T, NEW x, IsFiniteSet(S), T \subseteq S \cup {x}
  PROVE  /\ IsFiniteSet(T) /\ Cardinality(T) \in Nat /\ Cardinality(S) \in Nat
         /\ Cardinality(T) <= Cardinality(S) + 1
<1>1. /\ IsFiniteSet(S \cup {x}) /\ Cardinality(S) \in Nat
      /\ Cardinality(S \cup {x}) <= Cardinality(S) + 1
  <2>1. Cardinality(S) \in Nat
    BY FS_CardinalityType
  <2>2. /\ IsFiniteSet(S \cup {x})
        /\ Cardinality(S \cup {x}) = IF x \in S THEN Cardinality(S) ELSE Cardinality(S) + 1
    BY FS_AddElement
  <2> QED BY <2>1, <2>2
<1>2. /\ IsFiniteSet(T) /\ Cardinality(T) \in Nat /\ Cardinality(S \cup {x}) \in Nat
      /\ Cardinality(T) <= Cardinality(S \cup {x})
  BY <1>1, NotMore
<1> QED BY <1>1, <1>2

LEMMA OneLess ==
  ASSUME NEW S, NEW T, NEW x \in S, IsFiniteSet(S), T \subseteq S \ {x}
  PROVE  /\ IsFiniteSet(T) /\ Cardinality(T) \in Nat /\ Cardinality(S) \in Nat
         /\ Cardinality(T) <= Cardinality(S) - 1
<1>1. /\ IsFiniteSet(S \ {x}) /\ Cardinality(S) \in Nat
      /\ Cardinality(S \ {x}) = Cardinality(S) - 1
  BY FS_RemoveElement, FS_CardinalityType
<1>2. /\ IsFiniteSet(T) /\ Cardinality(T) \in Nat /\ Cardinality(S \ {x}) \in Nat
      /\ Cardinality(T) <= Cardinality(S \ {x})
  BY <1>1, NotMore
<1> QED BY <1>1, <1>2

(* Three ways the accounts change: nothing is added, ...                   *)
LEMMA NothingAdded ==
  ASSUME Accounts, erasures \in Nat, erasures' = erasures,
         Again' \subseteq Again, Outdated' \subseteq Outdated, Missed' \subseteq Missed
  PROVE  Accounts'
<1>1. /\ IsFiniteSet(Again') /\ Cardinality(Again') \in Nat /\ Cardinality(Again) \in Nat
      /\ Cardinality(Again') <= Cardinality(Again)
  BY NotMore DEF Accounts
<1>2. /\ IsFiniteSet(Outdated') /\ Cardinality(Outdated') \in Nat /\ Cardinality(Outdated) \in Nat
      /\ Cardinality(Outdated') <= Cardinality(Outdated)
  BY NotMore DEF Accounts
<1>3. /\ IsFiniteSet(Missed') /\ Cardinality(Missed') \in Nat /\ Cardinality(Missed) \in Nat
      /\ Cardinality(Missed') <= Cardinality(Missed)
  BY NotMore DEF Accounts
<1>4. Cardinality(Again') + Cardinality(Outdated') <= erasures
  <2>1. Cardinality(Again) + Cardinality(Outdated) <= erasures
    BY DEF Accounts
  <2> QED BY <1>1, <1>2, <2>1
<1>5. Cardinality(Missed') <= erasures
  <2>1. Cardinality(Missed) <= erasures
    BY DEF Accounts
  <2> QED BY <1>3, <2>1
<1> QED BY <1>1, <1>2, <1>3, <1>4, <1>5 DEF Accounts

(* ... an outdated slot makes a visit more, ...                            *)
LEMMA OutdatedTurnsUp ==
  ASSUME Accounts, erasures \in Nat, erasures' = erasures, NEW d, NEW j \in Outdated,
         Again' \subseteq Again \cup {d}, Outdated' \subseteq Outdated \ {j},
         Missed' \subseteq Missed
  PROVE  Accounts'
<1>1. /\ IsFiniteSet(Again') /\ Cardinality(Again') \in Nat /\ Cardinality(Again) \in Nat
      /\ Cardinality(Again') <= Cardinality(Again) + 1
  BY OneMore DEF Accounts
<1>2. /\ IsFiniteSet(Outdated') /\ Cardinality(Outdated') \in Nat /\ Cardinality(Outdated) \in Nat
      /\ Cardinality(Outdated') <= Cardinality(Outdated) - 1
  BY OneLess DEF Accounts
<1>3. /\ IsFiniteSet(Missed') /\ Cardinality(Missed') \in Nat /\ Cardinality(Missed) \in Nat
      /\ Cardinality(Missed') <= Cardinality(Missed)
  BY NotMore DEF Accounts
<1>4. Cardinality(Again') + Cardinality(Outdated') <= erasures
  <2>1. Cardinality(Again) + Cardinality(Outdated) <= erasures
    BY DEF Accounts
  <2> QED BY <1>1, <1>2, <2>1
<1>5. Cardinality(Missed') <= erasures
  <2>1. Cardinality(Missed) <= erasures
    BY DEF Accounts
  <2> QED BY <1>3, <2>1
<1> QED BY <1>1, <1>2, <1>3, <1>4, <1>5 DEF Accounts

(* ... or an erasure pays for a visit, or an outdated slot, and for an     *)
(* endpoint that is missed.                                                *)
LEMMA ErasurePays ==
  ASSUME Accounts, erasures \in Nat, erasures' = erasures + 1, NEW d, NEW j, NEW m,
         \/ Again' \subseteq Again /\ Outdated' \subseteq Outdated \cup {j}
         \/ Again' \subseteq Again \cup {d} /\ Outdated' \subseteq Outdated,
         Missed' \subseteq Missed \cup {m}
  PROVE  Accounts'
<1>1. /\ IsFiniteSet(Again') /\ IsFiniteSet(Outdated')
      /\ Cardinality(Again') + Cardinality(Outdated') <= erasures + 1
  <2>0. Cardinality(Again) + Cardinality(Outdated) <= erasures
    BY DEF Accounts
  <2>1. CASE Again' \subseteq Again /\ Outdated' \subseteq Outdated \cup {j}
    <3>1. /\ IsFiniteSet(Again') /\ Cardinality(Again') \in Nat /\ Cardinality(Again) \in Nat
          /\ Cardinality(Again') <= Cardinality(Again)
      BY <2>1, NotMore DEF Accounts
    <3>2. /\ IsFiniteSet(Outdated') /\ Cardinality(Outdated') \in Nat
          /\ Cardinality(Outdated) \in Nat /\ Cardinality(Outdated') <= Cardinality(Outdated) + 1
      BY <2>1, OneMore DEF Accounts
    <3> QED BY <2>0, <3>1, <3>2
  <2>2. CASE Again' \subseteq Again \cup {d} /\ Outdated' \subseteq Outdated
    <3>1. /\ IsFiniteSet(Again') /\ Cardinality(Again') \in Nat /\ Cardinality(Again) \in Nat
          /\ Cardinality(Again') <= Cardinality(Again) + 1
      BY <2>2, OneMore DEF Accounts
    <3>2. /\ IsFiniteSet(Outdated') /\ Cardinality(Outdated') \in Nat
          /\ Cardinality(Outdated) \in Nat /\ Cardinality(Outdated') <= Cardinality(Outdated)
      BY <2>2, NotMore DEF Accounts
    <3> QED BY <2>0, <3>1, <3>2
  <2> QED BY <2>1, <2>2
<1>2. /\ IsFiniteSet(Missed') /\ Cardinality(Missed') \in Nat /\ Cardinality(Missed) \in Nat
      /\ Cardinality(Missed') <= Cardinality(Missed) + 1
  BY OneMore DEF Accounts
<1>3. Cardinality(Missed') <= erasures + 1
  <2>1. Cardinality(Missed) <= erasures
    BY DEF Accounts
  <2> QED BY <1>2, <2>1
<1> QED BY <1>1, <1>2, <1>3 DEF Accounts

LEMMA ExpectedTyped ==
  ASSUME HistoryTyped
  PROVE  \A e \in Endpoints : Visits(e) \in Nat /\ Expected(e) \in Nat
  BY DEF HistoryTyped, Visits, Expected

LEMMA NoneAgain ==
  ASSUME HistoryTyped, HistoryTyped', \A f \in Endpoints : Expected(f)' <= Expected(f)
  PROVE  Again' \subseteq Again
<1> SUFFICES ASSUME NEW d \in Again' PROVE d \in Again
  OBVIOUS
<1>1. d \in Endpoints \X Nat /\ 2 <= d[2] /\ d[2] <= Expected(d[1])'
  BY DEF Again
<1>2. d[1] \in Endpoints /\ d[2] \in Nat
  BY <1>1
<1>3. Expected(d[1]) \in Nat /\ Expected(d[1])' \in Nat
  BY <1>2, ExpectedTyped DEF HistoryTyped, Expected, Visits
<1>4. d[2] <= Expected(d[1])
  BY <1>1, <1>2, <1>3
<1> QED BY <1>1, <1>4 DEF Again

LEMMA OnceAgain ==
  ASSUME HistoryTyped, HistoryTyped', NEW e \in Endpoints,
         Expected(e)' <= Expected(e) + 1,
         \A f \in Endpoints \ {e} : Expected(f)' <= Expected(f)
  PROVE  Again' \subseteq Again \cup {<<e, Expected(e) + 1>>}
<1> SUFFICES ASSUME NEW d \in Again' PROVE d \in Again \cup {<<e, Expected(e) + 1>>}
  OBVIOUS
<1>1. d \in Endpoints \X Nat /\ 2 <= d[2] /\ d[2] <= Expected(d[1])'
  BY DEF Again
<1>2. d[1] \in Endpoints /\ d[2] \in Nat /\ d = <<d[1], d[2]>>
  BY <1>1
<1>3. Expected(d[1]) \in Nat /\ Expected(d[1])' \in Nat
  BY <1>2, ExpectedTyped DEF HistoryTyped, Expected, Visits
<1>4. CASE d[2] <= Expected(d[1])
  BY <1>1, <1>4 DEF Again
<1>5. CASE d[2] > Expected(d[1])
  <2>1. d[1] = e
    BY <1>1, <1>2, <1>3, <1>5
  <2>2. d[2] = Expected(e) + 1
    BY <1>1, <1>2, <1>3, <1>5, <2>1
  <2> QED BY <1>2, <2>1, <2>2
<1> QED BY <1>2, <1>3, <1>4, <1>5

(* A step of the loop in which every endpoint keeps its number of visits.  *)
LEMMA SameVisits ==
  ASSUME ErasureInv, HistoryTyped', receiver # Waiting, receiver' # Waiting,
         UNCHANGED <<slots, size, through, erasures>>,
         receiver'.index = receiver.index, receiver'.last = receiver.last,
         receiver'.dest = receiver.dest,
         \A e \in Endpoints : Visits(e)' = Visits(e)
  PROVE  ErasureInv'
<1>1. HistoryTyped /\ Accounts /\ erasures \in Nat /\ through \subseteq Endpoints
  BY DEF ErasureInv, HistoryTyped
<1>2. Coming' = Coming /\ Outdated' = Outdated
  BY DEF Coming, Outdated
<1>3. \A e \in Endpoints : Expected(e)' = Expected(e) /\ Expected(e) \in Nat
  BY <1>1, <1>2, ExpectedTyped DEF Expected
<1>4. Again' \subseteq Again
  BY <1>1, <1>3, NoneAgain
<1>5. Missed' \subseteq Missed
  BY <1>1, <1>2 DEF Missed
<1>6. Accounts'
  BY <1>1, <1>2, <1>4, <1>5, NothingAdded
<1> QED BY <1>6 DEF ErasureInv

LEMMA StartDeliveryAccounts ==
  ASSUME RegistryInv, LoopTyped, ErasureInv, NEW dest \in Uris, StartDelivery(dest)
  PROVE  ErasureInv'
<1>1. /\ receiver = Waiting /\ through' = Registered /\ UNCHANGED <<slots, size, erasures, got>>
      /\ receiver' = [at |-> "loop", dest |-> dest, index |-> 1, last |-> size,
                      ep |-> Null, count |-> 0, freed |-> FALSE]
  BY DEF StartDelivery, registry
<1>2. got = [e \in Endpoints |-> 0] /\ erasures = 0 /\ HistoryTyped
  BY <1>1 DEF ErasureInv
<1>3. Registered \subseteq Endpoints /\ size \in Nat
  BY DEF Registered, RegistryInv, SlotsTyped
<1>4. HistoryTyped'
  BY <1>1, <1>2, <1>3 DEF HistoryTyped
<1>5. /\ receiver'.at = "loop" /\ receiver'.index = 1 /\ receiver'.last = size
      /\ receiver' # Waiting
  BY <1>1 DEF Waiting
<1>6. Coming' = Registered
  BY <1>1, <1>3, <1>5 DEF Coming, Registered
<1>7. Outdated' = {}
  BY <1>1, <1>3, <1>5 DEF Outdated
<1>8. \A e \in Endpoints : Expected(e)' <= 1 /\ Expected(e)' \in Nat
  BY <1>1, <1>2, <1>5 DEF Expected, Visits
<1>9. Again' = {}
  <2> SUFFICES ASSUME NEW d \in Again' PROVE FALSE
    OBVIOUS
  <2>1. d \in Endpoints \X Nat /\ 2 <= d[2] /\ d[2] <= Expected(d[1])'
    BY DEF Again
  <2>2. d[1] \in Endpoints /\ d[2] \in Nat
    BY <2>1
  <2> QED BY <2>1, <2>2, <1>8
<1>10. Missed' = {}
  BY <1>1, <1>6 DEF Missed
<1>11. Accounts'
  BY <1>1, <1>2, <1>7, <1>9, <1>10, FS_EmptySet DEF Accounts
<1> QED BY <1>4, <1>5, <1>11 DEF ErasureInv

LEMMA NextEndpointAccounts ==
  ASSUME RegistryInv, LoopTyped, ErasureInv, NextEndpoint
  PROVE  ErasureInv'
<1> DEFINE p == receiver.index
<1>1. /\ receiver.at = "loop" /\ p <= receiver.last
      /\ UNCHANGED <<slots, size, got, erasures, through>>
  BY DEF NextEndpoint, registry, loopHistory
<1>2. /\ receiver # Waiting
      /\ receiver = [at |-> receiver.at, dest |-> receiver.dest, index |-> receiver.index,
                     last |-> receiver.last, ep |-> receiver.ep,
                     count |-> receiver.count, freed |-> receiver.freed]
      /\ p \in Nat \ {0} /\ receiver.last \in Nat /\ slots[p] \in Endpoints
  <2>1. receiver # Waiting
    BY <1>1 DEF Waiting
  <2>2. receiver.last \in 0 .. Len(slots) /\ Len(slots) \in Nat
    BY <2>1, LenProperties DEF LoopTyped, RegistryInv, SlotsTyped
  <2> QED BY <1>1, <2>1, <2>2 DEF LoopTyped
<1>a. PICK x \in Endpoints : x = slots[p]
  BY <1>2
<1>3. /\ HistoryTyped /\ Accounts /\ HistoryTyped' /\ erasures \in Nat
      /\ got \in [Endpoints -> Nat] /\ through \subseteq Endpoints
  BY <1>1, <1>2 DEF ErasureInv, HistoryTyped
<1>4. /\ receiver'.index = p + 1 /\ receiver'.last = receiver.last
      /\ receiver'.dest = receiver.dest /\ receiver' # Waiting
      /\ Uri[x] = receiver.dest => receiver'.at = "test" /\ receiver'.ep = x
      /\ Uri[x] # receiver.dest => receiver'.at = "loop"
  <2>1. CASE Uri[x] = receiver.dest
    <3>1. receiver' = [receiver EXCEPT !.at = "test", !.ep = x, !.index = p + 1]
      BY <2>1, <1>a DEF NextEndpoint
    <3> QED BY <3>1, <2>1, <1>2 DEF Waiting
  <2>2. CASE Uri[x] # receiver.dest
    <3>1. receiver' = [receiver EXCEPT !.index = p + 1]
      BY <2>2, <1>a DEF NextEndpoint
    <3> QED BY <3>1, <2>2, <1>1, <1>2 DEF Waiting
  <2> QED BY <2>1, <2>2
<1>5. size \in Nat /\ \A i, j \in 1 .. size : slots[i] = slots[j] => i = j
  BY DEF RegistryInv, RegistryConsistent, SlotsTyped
<1>6. Coming' \subseteq Coming /\ Coming \subseteq Coming' \cup {x} /\ Outdated' \subseteq Outdated
  <2>1. \A j : j \in p .. receiver.last <=> (j = p \/ j \in p + 1 .. receiver.last)
    BY <1>1, <1>2
  <2> QED BY <1>1, <1>a, <1>4, <2>1 DEF Coming, Outdated
<1>7. p <= size => x \in Coming /\ x \notin Coming'
  <2>1. ASSUME p <= size PROVE x \in Coming
    <3>1. p \in receiver.index .. receiver.last
      BY <1>1, <1>2
    <3> QED BY <2>1, <3>1, <1>a DEF Coming
  <2>2. ASSUME p <= size, x \in Coming' PROVE FALSE
    <3>1. PICK k \in p + 1 .. receiver.last : k <= size /\ slots[k] = x
      BY <2>2, <1>1, <1>4 DEF Coming
    <3>2. k \in 1 .. size /\ p \in 1 .. size /\ k # p
      BY <2>2, <3>1, <1>2, <1>5
    <3> QED BY <3>1, <3>2, <1>5, <1>a
  <2> QED BY <2>1, <2>2
<1>8. \A f \in Endpoints : Visits(f) = got[f]
                           /\ Visits(f)' = got[f] + IF Uri[x] = receiver.dest /\ f = x THEN 1 ELSE 0
  BY <1>1, <1>3, <1>4 DEF Visits
<1>9. Missed' \subseteq Missed
  <2> SUFFICES ASSUME NEW e \in Missed' PROVE e \in Missed
    OBVIOUS
  <2>1. e \in through /\ Uri[e] = receiver.dest /\ Visits(e)' = 0 /\ e \notin Coming'
    BY <1>1, <1>4 DEF Missed
  <2>2. e \in Endpoints /\ got[e] \in Nat
    BY <2>1, <1>3
  <2>3. e # x /\ Visits(e) = 0
    BY <2>1, <2>2, <1>8
  <2> QED BY <2>1, <2>3, <1>6 DEF Missed
<1>10. \A f \in Endpoints \ {x} : Expected(f)' <= Expected(f) /\ Expected(f) \in Nat
  <2> TAKE f \in Endpoints \ {x}
  <2>1. Visits(f)' = Visits(f) /\ Visits(f) \in Nat
    BY <1>3, <1>8
  <2>2. f \in Coming' => f \in Coming
    BY <1>6
  <2> QED BY <2>1, <2>2 DEF Expected
<1>11. CASE Uri[x] # receiver.dest \/ p <= size
  <2>1. Expected(x)' <= Expected(x)
    <3>1. got[x] \in Nat /\ Visits(x) = got[x]
      BY <1>2, <1>3, <1>8
    <3>2. CASE Uri[x] # receiver.dest
      <4>1. Visits(x)' = got[x] /\ (x \in Coming' => x \in Coming)
        BY <3>2, <1>2, <1>3, <1>6, <1>8
      <4> QED BY <3>1, <4>1 DEF Expected
    <3>3. CASE p <= size
      <4>1. Visits(x)' <= got[x] + 1 /\ Visits(x)' \in Nat
        BY <1>2, <1>8, <3>1
      <4>2. x \in Coming /\ x \notin Coming'
        BY <1>7, <3>3
      <4> QED BY <3>1, <4>1, <4>2 DEF Expected
    <3> QED BY <1>11, <3>2, <3>3
  <2>2. Again' \subseteq Again
    <3>1. \A f \in Endpoints : Expected(f)' <= Expected(f)
      BY <1>10, <2>1
    <3> QED BY <3>1, <1>3, NoneAgain
  <2>3. Accounts'
    BY <2>2, <1>1, <1>3, <1>6, <1>9, NothingAdded
  <2> QED BY <2>3, <1>3, <1>4 DEF ErasureInv
<1>12. CASE Uri[x] = receiver.dest /\ p > size
  <2>1. Expected(x)' <= Expected(x) + 1
    <3>1. got[x] \in Nat /\ Visits(x) = got[x] /\ Visits(x)' = got[x] + 1
      BY <1>2, <1>3, <1>8, <1>12
    <3>2. x \in Coming' => x \in Coming
      BY <1>6
    <3> QED BY <3>1, <3>2 DEF Expected
  <2>2. Again' \subseteq Again \cup {<<x, Expected(x) + 1>>}
    <3>1. \A f \in Endpoints \ {x} : Expected(f)' <= Expected(f)
      BY <1>10
    <3> QED BY <3>1, <2>1, <1>2, <1>3, OnceAgain
  <2>3. p \in Outdated /\ Outdated' \subseteq Outdated \ {p}
    <3>1. p \in p .. receiver.last /\ \A j \in p + 1 .. receiver.last : j # p /\ j \in p .. receiver.last
      BY <1>1, <1>2
    <3> QED BY <3>1, <1>1, <1>4, <1>12 DEF Outdated
  <2> HIDE DEF p
  <2>4. Accounts'
    BY <2>2, <2>3, <1>1, <1>3, <1>9, OutdatedTurnsUp
  <2> QED BY <2>4, <1>3, <1>4 DEF ErasureInv
<1> QED
  <2>1. p <= size \/ p > size
    BY <1>2, <1>5
  <2> QED BY <2>1, <1>11, <1>12

(* A new endpoint takes the slot behind the last: if the loop still comes  *)
(* there, it finds an endpoint instead of an outdated slot.                *)
LEMMA RegisterAccounts ==
  ASSUME RegistryInv, LoopTyped, ErasureInv, LoopTyped', NEW e \in Endpoints, registerEndpoint(e)
  PROVE  ErasureInv'
<1>1. /\ UNCHANGED <<got, erasures, through>>
      /\ \/ receiver' = receiver
         \/ receiver # Waiting /\ receiver' = [receiver EXCEPT !.freed = TRUE]
  BY DEF registerEndpoint, loopHistory
<1>2. HistoryTyped /\ HistoryTyped'
  BY <1>1 DEF ErasureInv, HistoryTyped
<1>3. CASE receiver = Waiting
  BY <1>1, <1>2, <1>3 DEF ErasureInv
<1>4. CASE receiver # Waiting
  <2>1. /\ receiver'.index = receiver.index /\ receiver'.last = receiver.last
        /\ receiver'.dest = receiver.dest /\ receiver'.at = receiver.at
        /\ receiver'.ep = receiver.ep /\ receiver' # Waiting
        /\ receiver.index \in Nat \ {0}
    BY <1>1, <1>4 DEF LoopTyped, Waiting, InLoop
  <2>2. \A f \in Endpoints : Visits(f)' = Visits(f)
    BY <1>1, <2>1 DEF Visits
  <2>3. CASE UNCHANGED <<slots, size>>
    BY <1>1, <1>2, <1>4, <2>1, <2>2, <2>3, SameVisits
  <2>4. CASE ~(UNCHANGED <<slots, size>>)
    <3>1. /\ size' = size + 1 /\ size \in Nat
          /\ \A i \in 1 .. size : slots'[i] = slots[i]
          /\ slots'[size + 1] = e
      <4>1. SlotsTyped /\ size \in Nat
        BY DEF RegistryInv, SlotsTyped
      <4>2. /\ size' = size + 1
            /\ slots' = IF size < Len(slots) THEN [slots EXCEPT ![size + 1] = e]
                        ELSE slots \o <<e>> \o [i \in 1 .. size - 1 |-> Null]
        BY <2>4 DEF registerEndpoint
      <4> QED BY <4>1, <4>2, EntryAdded
    <3> DEFINE window == receiver.index .. receiver.last
    <3>2. \A j \in window : /\ j <= size' <=> (j <= size \/ j = size + 1)
                            /\ j > size' <=> (j > size /\ j # size + 1)
                            /\ j <= size => j \in 1 .. size
      BY <3>1, <2>1
    <3>3. Coming' = {slots'[j] : j \in {i \in window : i <= size'}}
          /\ Outdated' = {j \in window : j > size'}
      BY <2>1 DEF Coming, Outdated
    <3>4. Coming = {slots[j] : j \in {i \in window : i <= size}}
          /\ Outdated = {j \in window : j > size}
      BY DEF Coming, Outdated
    <3>5. HistoryTyped /\ Accounts /\ erasures \in Nat /\ through \subseteq Endpoints
      BY <1>2, <1>4 DEF ErasureInv, HistoryTyped
    <3>6. Coming \subseteq Coming' /\ Coming' \subseteq Coming \cup {e}
      <4> HIDE DEF window
      <4> QED BY <3>1, <3>2, <3>3, <3>4
    <3>7. Missed' \subseteq Missed
      BY <1>1, <2>1, <2>2, <3>5, <3>6 DEF Missed
    <3>8. \A f \in Endpoints : Visits(f) \in Nat /\ Expected(f) \in Nat
      BY <3>5, ExpectedTyped
    <3>9. \A f \in Endpoints \ {e} : Expected(f)' <= Expected(f)
      <4> TAKE f \in Endpoints \ {e}
      <4>1. f \in Coming' <=> f \in Coming
        BY <3>6
      <4>2. Expected(f)' = Expected(f)
        BY <2>2, <4>1 DEF Expected
      <4> QED BY <3>8, <4>2
    <3>10. CASE size + 1 \in window
      <4>1. Expected(e)' <= Expected(e) + 1
        BY <2>2, <3>8 DEF Expected
      <4>2. Again' \subseteq Again \cup {<<e, Expected(e) + 1>>}
        BY <1>2, <3>9, <4>1, OnceAgain
      <4>3. size + 1 \in Outdated /\ Outdated' \subseteq Outdated \ {size + 1}
        BY <3>1, <3>2, <3>3, <3>4, <3>10
      <4>4. Accounts'
        BY <1>1, <3>5, <3>7, <4>2, <4>3, OutdatedTurnsUp
      <4> QED BY <1>2, <2>1, <4>4 DEF ErasureInv
    <3>11. CASE size + 1 \notin window
      <4>1. Coming' = Coming /\ Outdated' = Outdated
        <5> HIDE DEF window
        <5> QED BY <3>1, <3>2, <3>3, <3>4, <3>11
      <4>2. \A f \in Endpoints : Expected(f)' <= Expected(f)
        <5> TAKE f \in Endpoints
        <5>1. Expected(f)' = Expected(f)
          BY <2>2, <4>1 DEF Expected
        <5> QED BY <3>8, <5>1
      <4>3. Again' \subseteq Again
        BY <1>2, <4>2, NoneAgain
      <4>4. Accounts'
        BY <1>1, <3>5, <3>7, <4>1, <4>3, NothingAdded
      <4> QED BY <1>2, <2>1, <4>4 DEF ErasureInv
    <3> QED BY <3>10, <3>11
  <2> QED BY <2>3, <2>4
<1> QED BY <1>3, <1>4

(* erase moves the endpoints behind the position one slot forward: the one *)
(* the loop would visit next may slip behind it, and either one comes in   *)
(* that was registered after the loop began, or the last slot is outdated. *)
LEMMA UnregisterAccounts ==
  ASSUME RegistryInv, LoopTyped, ErasureInv, NEW e \in Endpoints, unregisterEndpoint(e)
  PROVE  ErasureInv'
<1>1. PICK i \in 1 .. size : EraseSlot(i)
  BY DEF unregisterEndpoint, Unregister
<1>2. UNCHANGED <<receiver, got>>
  BY DEF unregisterEndpoint, Unregister
<1>3. /\ slots' = [j \in DOMAIN slots |-> IF j \in i .. size - 1 THEN slots[j + 1] ELSE slots[j]]
      /\ size' = size - 1 /\ through' = through \ {slots[i]}
      /\ erasures' = IF receiver = Waiting THEN erasures ELSE erasures + 1
  BY <1>1 DEF EraseSlot
<1>4. size \in Nat /\ size <= Len(slots) /\ Len(slots) \in Nat /\ DOMAIN slots = 1 .. Len(slots)
  BY LenProperties DEF RegistryInv, SlotsTyped
<1>5. HistoryTyped /\ HistoryTyped'
  BY <1>2, <1>3 DEF ErasureInv, HistoryTyped
<1>6. CASE receiver = Waiting
  BY <1>2, <1>3, <1>5, <1>6 DEF ErasureInv
<1>7. CASE receiver # Waiting
  <2> DEFINE p == receiver.index
             L == receiver.last
  <2>1. p \in Nat \ {0} /\ L \in 0 .. Len(slots) /\ L \in Nat
        /\ \A j \in 1 .. L : slots[j] \in Endpoints
    BY <1>4, <1>7 DEF LoopTyped
  <2>2. Accounts /\ erasures \in Nat /\ erasures' = erasures + 1 /\ through \subseteq Endpoints
    BY <1>3, <1>5, <1>7 DEF ErasureInv, HistoryTyped
  <2>3. /\ Coming = {slots[j] : j \in {k \in p .. L : k <= size}}
        /\ Coming' = {slots'[j] : j \in {k \in p .. L : k <= size - 1}}
        /\ Outdated = {j \in p .. L : j > size}
        /\ Outdated' = {j \in p .. L : j > size - 1}
    BY <1>2, <1>3 DEF Coming, Outdated
  <2>4. \A j \in 1 .. size - 1 : slots'[j] = IF j >= i THEN slots[j + 1] ELSE slots[j]
    BY <1>1, <1>3, <1>4
  <2>5. \A f \in Endpoints : Visits(f)' = Visits(f) /\ Visits(f) \in Nat /\ Expected(f) \in Nat
    BY <1>2, <1>5, ExpectedTyped DEF Visits
  <2> HIDE DEF p, L
  <2>6. Coming \subseteq Coming' \cup {slots[i], slots[p]}
    <3> SUFFICES ASSUME NEW k \in p .. L, k <= size, k # i, k # p
                 PROVE  slots[k] \in Coming'
      BY <2>3
    <3>1. CASE k < i
      <4>1. k \in 1 .. size - 1 /\ slots'[k] = slots[k]
        BY <1>1, <1>4, <2>1, <2>4, <3>1
      <4> QED BY <2>3, <4>1
    <3>2. CASE k > i
      <4>1. k - 1 \in 1 .. size - 1 /\ k - 1 \in p .. L /\ slots'[k - 1] = slots[k]
        BY <1>1, <1>4, <2>1, <2>4, <3>2
      <4>2. k - 1 \in {j \in p .. L : j <= size - 1}
        BY <4>1
      <4> QED BY <2>3, <4>1, <4>2
    <3> QED BY <3>1, <3>2, <1>1, <2>1
  <2>7. Missed' \subseteq Missed \cup {slots[p]}
    <3> SUFFICES ASSUME NEW f \in Missed' PROVE f \in Missed \cup {slots[p]}
      OBVIOUS
    <3>1. f \in through /\ f # slots[i] /\ Uri[f] = receiver.dest /\ Visits(f)' = 0 /\ f \notin Coming'
      BY <1>2, <1>3 DEF Missed
    <3>2. f \notin Coming \/ f = slots[p]
      BY <2>6, <3>1
    <3>3. Visits(f) = 0
      BY <2>2, <2>5, <3>1
    <3> QED BY <3>1, <3>2, <3>3 DEF Missed
  <2>8. CASE size <= L
    <3>1. Outdated' \subseteq Outdated \cup {size}
      BY <1>4, <2>1, <2>3
    <3>2. Coming' \subseteq Coming
      <4> SUFFICES ASSUME NEW k \in p .. L, k <= size - 1 PROVE slots'[k] \in Coming
        BY <2>3
      <4>1. k \in 1 .. size - 1 /\ k + 1 \in p .. L /\ k + 1 <= size
        BY <1>4, <2>1, <2>8
      <4>2. slots[k] \in Coming /\ slots[k + 1] \in Coming
        <5>1. k \in {j \in p .. L : j <= size} /\ k + 1 \in {j \in p .. L : j <= size}
          BY <1>4, <2>1, <4>1
        <5> QED BY <2>3, <5>1
      <4> QED BY <2>4, <4>1, <4>2
    <3>3. \A f \in Endpoints : Expected(f)' <= Expected(f)
      BY <2>5, <3>2 DEF Expected
    <3>4. Again' \subseteq Again
      BY <1>5, <3>3, NoneAgain
    <3>5. Accounts'
      BY <2>2, <2>7, <3>1, <3>4, ErasurePays, SMTT(20)
    <3> QED BY <1>2, <1>5, <1>7, <3>5 DEF ErasureInv
  <2>9. CASE size > L
    <3>1. Outdated' \subseteq Outdated
      BY <1>4, <2>1, <2>3, <2>9
    <3>2. L + 1 \in 1 .. size
      BY <1>4, <2>1, <2>9
    <3>3. PICK y \in Endpoints : y = slots[L + 1]
      BY <3>2 DEF RegistryInv, SlotsTyped
    <3>4. Coming' \subseteq Coming \cup {y}
      <4> SUFFICES ASSUME NEW k \in p .. L, k <= size - 1 PROVE slots'[k] \in Coming \cup {y}
        BY <2>3
      <4>1. k \in 1 .. size - 1 /\ k \in {j \in p .. L : j <= size}
            /\ (k # L => k + 1 \in {j \in p .. L : j <= size})
        BY <1>4, <2>1, <2>9
      <4>2. slots[k] \in Coming /\ (k # L => slots[k + 1] \in Coming)
        BY <2>3, <4>1
      <4> QED BY <2>4, <3>3, <4>1, <4>2
    <3>5. \A f \in Endpoints \ {y} : Expected(f)' <= Expected(f)
      BY <2>5, <3>4 DEF Expected
    <3>6. Expected(y)' <= Expected(y) + 1
      BY <2>5 DEF Expected
    <3>7. Again' \subseteq Again \cup {<<y, Expected(y) + 1>>}
      BY <1>5, <3>5, <3>6, OnceAgain
    <3>8. Accounts'
      BY <2>2, <2>7, <3>1, <3>7, ErasurePays
    <3> QED BY <1>2, <1>5, <1>7, <3>8 DEF ErasureInv
  <2> QED BY <2>8, <2>9, <1>4, <2>1
<1> QED BY <1>6, <1>7

LEMMA ErasureNext ==
  ASSUME RegistryInv, LoopTyped, ErasureInv, LoopTyped', [Next]_vars
  PROVE  ErasureInv'
<1>0. /\ HistoryTyped
      /\ receiver.at \in InLoop =>
           /\ receiver = [at |-> receiver.at, dest |-> receiver.dest, index |-> receiver.index,
                          last |-> receiver.last, ep |-> receiver.ep,
                          count |-> receiver.count, freed |-> receiver.freed]
           /\ receiver # Waiting
  BY DEF ErasureInv, LoopTyped, Waiting, InLoop
<1>1. CASE UNCHANGED <<slots, size, receiver, got, erasures, through>>
  <2>1. /\ HistoryTyped' /\ (receiver # Waiting => \A e \in Endpoints : Visits(e)' = Visits(e))
    BY <1>0, <1>1 DEF HistoryTyped, Visits
  <2>2. CASE receiver # Waiting
    BY <1>1, <2>1, <2>2, SameVisits
  <2>3. CASE receiver = Waiting
    BY <1>1, <2>1, <2>3 DEF ErasureInv
  <2> QED BY <2>2, <2>3
<1>2. CASE EndDelivery
  <2>1. /\ receiver' = Waiting /\ through' = {} /\ erasures' = 0
        /\ got' = [e \in Endpoints |-> 0]
    BY <1>2 DEF EndDelivery
  <2> QED BY <2>1 DEF ErasureInv, HistoryTyped
<1>3. CASE TestCallback
  <2>1. /\ receiver.at = "test" /\ receiver.at \in InLoop
        /\ UNCHANGED <<slots, size, through, erasures>>
        /\ got' = [got EXCEPT ![receiver.ep] = @ + 1]
    BY <1>3 DEF TestCallback, registry, InLoop
  <2>2. /\ receiver'.index = receiver.index /\ receiver'.last = receiver.last
        /\ receiver'.dest = receiver.dest /\ receiver'.at \in {"call", "append"}
        /\ receiver' # Waiting
    <3>1. PICK a \in {"call", "append"} : receiver' = [receiver EXCEPT !.at = a]
      BY <1>3 DEF TestCallback
    <3> QED BY <1>0, <2>1, <3>1 DEF Waiting
  <2>3. receiver.ep \in Endpoints
    BY <2>1 DEF LoopTyped
  <2>4. HistoryTyped'
    BY <1>0, <2>1, <2>3 DEF HistoryTyped
  <2>5. \A e \in Endpoints : Visits(e)' = Visits(e)
    BY <1>0, <2>1, <2>2, <2>3 DEF Visits, HistoryTyped
  <2> QED BY <1>0, <2>1, <2>2, <2>4, <2>5, SameVisits
<1>4. CASE CallCallback \/ AppendElement \/ AppendEnd
  <2>1. /\ receiver.at \in {"call", "append", "grow"} /\ receiver.at \in InLoop
        /\ UNCHANGED <<slots, size, through, erasures, got>>
    BY <1>4 DEF CallCallback, AppendElement, AppendEnd, registry, loopHistory, InLoop
  <2>2. /\ receiver'.index = receiver.index /\ receiver'.last = receiver.last
        /\ receiver'.dest = receiver.dest /\ receiver'.at \in {"call", "grow", "loop"}
        /\ receiver' # Waiting
    <3>1. \/ receiver' = receiver /\ receiver.at = "call"
          \/ receiver' = [receiver EXCEPT !.at = "loop", !.ep = Null]
          \/ receiver' = [receiver EXCEPT !.at = "grow", !.count = count[receiver.ep]]
          \/ receiver' = [receiver EXCEPT !.at = "loop", !.ep = Null, !.count = 0]
      BY <1>4 DEF CallCallback, AppendElement, AppendEnd
    <3> QED BY <1>0, <2>1, <3>1 DEF Waiting
  <2>3. HistoryTyped' /\ \A e \in Endpoints : Visits(e)' = Visits(e)
    BY <1>0, <2>1, <2>2 DEF HistoryTyped, Visits
  <2> QED BY <1>0, <2>1, <2>2, <2>3, SameVisits
<1>5. CASE ReadFreedVector \/ EndCallbackChange \/ PollEnd \/ UNCHANGED vars
           \/ (\E e \in Endpoints : PollFront(e))
           \/ (\E e \in Changing, op \in {"set", "clear"} : BeginCallbackChange(e, op))
  <2>1. UNCHANGED <<slots, size, receiver, got, erasures, through>>
    BY <1>5 DEF ReadFreedVector, EndCallbackChange, PollEnd, PollFront, BeginCallbackChange, vars,
       registry, loopHistory
  <2> QED BY <1>1, <2>1
<1> QED BY <1>2, <1>3, <1>4, <1>5, StartDeliveryAccounts, NextEndpointAccounts, RegisterAccounts,
           UnregisterAccounts DEF Next, Deliver, Application

(* What the accounts say of the visits that were made.                     *)
LEMMA AccountsBalance ==
  ASSUME LoopTyped, ErasureInv
  PROVE  ErasureCostsOne
<1>1. got \in [Endpoints -> Nat] /\ erasures \in Nat /\ HistoryTyped
  BY DEF ErasureInv, HistoryTyped
<1>2. CASE receiver = Waiting
  <2>1. got = [e \in Endpoints |-> 0] /\ receiver.at # "loop"
    BY <1>2 DEF ErasureInv, Waiting
  <2>2. {e \in Endpoints : got[e] > 1} = {}
    BY <2>1
  <2>3. \A e \in Endpoints : got[e] <= 1 + erasures
    BY <1>1, <2>1
  <2> QED BY <1>1, <2>1, <2>2, <2>3, FS_EmptySet DEF ErasureCostsOne
<1>3. CASE receiver # Waiting
  <2>1. Accounts
    BY <1>3 DEF ErasureInv
  <2>2. /\ IsFiniteSet(Again) /\ Cardinality(Again) \in Nat /\ Cardinality(Again) <= erasures
    <3>1. /\ Cardinality(Again) \in Nat /\ Cardinality(Outdated) \in Nat
          /\ Cardinality(Again) + Cardinality(Outdated) <= erasures
      BY <2>1, FS_CardinalityType DEF Accounts
    <3> QED BY <1>1, <2>1, <3>1 DEF Accounts
  <2>3. \A e \in Endpoints : got[e] <= Expected(e) /\ Expected(e) \in Nat
    BY <1>1, ExpectedTyped DEF Expected, Visits
  <2>4. \A e \in Endpoints, k \in Nat : 2 <= k /\ k <= got[e] => <<e, k>> \in Again
    <3> TAKE e \in Endpoints, k \in Nat
    <3>1. k <= got[e] => k <= Expected(e)
      BY <1>1, <2>3
    <3> QED BY <3>1 DEF Again
  <2>5. ASSUME NEW e \in Endpoints PROVE got[e] <= 1 + erasures
    <3>1. CASE got[e] < 2
      BY <1>1, <3>1
    <3>2. CASE got[e] >= 2
      <4> DEFINE visit == [k \in 2 .. got[e] |-> <<e, k>>]
      <4>1. visit \in [2 .. got[e] -> Again]
        <5>1. \A k \in 2 .. got[e] : k \in Nat /\ 2 <= k /\ k <= got[e]
          BY <1>1
        <5> QED BY <2>4, <5>1
      <4>2. \A j, k \in 2 .. got[e] : visit[j] = visit[k] => j = k
        OBVIOUS
      <4>3. visit \in Injection(2 .. got[e], Again)
        BY <4>1, <4>2, Fun_IsInj
      <4> HIDE DEF visit
      <4>4. Cardinality(2 .. got[e]) <= Cardinality(Again)
        BY <2>2, <4>3, FS_Injection
      <4>5. Cardinality(2 .. got[e]) = got[e] - 1
        <5>1. 2 \in Int /\ got[e] \in Int /\ ~(2 > got[e]) /\ got[e] - 2 + 1 = got[e] - 1
          BY <1>1, <3>2
        <5>2. Cardinality(2 .. got[e]) = IF 2 > got[e] THEN 0 ELSE got[e] - 2 + 1
          BY <5>1, FS_Interval
        <5> QED BY <5>1, <5>2
      <4> QED BY <1>1, <2>2, <4>4, <4>5
    <3> QED BY <1>1, <3>1, <3>2
  <2>6. Cardinality({e \in Endpoints : got[e] > 1}) <= erasures
    <3> DEFINE Twice == {e \in Endpoints : got[e] > 1}
               second == [e \in Twice |-> <<e, 2>>]
    <3>1. second \in [Twice -> Again]
      <4>1. \A e \in Twice : e \in Endpoints /\ 2 \in Nat /\ 2 <= got[e]
        BY <1>1
      <4> QED BY <2>4, <4>1
    <3>2. \A d, e \in Twice : second[d] = second[e] => d = e
      OBVIOUS
    <3>3. second \in Injection(Twice, Again)
      BY <3>1, <3>2, Fun_IsInj
    <3> HIDE DEF second, Twice
    <3>4. IsFiniteSet(Twice) /\ Cardinality(Twice) <= Cardinality(Again)
      BY <2>2, <3>3, FS_Injection
    <3>5. Cardinality(Twice) \in Nat
      BY <3>4, FS_CardinalityType
    <3>6. Cardinality(Twice) <= erasures
      BY <1>1, <2>2, <3>4, <3>5
    <3> QED BY <3>6 DEF Twice
  <2>7. ASSUME receiver.at = "loop", receiver.index > receiver.last
        PROVE  Cardinality({e \in {f \in through : Uri[f] = receiver.dest} : got[e] = 0}) <= erasures
    <3>1. receiver.index \in Nat /\ receiver.last \in Nat
      <4>1. receiver.last \in 0 .. Len(slots) /\ receiver.index \in Nat
        BY <1>3 DEF LoopTyped
      <4> QED BY <4>1
    <3>2. Coming = {}
      <4>1. receiver.index .. receiver.last = {}
        BY <2>7, <3>1
      <4> QED BY <4>1 DEF Coming
    <3>3. \A e \in through : Visits(e) = got[e]
      BY <1>1, <2>7 DEF Visits, HistoryTyped
    <3>4. {e \in {f \in through : Uri[f] = receiver.dest} : got[e] = 0} = Missed
      BY <3>2, <3>3 DEF Missed
    <3> QED BY <2>1, <3>4 DEF Accounts
  <2> QED BY <2>5, <2>6, <2>7 DEF ErasureCostsOne
<1> QED BY <1>2, <1>3

(* Endpoints may be registered and unregistered at any point of a          *)
(* delivery: each endpoint erased makes it skip at most one other and      *)
(* visit at most one again or too late, and without an erasure everyone    *)
(* who is meant gets the bundle exactly once.                              *)
THEOREM ErasuresCostOneEach == Spec => []ErasureCostsOne
<1>1. Init => RegistryInv /\ LoopTyped /\ ErasureInv
  <2>1. Init => ErasureInv
    BY DEF Init, ErasureInv, HistoryTyped
  <2> QED BY <2>1, RegistryInit, LoopInit
<1>2. RegistryInv /\ LoopTyped /\ ErasureInv /\ [Next]_vars
        => (RegistryInv /\ LoopTyped /\ ErasureInv)'
  BY RegistryNext, LoopNext, ErasureNext
<1>3. LoopTyped /\ ErasureInv => ErasureCostsOne
  BY AccountsBalance
<1> QED BY <1>1, <1>2, <1>3, PTL DEF Spec

=============================================================================
