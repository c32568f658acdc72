---------------------------- MODULE BundleJourney ----------------------------
(***************************************************************************)
(* The journey of one bundle along a line of nodes: made by an endpoint,   *)
(* held and perhaps stored at each node, prepared and encoded for each     *)
(* transmission, sent over a serial line, found in the receive buffer,     *)
(* decoded and checked.                                                    *)
(*                                                                         *)
(* Only the first copy a node takes is followed; later ones have the same  *)
(* ID and are discarded as seen.  Nodes are 1 .. NumNodes, each hears the  *)
(* one before it.                                                          *)
(***************************************************************************)
EXTENDS SerialCLA, Records

CONSTANTS
  NumNodes,
  Uri,         \* Uri[n]: URI of node n
  Origins,     \* the bundles a journey may begin with, at node 1
  Damaged(_),  \* what noise on the line makes of the fields of a block
  None,
  MaxTime, MaxSends, MaxNoise   \* bounds: time, transmissions per node, noise per node

ASSUME JourneyAssumption ==
  /\ NumNodes \in Nat \ {0} /\ MaxTime \in Nat /\ MaxSends \in Nat /\ MaxNoise \in Nat

VARIABLES
  holder,      \* the last node that took the bundle
  info,        \* its BundleInfo, None while it is stored
  record,      \* the stored record, or None
  fate,        \* "travels", "deleted", "aborted"
  sends,       \* times the holder has sent it
  origin,      \* history: the bundle the journey began with,
  since,       \* when the holder took it, or made it,
  stay,        \* its time at nodes before the holder,
  copies,      \* the same, up to the sending of each copy the holder sent,
  noise,       \* where noise changed a block: which copy, has the block a CRC;
  spoiled      \* a copy was taken in which a block without a CRC was changed

history == <<origin, since, stay, copies, noise, spoiled>>
vars == <<now, lineVars, holder, info, record, fate, sends, history>>

Init ==
  /\ origin \in Origins
  /\ now = 0 /\ LineInit
  /\ holder = 1 /\ info = BundleInfo(origin) /\ record = None /\ fate = "travels"
  /\ sends = 0
  /\ since = 0 /\ stay = 0 /\ copies = <<>> /\ noise = {} /\ spoiled = FALSE

-----------------------------------------------------------------------------
(* The bundle an endpoint makes: aged if the clock is not synchronized, with *)
(* a hop limit if configured.                                                *)
EndpointSend(payload, dest, local, anonymous, lifetime, aged, limit, crc) ==
  LET source == IF anonymous THEN DtnEid(NoSsp) ELSE local
      primary == PrimaryBlock(dest, source, source, <<0, 0>>, lifetime, crc.primary)
      basic == NewBundle(primary, PayloadBlock(payload), 0)
      withAge == IF aged THEN insertCanonicalBlock(basic, BundleAgeBlock(0, crc.canonical, 0))
                         ELSE basic
  IN  IF limit = 0 THEN withAge
      ELSE insertCanonicalBlock(withAge, HopCountBlock(limit, 0, crc.canonical, 0))

(* The previous node block is never attached: the macro that asks for it is  *)
(* never defined.                                                            *)
prepareForSend(bundle) ==
  increaseHopCount(increaseAge(removePreviousNode(CopyOf(bundle)), now - bundle.receivedAt))

Expired(bundle) ==
  /\ Has(bundle, BundleAge)
  /\ now - bundle.receivedAt + getAge(bundle) >= bundle.primary.lifetime

Unsupported(block) == block.type \notin {PreviousNode, BundleAge, HopCount}

(* A turn of the loop of bundleReception over the list that it removes       *)
(* blocks from.  The block behind a removed one takes its place and is       *)
(* passed over; a later turn looks behind the new end of the list, at ghost. *)
Turn(ghost, s, i) ==
  LET ext == s.bundle.ext
      block == IF i <= Len(ext) THEN ext[i] ELSE ghost
  IN  IF s.fate = "deleted" \/ ~Unsupported(block) THEN s
      ELSE IF DeleteUnsupported \in block.flags THEN [s EXCEPT !.fate = "deleted"]
      ELSE IF DiscardUnsupported \in block.flags
           THEN [s EXCEPT !.bundle = removeBlock(@, block.number)]
      ELSE s

(* There lies the last block, destroyed but as a rule not overwritten.       *)
Ghosts(bundle) ==
  {EmptyBlock} \cup {bundle.ext[i] : i \in DOMAIN bundle.ext \cap {Len(bundle.ext)}}

(* The loop that ends at the first block it removes. *)
FaultyProcess(bundle, ghost) ==
  FoldLeft(LAMBDA s, i : IF s.bundle = bundle THEN Turn(ghost, s, i) ELSE s,
           [bundle |-> bundle, fate |-> "travels"], [i \in DOMAIN bundle.ext |-> i])

Process(bundle, ghost) ==
  FoldLeft(LAMBDA s, i : Turn(ghost, s, i), [bundle |-> bundle, fate |-> "travels"],
           [i \in DOMAIN bundle.ext |-> i])

(* Whether bundleReception deletes the bundle it has gone through. *)
MustDelete(done) ==
  LET bundle == done.bundle
  IN  \/ done.fate = "deleted"
      \/ Has(bundle, HopCount) /\ getHopCount(bundle) >= getHopLimit(bundle)
      \/ Has(bundle, BundleAge) /\ getAge(bundle) >= bundle.primary.lifetime

-----------------------------------------------------------------------------
Travels == fate = "travels"

(* The encoding, with the number of the copy (history, no byte of it). *)
Tagged(items, copy) == [items EXCEPT ![1] = [is |-> "begin", copy |-> copy]]

Tick ==
  /\ now < MaxTime
  /\ now' = now + 1
  /\ UNCHANGED <<lineVars, holder, info, record, fate, sends, history>>

Abort ==
  /\ Travels /\ info # None /\ out = <<>>
  /\ ~Encodable(info.bundle.payload)
  /\ fate' = "aborted"
  /\ UNCHANGED <<now, lineVars, holder, info, record, sends, history>>

(* The router notes the neighbour if the CLA took the bundle.  Neither the   *)
(* forwarder nor the router looks at the age.                                *)
Send ==
  /\ Travels /\ info # None /\ holder < NumNodes /\ sends < MaxSends
  /\ Encodable(info.bundle.payload)
  /\ Write(Tagged(toCbor(prepareForSend(info.bundle)), sends + 1))
  /\ sends' = sends + 1
  /\ info' = [info EXCEPT !.forwardedTo = Append(@, Node(Uri[holder + 1])),
                          !.numOfBroadcasts = @ + 1, !.lastBroadcastTime = now]
  /\ copies' = Append(copies, stay + now - since)
  /\ UNCHANGED <<now, holder, record, fate, origin, since, stay, noise, spoiled>>

SendRefused ==
  /\ Travels /\ info # None /\ holder < NumNodes
  /\ Encodable(info.bundle.payload)
  /\ Refuse(toCbor(prepareForSend(info.bundle)))
  /\ UNCHANGED <<now, holder, info, record, fate, sends, history>>

Store ==
  /\ Travels /\ info # None
  /\ IF Serializable(info)
     THEN record' = SerializeInfo(info) /\ info' = None /\ UNCHANGED fate
     ELSE fate' = "aborted" /\ UNCHANGED <<record, info>>
  /\ UNCHANGED <<now, lineVars, holder, sends, history>>

(* A retry takes it out of the storage again, and deletes it if it is        *)
(* expired.                                                                  *)
Load ==
  /\ Travels /\ record # None
  /\ info' = DeserializeInfo(record, now) /\ record' = None
  /\ fate' = IF Expired(info'.bundle) THEN "deleted" ELSE fate
  /\ UNCHANGED <<now, lineVars, holder, sends, history>>

Arrive ==
  /\ Travels /\ Transmit
  /\ UNCHANGED <<now, holder, info, record, fate, sends, history>>

Noise ==
  LET item == Head(out)
  IN  /\ Travels /\ out # <<>> /\ Cardinality(noise) < MaxNoise
      /\ item.is = "block"
      /\ out' = <<[item EXCEPT !.fields = Damaged(@)]>> \o Tail(out)
      /\ noise' = noise \cup {[copy |-> sends, checked |-> item.fields.crcType # 0]}
      /\ UNCHANGED <<now, rx, poll, data, startOfCycle, usedBytesInCycle, holder, info,
                     record, fate, sends, origin, since, stay, copies, spoiled>>

(* pollClas: the buffer is read, what was in it decoded, the buffer flushed. *)
PollRead ==
  /\ Travels /\ Read
  /\ UNCHANGED <<now, holder, info, record, fate, sends, history>>

Found == getNewBundles(data)

FirstFound == Found[Min(DOMAIN Found)]

PollNothing ==
  /\ Travels /\ Flush /\ DOMAIN Found = {}
  /\ UNCHANGED <<now, out, startOfCycle, usedBytesInCycle, holder, info, record, fate, sends,
                 history>>

(* bundleReception: the bundle is deleted or the node is its new holder, at  *)
(* the near end of the next line.                                            *)
Take(done, copy) ==
  /\ IF MustDelete(done)
     THEN /\ fate' = "deleted"
          /\ UNCHANGED <<out, startOfCycle, usedBytesInCycle, holder, info, record, sends,
                         history>>
     ELSE /\ holder' = holder + 1
          /\ info' = BundleInfo(done.bundle) /\ record' = None
          /\ out' = <<>> /\ startOfCycle' = 0 /\ usedBytesInCycle' = 0
          /\ sends' = 0
          /\ since' = now /\ stay' = copies[copy] /\ copies' = <<>> /\ noise' = {}
          /\ spoiled' = (spoiled \/ \E n \in noise : n.copy = copy /\ ~n.checked)
          /\ UNCHANGED <<fate, origin>>
  /\ UNCHANGED now

Poll ==
  /\ Travels /\ Flush /\ DOMAIN Found # {}
  /\ \E ghost \in Ghosts(FirstFound) :
       Take(Process(FirstFound, ghost), Piece(data, Min(DOMAIN Found))[1].copy)

Next ==
  \/ Tick \/ Abort \/ Send \/ SendRefused \/ Store \/ Load
  \/ Arrive \/ Noise \/ PollRead \/ PollNothing \/ Poll

Spec == Init /\ [][Next]_vars

-----------------------------------------------------------------------------
TypeOK ==
  /\ now \in 0 .. MaxTime /\ holder \in 1 .. NumNodes /\ sends \in 0 .. MaxSends
  /\ fate \in {"travels", "deleted", "aborted"}
  /\ (info = None) # (record = None)
  /\ Len(rx) <= UartBuffer /\ Len(data) <= UartBuffer /\ poll \in {"idle", "read"}
  /\ usedBytesInCycle \in 0 .. UartBuffer
  /\ since \in 0 .. MaxTime /\ stay \in 0 .. MaxTime
  /\ copies \in Seq(0 .. MaxTime) /\ Len(copies) = sends

(* What the nodes on the way must leave as it is. *)
Cargo(bundle) ==
  LET Goes(b) == b.type = PreviousNode \/ (Unsupported(b) /\ DiscardUnsupported \in b.flags)
      Seen(b) == <<b.type, b.flags, b.crcType, IF Unsupported(b) THEN b.data ELSE NoData>>
  IN  FoldLeft(LAMBDA s, b : IF Goes(b) THEN s ELSE Append(s, Seen(b)), <<>>, bundle.ext)

(* Encoded, cut up by the line and by polls, decoded, processed, stored and  *)
(* loaded at each node, a bundle stays the bundle that was sent: the primary *)
(* block, the payload, the extension blocks that no node removes, their      *)
(* order, and the record of which of them there are.  This holds as long as  *)
(* noise changes no block without a CRC (the payload never has one).         *)
TravelsIntact ==
  info # None /\ ~spoiled =>
    LET b == info.bundle
    IN  /\ b.valid /\ b.primary = origin.primary /\ b.payload = origin.payload
        /\ getID(b) = getID(origin)
        /\ Cargo(b) = Cargo(origin)
        /\ b.has = Marked({b.ext[i].type : i \in DOMAIN b.ext})

(* The hop count is the number of links behind the bundle, and the age it    *)
(* would be sent with now is the time it has spent at nodes, in their        *)
(* storages included: each prepareForSend adds the holder's share exactly    *)
(* once, however often the bundle is sent, refused, stored and loaded.       *)
CountsTrue ==
  info # None /\ ~spoiled =>
    LET next == prepareForSend(info.bundle)
    IN  /\ Has(origin, HopCount) => getHopCount(next) = getHopCount(origin) + holder
        /\ Has(origin, BundleAge) =>
             getAge(next) = getAge(origin) + stay + now - since

(* A retry knows which neighbour already got the bundle, and how often, also *)
(* after the record was written and read.                                    *)
RecordsKeepPeers ==
  info # None =>
    /\ Len(info.forwardedTo) = sends /\ info.numOfBroadcasts = sends
    /\ \A i \in DOMAIN info.forwardedTo :
         LET node == info.forwardedTo[i]
         IN  node.uri = Uri[holder + 1] /\ node.eids = <<fromUri(node.uri)>>

(* Some copy is in the bytes from its first to its last, with no 0xff in a   *)
(* block of it, and would decode.                                            *)
HoldsWhole(bytes) ==
  \E i, j \in DOMAIN bytes :
    /\ i < j /\ \A k \in i .. j - 1 : k \notin Ends(bytes)
    /\ bytes[i].is = "begin" /\ bytes[j] = End
    /\ fromCbor(SubSeq(bytes, i, j), now).valid

(* A poll that reads such a copy from the receive buffer takes it, also when *)
(* the poll before it read the first part of another copy, or flushed it     *)
(* unread: what is left of that one is before it in the buffer, and its 0xff *)
(* before the first 0x9f.                                                    *)
PollTakesWhole ==
  [][poll = "read" /\ poll' = "idle" /\ HoldsWhole(data)
       => holder' = holder + 1 \/ fate' = "deleted"]_vars

Asks(block) == Unsupported(block) /\ block.flags \cap {DeleteUnsupported, DiscardUnsupported} # {}

(* A block this code does not know gets past a node, against a flag of it    *)
(* that asks for its removal or for that of the bundle, only if it stood     *)
(* directly behind a block that the node removed.                            *)
FlagsHeeded ==
  [][holder' # holder =>
       LET before == FirstFound.ext
           after == Range(info'.bundle.ext)
       IN  \A block \in after :
             Asks(block) => \E i \in 2 .. Len(before) :
                              before[i] = block /\ before[i - 1] \notin after]_vars

(* What Endpoint.hpp says of anonymous sending, with dtn:none as source, is   *)
(* that such a bundle is sent: a poll that reads all of it finds it.         *)
AnonymousArrives ==
  data # <<>> /\ data[1].is = "begin" /\ Last(data) = Break
    /\ (\A i \in Ends(data) : data[i] = End)
    => DOMAIN Found # {}
=============================================================================
