---------------------------- MODULE BundleFormat ----------------------------
(***************************************************************************)
(* The bundle library: endpoint IDs, blocks, bundles, and what toCbor and  *)
(* fromCbor make of them.                                                  *)
(*                                                                         *)
(* An encoded bundle is a sequence of items: the byte that begins it, one  *)
(* item for each block, the byte that ends it.  The item of a block has    *)
(* the number of elements of its array, their values and its CRC.  A CRC   *)
(* is perfect: it is what it was computed from.                            *)
(***************************************************************************)
EXTENDS Integers, SequencesExt

CONSTANTS
  NoSsp,       \* the scheme specific part of dtn:none, of length 0
  NoCrc,       \* 0, what calculateCRC returns for other CRC types
  NoData,      \* no block type specific data
  PayloadSize, \* PayloadSize[p]: its length
  BlockBuffer  \* the payload that just fits the encoder's buffer of 255 bytes

ASSUME FormatAssumption ==
  BlockBuffer \in Nat /\ \A p \in DOMAIN PayloadSize : PayloadSize[p] \in Nat

Payload == 1
PreviousNode == 6
BundleAge == 7
HopCount == 10
IsFragment == 0
DeleteUnsupported == 2
DiscardUnsupported == 4
X25 == 1
Crc32c == 2
Dtn == 1
Ipn == 2

-----------------------------------------------------------------------------
(* Endpoint IDs.  A URI is a scheme and a scheme specific part. *)

DtnEid(ssp) == [scheme |-> Dtn, ssp |-> ssp, isNone |-> ssp = NoSsp, valid |-> TRUE]

IpnEid(parts) == [scheme |-> Ipn, ssp |-> parts, isNone |-> FALSE, valid |-> TRUE]

EmptyEid == [scheme |-> 0, ssp |-> NoSsp, isNone |-> TRUE, valid |-> FALSE]

fromUri(uri) ==
  CASE uri.scheme = "dtn:" -> DtnEid(uri.ssp)
    [] uri.scheme = "ipn:" -> IpnEid(uri.ssp)
    [] OTHER -> EmptyEid

getURI(eid) ==
  CASE eid.scheme = Dtn -> [scheme |-> "dtn:", ssp |-> eid.ssp]
    [] eid.scheme = Ipn -> [scheme |-> "ipn:", ssp |-> eid.ssp]
    [] OTHER -> [scheme |-> "Invalid EID", ssp |-> NoSsp]

(* The two elements of the array. *)
EidToCbor(eid) ==
  <<eid.scheme,
    IF eid.isNone THEN [is |-> "uint", value |-> 0]
    ELSE [is |-> IF eid.scheme = Dtn THEN "text" ELSE "array", value |-> eid.ssp]>>

(* Having read past the 0 of dtn:none, the code looks for a text there. *)
EidFromCbor(array) ==
  LET next == IF array[2].is = "uint" THEN [is |-> "end"] ELSE array[2]
  IN  CASE array[1] = Dtn /\ next.is = "text" -> DtnEid(next.value)
        [] array[1] = Ipn -> IpnEid(IF array[2].is = "array" THEN array[2].value
                                                             ELSE <<0, 0>>)
        [] OTHER -> EmptyEid

-----------------------------------------------------------------------------
(* Blocks.  Flags are sets of bit positions. *)

Block(type, number, flags, data, crcType) ==
  [valid |-> TRUE, type |-> type, number |-> number, flags |-> flags, data |-> data,
   crcType |-> crcType]

EmptyBlock ==
  [valid |-> FALSE, type |-> 0, number |-> 0, flags |-> {}, data |-> <<NoData>>,
   crcType |-> 0]

BundleAgeBlock(age, crcType, number) == Block(BundleAge, number, {}, <<age>>, crcType)

(* blockNumber = blockNumber assigns the parameter to itself. *)
HopCountBlock(limit, count, crcType, number) ==
  Block(HopCount, 0, {}, <<limit, count>>, crcType)

PayloadBlock(payload) == Block(Payload, 1, {}, <<payload>>, 0)

AsPayload(block) ==
  Block(block.type, block.number, block.flags, block.data, block.crcType)

EmptyPayload == [EmptyBlock EXCEPT !.type = Payload, !.number = 1]

calculateCRC(crcType, fields) == IF crcType \in {X25, Crc32c} THEN fields ELSE NoCrc

FaultycheckCRC(crcType, fields, crc) == crcType \in {X25, Crc32c}

(* With an unknown type 0 is compared with 0. *)
checkCRC(crcType, fields, crc) ==
  calculateCRC(crcType, fields) = IF crcType \in {X25, Crc32c} THEN crc ELSE NoCrc

Item(len, fields) ==
  [is |-> "block", len |-> len, fields |-> fields,
   crc |-> calculateCRC(fields.crcType, fields)]

FieldsOf(block) ==
  [f \in {"type", "number", "flags", "crcType", "data"} |-> block[f]]

BlockToCbor(block) == Item(IF block.crcType = 0 THEN 5 ELSE 6, FieldsOf(block))

(* What is longer than the encoder's buffer gets a size that no memory can  *)
(* be allocated for.                                                       *)
Encodable(block) == block.type = Payload => PayloadSize[block.data[1]] <= BlockBuffer

(* The last element is read and checked if there is a CRC type. *)
CrcHolds(item) ==
  LET f == item.fields IN f.crcType # 0 => checkCRC(f.crcType, f, item.crc)

ReadCanonical(item) ==
  LET f == item.fields IN Block(f.type, f.number, f.flags, f.data, f.crcType)

fromCborCanonical(item) == [ReadCanonical(item) EXCEPT !.valid = CrcHolds(item)]

PrimaryBlock(dest, source, reportTo, timestamp, lifetime, crcType) ==
  [valid |-> TRUE, version |-> 7, flags |-> {}, crcType |-> crcType, dest |-> dest,
   source |-> source, reportTo |-> reportTo, timestamp |-> timestamp,
   lifetime |-> lifetime, fragment |-> <<0, 0>>]

EmptyPrimary ==
  [PrimaryBlock(EmptyEid, EmptyEid, EmptyEid, <<0, 0>>, 0, 0) EXCEPT !.valid = FALSE]

PrimaryToCbor(p) ==
  Item(8 + (IF p.crcType = 0 THEN 0 ELSE 1) + (IF IsFragment \in p.flags THEN 2 ELSE 0),
       [version |-> p.version, flags |-> p.flags, crcType |-> p.crcType,
        dest |-> EidToCbor(p.dest), source |-> EidToCbor(p.source),
        reportTo |-> EidToCbor(p.reportTo), timestamp |-> p.timestamp,
        lifetime |-> p.lifetime,
        fragment |-> IF IsFragment \in p.flags THEN p.fragment ELSE <<>>])

(* The later parts are read only if the earlier ones are valid. *)
ReadEids(f) ==
  LET dest == EidFromCbor(f.dest)
      source == IF dest.valid THEN EidFromCbor(f.source) ELSE EmptyEid
  IN  <<dest, source, IF source.valid THEN EidFromCbor(f.reportTo) ELSE EmptyEid>>

ReadFragment(item) == IF item.len \in {10, 11} THEN item.fields.fragment ELSE <<0, 0>>

fromCborPrimary(item) ==
  LET f == item.fields
      eids == ReadEids(f)
  IN  IF f.version # 7 \/ ~eids[3].valid
      THEN EmptyPrimary
      ELSE [PrimaryBlock(eids[1], eids[2], eids[3], f.timestamp, f.lifetime, f.crcType)
              EXCEPT !.valid = CrcHolds(item),
                     !.flags = f.flags, !.fragment = ReadFragment(item)]

-----------------------------------------------------------------------------
(* Bundles. *)

Has(bundle, type) == type \in bundle.has

EmptyBundle(now) ==
  [valid |-> FALSE, primary |-> EmptyPrimary, payload |-> EmptyPayload, ext |-> <<>>,
   used |-> {1}, has |-> {}, receivedAt |-> now, retention |-> 0]

NewBundle(primary, payload, now) ==
  [EmptyBundle(now) EXCEPT !.valid = TRUE, !.primary = primary, !.payload = payload]

(* The copy has the default retention constraint. *)
CopyOf(bundle) == [bundle EXCEPT !.retention = 0]

getID(bundle) ==
  <<IF bundle.valid THEN <<getURI(bundle.primary.source), bundle.primary.timestamp>>
                    ELSE <<>>,
    IF IsFragment \in bundle.primary.flags THEN bundle.primary.fragment[1] ELSE 0>>

FreeNumber(used) ==
  Min((2 .. Cardinality(used) + 2) \ used)

(* hasPreviousNode, hasBundleAge, hasHopCount *)
Marked(types) == types \cap {PreviousNode, BundleAge, HopCount}

insertCanonicalBlock(bundle, block) ==
  LET number == IF block.number = 0 \/ block.number \in bundle.used
                THEN FreeNumber(bundle.used) ELSE block.number
  IN  IF block.type = Payload
      THEN [bundle EXCEPT !.payload = IF @.data = <<NoData>> THEN AsPayload(block) ELSE @]
      ELSE [bundle EXCEPT !.ext = Append(@, [block EXCEPT !.number = number]),
                          !.used = @ \cup {number},
                          !.has = @ \cup Marked({block.type})]

removeBlock(bundle, number) ==
  LET at == SelectInSeq(bundle.ext, LAMBDA b : b.number = number)
  IN  IF number \in bundle.used /\ at # 0
      THEN [bundle EXCEPT !.ext = RemoveAt(@, at), !.has = @ \ {bundle.ext[at].type}]
      ELSE bundle

removePreviousNode(bundle) ==
  [bundle EXCEPT !.ext = IF Has(bundle, PreviousNode)
                         THEN RemoveFirstMatch(@, LAMBDA b : b.type = PreviousNode)
                         ELSE @,
                 !.has = @ \ {PreviousNode}]

increaseAge(bundle, difference) ==
  IF ~Has(bundle, BundleAge) THEN bundle
  ELSE [bundle EXCEPT !.ext = [i \in DOMAIN @ |->
          IF @[i].type = BundleAge
          THEN BundleAgeBlock(@[i].data[1] + difference, @[i].crcType, @[i].number)
          ELSE @[i]]]

increaseHopCount(bundle) ==
  IF ~Has(bundle, HopCount) THEN bundle
  ELSE [bundle EXCEPT !.ext = [i \in DOMAIN @ |->
          IF @[i].type = HopCount
          THEN HopCountBlock(@[i].data[1], @[i].data[2] + 1, @[i].crcType, @[i].number)
          ELSE @[i]]]

(* The data of the first block of the type. *)
DataOf(bundle, type) ==
  bundle.ext[SelectInSeq(bundle.ext, LAMBDA b : b.type = type)].data

getAge(bundle) == IF Has(bundle, BundleAge) THEN DataOf(bundle, BundleAge)[1] ELSE 0

getHopCount(bundle) == IF Has(bundle, HopCount) THEN DataOf(bundle, HopCount)[2] ELSE 0

getHopLimit(bundle) == IF Has(bundle, HopCount) THEN DataOf(bundle, HopCount)[1] ELSE 0

-----------------------------------------------------------------------------
Begin == [is |-> "begin"]     \* 0x9f
End == [is |-> "end"]         \* 0xff

toCbor(bundle) ==
  <<Begin, PrimaryToCbor(bundle.primary)>>
    \o [i \in DOMAIN bundle.ext |-> BlockToCbor(bundle.ext[i])]
    \o <<BlockToCbor(bundle.payload), End>>

(* One turn of the loop of fromCbor.  After an invalid block it ends. *)
AddBlock(bundle, item) ==
  IF ~bundle.valid THEN bundle
  ELSE IF item.is # "block" THEN [bundle EXCEPT !.valid = FALSE]
  ELSE IF item.len \in {5, 6}
       THEN LET block == fromCborCanonical(item)
            IN  CASE ~block.valid -> [bundle EXCEPT !.valid = FALSE]
                  [] block.valid /\ block.type = Payload ->
                       [bundle EXCEPT !.payload = AsPayload(block)]
                  [] OTHER -> [bundle EXCEPT !.ext = Append(@, block),
                                             !.used = @ \cup {block.number},
                                             !.has = @ \cup Marked({block.type})]
       ELSE LET primary == fromCborPrimary(item)
            IN  [bundle EXCEPT !.primary = primary, !.valid = primary.valid]

(* What comes after the end of the array is not looked at. *)
fromCbor(items, now) ==
  LET end == SelectInSeq(items, LAMBDA i : i.is = "end")
      invalid == EmptyBundle(now)
  IN  IF Len(items) = 0 THEN invalid
      ELSE IF items[1].is # "begin" \/ end = 0 THEN invalid
      ELSE FoldLeft(AddBlock, [invalid EXCEPT !.valid = TRUE],
                    SubSeq(items, 2, end - 1))
=============================================================================
