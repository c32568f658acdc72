----------------------------- MODULE GoodBundles -----------------------------
(***************************************************************************)
(* The bundles the theorems about BundleJourney are about: those an        *)
(* endpoint of this code, or another implementation, may hand over.  A     *)
(* bundle that is not one of them is not read again as it was written, or  *)
(* loses at the first node what only this code would not have put there.   *)
(***************************************************************************)
EXTENDS BundleJourney

IsSeq(s) == Len(s) \in Nat /\ s = [i \in 1 .. Len(s) |-> s[i]]

CrcTypes == {0, X25, Crc32c}

(* dtn:none, for example, is not read back. *)
Readable(eid) == eid.valid /\ EidFromCbor(EidToCbor(eid)) = eid

GoodPrimary(p) ==
  /\ p = [valid |-> TRUE, version |-> 7, flags |-> p.flags, crcType |-> p.crcType,
          dest |-> p.dest, source |-> p.source, reportTo |-> p.reportTo,
          timestamp |-> p.timestamp, lifetime |-> p.lifetime, fragment |-> p.fragment]
  /\ p.crcType \in CrcTypes
  /\ IsFragment \notin p.flags => p.fragment = <<0, 0>>
  /\ Readable(p.dest) /\ Readable(p.source) /\ Readable(p.reportTo)

IsBlock(b) ==
  /\ b = [valid |-> TRUE, type |-> b.type, number |-> b.number, flags |-> b.flags,
          data |-> b.data, crcType |-> b.crcType]
  /\ b.crcType \in CrcTypes

(* An age or hop count block has no flags: these blocks are made anew with   *)
(* none.                                                                     *)
GoodBlock(b) ==
  /\ IsBlock(b) /\ b.type # Payload
  /\ b.type = BundleAge => b.flags = {} /\ b.data = <<b.data[1]>> /\ b.data[1] \in Nat
  /\ b.type = HopCount =>
       b.flags = {} /\ b.data = <<b.data[1], b.data[2]>> /\ b.data[2] \in Nat

(* Only blocks of unknown types are removed by their number. *)
Apart(ext) ==
  \A i, j \in DOMAIN ext :
    Unsupported(ext[i]) => /\ ext[i].number # 0
                           /\ i # j => ext[i].number # ext[j].number

TypesIn(ext) == {ext[i].type : i \in DOMAIN ext}

(* The parts of a bundle that is read as it is. *)
Parts(primary, payload, ext) ==
  /\ GoodPrimary(primary) /\ IsBlock(payload) /\ payload.type = Payload
  /\ IsSeq(ext) /\ \A i \in DOMAIN ext : IsBlock(ext[i]) /\ ext[i].type # Payload

GoodExt(e) == IsSeq(e) /\ (\A i \in DOMAIN e : GoodBlock(e[i])) /\ Apart(e)

BundleOf(valid, primary, payload, ext, used, has, t, keep) ==
  [valid |-> valid, primary |-> primary, payload |-> payload, ext |-> ext, used |-> used,
   has |-> has, receivedAt |-> t, retention |-> keep]

IsBundle(b) ==
  b = BundleOf(b.valid, b.primary, b.payload, b.ext, b.used, b.has, b.receivedAt, b.retention)

WellFormed(b) == Parts(b.primary, b.payload, b.ext)

GoodOrigin(o) ==
  /\ IsBundle(o) /\ o.valid = TRUE /\ WellFormed(o) /\ GoodExt(o.ext)
  /\ o.has = Marked(TypesIn(o.ext)) /\ o.receivedAt = 0

(* Noise does not change the number that says which CRC there is. *)
NoiseKeepsCrcType ==
  \A f : "crcType" \in DOMAIN f =>
           "crcType" \in DOMAIN Damaged(f) /\ Damaged(f).crcType = f.crcType

(* All that must be true of a bundle for the framing on the line; every      *)
(* GoodOrigin has it.                                                        *)
Solid(b) == "ext" \in DOMAIN b /\ IsSeq(b.ext)

(* What stands for nothing is neither a BundleInfo nor a record. *)
NoneIsNothing == \A x : "bundle" \in DOMAIN x \/ DOMAIN x = 1 .. 7 => x # None
=============================================================================
