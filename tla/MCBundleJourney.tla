--------------------------- MODULE MCBundleJourney ---------------------------
(***************************************************************************)
(* A line of nodes for TLC, with what its endpoints send and a bundle of   *)
(* another program.                                                        *)
(***************************************************************************)
EXTENDS GoodBundles

CONSTANTS none, plain, cut, noisy, long, x, y

MCPayloadSize == (plain :> 1) @@ (cut :> 1) @@ (noisy :> 1) @@ (x :> 1) @@ (long :> 3) @@ (none :> 0)
MCUri == [n \in 1 .. NumNodes |-> [scheme |-> "dtn:", ssp |-> n]]

MCDamaged(f) ==
  IF "lifetime" \in DOMAIN f THEN [f EXCEPT !.lifetime = @ + 1]
  ELSE [f EXCEPT !.data = CASE f.type = BundleAge -> <<@[1] + 1>>
                            [] f.type = HopCount -> <<@[1], @[2] + 1>>
                            [] OTHER -> <<noisy>>]

(* The payload cut holds a 0xff, and the age 1 with a CRC; x holds a 0x9f.   *)
MCHoldsEnd(item) ==
  LET f == item.fields
  IN  /\ "data" \in DOMAIN f
      /\ f.data = <<cut>> \/ (f.type = BundleAge /\ f.data = <<1>> /\ f.crcType # 0)

MCHoldsBegin(item) == "data" \in DOMAIN item.fields /\ item.fields.data = <<x>>

(* With a CRC where there can be one, and without. *)
Crcs == [primary |-> Crc32c, canonical |-> X25]
NoCrcs == [primary |-> 0, canonical |-> 0]

Local == DtnEid(1)
Dest == IpnEid(<<9, 9>>)

(* Without an age a bundle does not expire. *)
Sent ==
  {EndpointSend(plain, Dest, Local, FALSE, 1, TRUE, 3, Crcs),
   EndpointSend(plain, Dest, Local, FALSE, 2, TRUE, 2, NoCrcs),
   EndpointSend(plain, Dest, Local, FALSE, 1, FALSE, 0, Crcs),
   EndpointSend(cut, Dest, Local, FALSE, 1, FALSE, 2, Crcs),
   EndpointSend(long, Dest, Local, FALSE, 1, FALSE, 0, Crcs)}

(* A bundle of another program, a fragment, with a previous node and blocks  *)
(* of types not known here.                                                  *)
Foreign(flags, crcType) ==
  LET primary == [PrimaryBlock(Dest, IpnEid(<<3, 1>>), Local, <<5, 1>>, 3, crcType)
                    EXCEPT !.flags = {IsFragment}, !.fragment = <<1, 4>>]
      plainB == NewBundle(primary, PayloadBlock(plain), 0)
  IN  FoldLeft(insertCanonicalBlock, plainB,
               <<Block(PreviousNode, 0, {}, <<y>>, crcType), BundleAgeBlock(1, crcType, 7)>>
                 \o [i \in DOMAIN flags |-> Block(191 + i, 0, flags[i], <<x>>, crcType)])

MCOrigins ==
  LET discard == {DiscardUnsupported}
      delete == {DeleteUnsupported}
  IN  Sent \cup {Foreign(f, Crc32c) :
                   f \in {<<{}>>, <<discard, delete>>, <<discard, discard, discard>>}}

(* The theorems speak of these bundles and of these neighbours. *)
ASSUME OriginsAreGood == \A o \in MCOrigins : GoodOrigin(o)

ASSUME NeighboursAreReadable == \A n \in 1 .. NumNodes : Readable(fromUri(Uri[n]))

(* An anonymous bundle is none of them: its source is not read back. *)
MCAnonymous ==
  {EndpointSend(plain, Dest, Local, TRUE, 2, a, h, c) : a \in BOOLEAN, h \in {0, 3}, c \in {Crcs, NoCrcs}}
=============================================================================
