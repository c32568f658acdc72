------------------------------ MODULE MCLoRaCLA ------------------------------
(***************************************************************************)
(* A small LoRa node for TLC: one task that sends bundles, the advertising *)
(* task, and two packets of other nodes.  A bundle takes all of the        *)
(* budget; an advertisement takes half of it without a hash, all of it     *)
(* with one, and is too large with two.                                    *)
(***************************************************************************)
EXTENDS LoRaCLA

MCKind == [p \in Packets |-> "forward"]
MCSizes == {2}
MCAirTime == [s \in AllSizes |-> s]
MCAdvertSize == [n \in 0 .. Cardinality(Packets) |-> n + 1]
=============================================================================
