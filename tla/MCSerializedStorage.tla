------------------------- MODULE MCSerializedStorage -------------------------
(***************************************************************************)
(* A small serialized storage for TLC: four bundles, one of them large;    *)
(* a removed bundle gives back half or more of what it took.               *)
(***************************************************************************)
EXTENDS SerializedStorage

MCBundles == 1 .. 4
MCReceivedAt == <<2, 1, 0, 1>>
MCSize == <<2, 2, 4, 2>>
MCSerialized == <<1, 1, 3, 1>>
=============================================================================
