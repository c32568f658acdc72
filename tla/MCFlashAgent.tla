---------------------------- MODULE MCFlashAgent ----------------------------
(***************************************************************************)
(* FlashAgent for TLC: the bundles are the numbers 1 to NumBundles.        *)
(***************************************************************************)
EXTENDS FlashAgent

CONSTANT NumBundles

MCBundles == 1 .. NumBundles

=============================================================================
