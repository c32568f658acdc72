------------------------------ MODULE MCBLECLA ------------------------------
(***************************************************************************)
(* A BLE node with one peer for TLC.                                       *)
(***************************************************************************)
EXTENDS BLECLA
=============================================================================
