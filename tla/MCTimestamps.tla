---------------------------- MODULE MCTimestamps ----------------------------
(***************************************************************************)
(* Values for Timestamps: two endpoints, two tasks that send, model values *)
(* all; the tasks do the same, so they are symmetric for safety, but the   *)
(* run also checks liveness and takes no symmetry.                         *)
(***************************************************************************)
EXTENDS Timestamps

CONSTANTS e1, e2, t1, t2

=============================================================================
