--------------------------- MODULE MCBundleAgent ---------------------------
(***************************************************************************)
(* Values for BundleAgent's constants.  The bundles are model values; what *)
(* the callbacks reply is a function, which a configuration file cannot    *)
(* write.                                                                  *)
(***************************************************************************)
EXTENDS BundleAgent

CONSTANTS b1, b2, b3, b4

(* The callback that receives b1 answers with b2. *)
MCReplies == (b1 :> b2)

=============================================================================
