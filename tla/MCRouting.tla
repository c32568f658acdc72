----------------------------- MODULE MCRouting -----------------------------
(***************************************************************************)
(* Builds of the node for Routing.                                         *)
(***************************************************************************)
EXTENDS Routing

CONSTANTS p1, p2

Build(router, clas, key) == [router |-> router, clas |-> clas, keyByURI |-> key]

(* The broadcast router with a CLA of either kind; the epidemic router     *)
(* with one that can only broadcast, with a CLA of either kind, and with   *)
(* a storage that files nodes by identifier.                               *)
MCBuilds ==
  {Build("broadcast", <<"serial", "ble">>, TRUE),
   Build("epidemic", <<"serial">>, TRUE),
   Build("epidemic", <<"serial", "ble">>, TRUE),
   Build("epidemic", <<"lora">>, FALSE)}

=============================================================================
