------------------------- MODULE MCEndpointRegistry -------------------------
(***************************************************************************)
(* Values for EndpointRegistry: e1 has a URI of its own, e2 and e3 share   *)
(* one, and e4's is not valid.                                             *)
(***************************************************************************)
EXTENDS EndpointRegistry, TLC

CONSTANTS e1, e2, e3, e4, u1, u2, u4

MCUri == (e1 :> u1) @@ (e2 :> u2) @@ (e3 :> u2) @@ (e4 :> u4)

=============================================================================
