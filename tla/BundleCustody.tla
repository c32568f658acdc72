---------------------------- MODULE BundleCustody ----------------------------
(***************************************************************************)
(* What the Bundle Protocol Agent promises about one bundle, without tasks,*)
(* queues or storage: a node takes custody of a bundle at most once,       *)
(* delivers it locally at most once and only while it has custody, and     *)
(* once custody is given up the bundle never comes back.                   *)
(***************************************************************************)
EXTENDS Integers

CONSTANTS
  Bundles,  \* the bundle IDs
  Local     \* those addressed to an endpoint of this node

VARIABLES
  known,     \* bundles the node has seen
  held,      \* bundles the node has custody of
  delivered  \* how often each bundle was delivered locally

custodyVars == <<known, held, delivered>>

CustodyInit ==
  /\ known = {}
  /\ held = {}
  /\ delivered = [b \in Bundles |-> 0]

(* The bundle is refused by a check of bundleReception. *)
Refuse(b) ==
  /\ b \notin known
  /\ known' = known \cup {b}
  /\ UNCHANGED <<held, delivered>>

TakeCustody(b) ==
  /\ b \notin known
  /\ known' = known \cup {b}
  /\ held' = held \cup {b}
  /\ UNCHANGED delivered

Deliver(b) ==
  /\ b \in held \cap Local
  /\ delivered[b] = 0
  /\ delivered' = [delivered EXCEPT ![b] = 1]
  /\ UNCHANGED <<known, held>>

(* Forwarded, expired, evicted or cancelled. *)
Release(b) ==
  /\ b \in held
  /\ held' = held \ {b}
  /\ UNCHANGED <<known, delivered>>

CustodyNext == \E b \in Bundles : Refuse(b) \/ TakeCustody(b) \/ Deliver(b) \/ Release(b)

CustodySpec == CustodyInit /\ [][CustodyNext]_custodyVars

=============================================================================
