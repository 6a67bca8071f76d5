------------------------ MODULE MCHardwareLifecycle ------------------------
(***************************************************************************)
(* Small instances of HardwareLifecycle for TLC.                           *)
(***************************************************************************)
EXTENDS HardwareLifecycle

CONSTANTS d1, d2, k1, k2, ns1, ns2

\* All devices go by one name, whatever their records say.
SharedName == [d \in Devices |-> [i \in Invs |-> k1]]

\* d1 and d2 go by one name, unless d2 has the record "own".
PartlyShared == [d \in Devices |-> [i \in Invs |-> IF d = d2 /\ i = "own" THEN k2 ELSE k1]]

\* The record "renamed" gives a device another name.
Renaming == [d \in Devices |-> [i \in Invs |-> IF i = "renamed" THEN k2 ELSE k1]]

\* d1 comes before d2 in the answers of NetBox.
ListOrder == [d \in Devices |-> IF d = d1 THEN 1 ELSE 2]

\* All objects are in the controller's namespace.
OneNamespace == [k \in Keys |-> ns1]

\* k2 belongs to another tenant.
TwoNamespaces == [k \in Keys |-> IF k = k2 THEN ns2 ELSE ns1]
=============================================================================
