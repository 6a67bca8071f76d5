--------------------------- MODULE MCClusterSync ---------------------------
(***************************************************************************)
(* Small instances of ClusterSync for TLC.                                 *)
(***************************************************************************)
EXTENDS ClusterSync

CONSTANTS c1, c2, a1, a2, t1

\* c1 comes first in the answers of NetBox.
ByName == [c \in Clusters |-> IF c = c1 THEN 1 ELSE 2]

\* c1, if managed, may be announced under a1, and c2 under a2.
OwnAddresses ==
    [c \in Clusters |-> {a \in Addrs : c \in Managed /\ a = IF c = c1 THEN a1 ELSE a2}]

\* c1 alone is exposed through Tailscale, or none is.
FirstOnTailscale == [c \in Clusters |-> IF c = c1 THEN t1 ELSE NoAddr]
NoneOnTailscale  == [c \in Clusters |-> NoAddr]

\* NetBox compares the beginning of the text: a search for a1 (10.0.0.1) finds
\* a2 (10.0.0.10) and t1 (10.0.0.100) too.
PrefixSearch == [a \in Addrs |-> IF a = a1 THEN Addrs ELSE {a}]
=============================================================================
