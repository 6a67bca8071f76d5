-------------------------- MODULE MCClusterReports --------------------------
(***************************************************************************)
(* Two or three clusters with up to four members, a page being of two, and *)
(* two control planes.  A search for a1 (10.0.0.1) also finds a2           *)
(* (10.0.0.10).                                                            *)
(***************************************************************************)
EXTENDS ClusterReports

Cluster(n, name, type) == [id |-> n, name |-> name, type |-> type, status |-> "active"]

\* An index: what the CAPI object of k1 says, which cluster d2 is in, which
\* addresses NetBox knows, and what Tailscale knows of k1.
Index ==
    [capi : {"absent", "none", "True", "False", "Other"}, d2 : {1, 2}, ipam : {{}}, ts : {NoDevice}]
    \cup [capi : {"True"}, d2 : {1}, ipam : SUBSET {"a1", "a2", "t1"},
          ts : {NoDevice, [address |-> "k1.ts.net", ip |-> Blank], [address |-> "k1.ts.net", ip |-> "t1"]}]

Content(x) ==
    [clusters  |-> <<Cluster(1, "k1", "managed"), Cluster(2, "k2", "standalone")>>
                   \o IF x.capi = "Other" THEN <<Cluster(3, "k3", "standalone")>> ELSE <<>>,
     members   |-> [i \in {1, 2, 3} |->
                      [devices |-> IF i = 1 THEN IF x.d2 = 1 THEN <<"d1", "d2">> ELSE <<"d1">>
                                   ELSE IF i = 3 THEN <<>>
                                   ELSE IF x.d2 = 2 THEN <<"d2", "d3", "d4">> ELSE <<"d3", "d4">>,
                       vms |-> IF i = 2 THEN <<"v1">> ELSE <<>>]],
     capi      |-> [n \in {"k1", "k2", "k3"} |-> IF n = "k1" THEN x.capi ELSE "absent"],
     planes    |-> <<[name |-> "k1", ips |-> <<"a1", Blank, "a2">>, exposed |-> TRUE]>>
                   \o IF x.capi = "False" THEN <<>>
                      ELSE <<[name |-> "k2", ips |-> <<"a2">>, exposed |-> FALSE]>>,
     tailscale |-> [n \in {"k1", "k2"} |-> IF n = "k1" THEN x.ts ELSE NoDevice],
     ipam      |-> [a \in {"a1", "a2", "t1"} |-> IF a \in x.ipam THEN "active" ELSE NoRecord]]

MCWorlds == [x \in Index |-> Content(x)]
MCSearch == [a \in {"a1", "a2", "t1"} |-> IF a = "a1" THEN {"a1", "a2"} ELSE {a}]

Options ==
    [endpoint |-> TRUE, tokenLength |-> 40, output |-> FALSE, sites |-> <<Blank>>, roles |-> <<Blank>>,
     racks |-> <<Blank>>, tenants |-> <<"t">>, namespaces |-> <<Blank>>, clusters |-> <<Blank>>]

MCScenarios ==
    {[w |-> x, kind |-> k, args |-> a] :
        x \in Index, k \in {"show", "ipaddr"},
        a \in {Options, [Options EXCEPT !.clusters = <<"k2", "k3">>], [Options EXCEPT !.clusters = <<Blank, "k1">>],
               [Options EXCEPT !.tenants = <<Blank>>]}}

Edited == {x \in Index : x.capi \in {"False", "True"}}
=============================================================================
