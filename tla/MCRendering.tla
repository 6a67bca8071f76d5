---------------------------- MODULE MCRendering ----------------------------
(***************************************************************************)
(* Small inventories and command lines for TLC.  Device 1 has two          *)
(* interfaces and the addresses a and b, device 2 one of each; in the      *)
(* layout "wide" device 1 has an interface and an address, and with        *)
(* "crowd" NetBox has a device more than there are on a page.              *)
(***************************************************************************)
EXTENDS Rendering

\* "<interface>.<id>", as far as it occurs.
MCSubName(iface, vlan) ==
    CASE iface = "eth0" /\ vlan = 5 -> "eth0.5"
      [] iface = "eth0" /\ vlan = 6 -> "eth0.6"
      [] iface = "eth1" /\ vlan = 5 -> "eth1.5"
      [] iface = "eth0.5" /\ vlan = 5 -> "eth0.5.5"

\* An index: on which interfaces a and b are, the VLAN of their prefixes (0:
\* none, -1: no prefix), the VLANs tagged on eth0, whether b and eth1 carry
\* the DHCP tag, how things are named, and what there is to say of device 2.
Index ==
    [layout : {"one", "two"}, pa : {0, 5}, pb : {-1, 0, 5, 6}, tagged : {{5}, {5, 6}},
     dhcp : BOOLEAN, naming : {"plain"}, second : {"own"}]
    \cup
    [layout : {"two"}, pa : {5}, pb : {5, 6}, tagged : {{5, 6}}, dhcp : BOOLEAN,
     naming : {"shared", "several", "like_iface", "dotted"}, second : {"own"}]
    \cup
    [layout : {"two"}, pa : {5}, pb : {5}, tagged : {{5, 6}}, dhcp : {FALSE}, naming : {"plain"},
     second : {"twin", "nameless", "gone", "elsewhere", "installed"}]
    \cup
    [layout : {"wide", "two"}, pa : {5}, pb : {6}, tagged : {{5, 6}}, dhcp : BOOLEAN,
     naming : {"plain"}, second : {"own", "crowd"}]

Device(n, name, site) ==
    [id |-> n, name |-> name, status |-> "staged", primary |-> TRUE, regions |-> "r",
     sites |-> site, locations |-> "l", tenants |-> "t", roles |-> "worker",
     racks |-> n, cluster |-> n]

Second(x, status) ==
    CASE x = "crowd" -> <<[Device(2, "n2", "s1") EXCEPT !.status = status],
                          [Device(3, "n3", "s1") EXCEPT !.status = status]>>
      [] x = "own" -> <<Device(2, "n2", "s1")>>
      [] x = "installed" -> <<[Device(2, "n2", "s1") EXCEPT !.status = "active"]>>
      [] x = "twin" -> <<Device(2, "n1", "s1")>>
      [] x = "nameless" -> <<Device(2, NoName, "s1")>>
      [] x = "gone" -> <<>>
      [] x = "elsewhere" -> <<Device(2, "n2", "s2")>>

Iface(n, name, tagged, dhcp) == [id |-> n, name |-> name, tagged |-> tagged, dhcp |-> dhcp]

A(dhcp) == [addr |-> "a", dhcp |-> dhcp]
B(dhcp) == [addr |-> "b", dhcp |-> dhcp]
C       == [addr |-> "c", dhcp |-> FALSE]
D       == [addr |-> "d", dhcp |-> FALSE]

\* Two VLANs may have one name, one id several, and a VLAN the name of an
\* interface.
VlanName(naming, a, vlan) ==
    CASE naming = "shared" -> "lan"
      [] naming = "several" -> IF a = "a" THEN "lan" ELSE "storage"
      [] naming = "like_iface" -> IF a = "a" THEN "eth1" ELSE "lan"
      [] OTHER -> IF vlan = 5 THEN "lan" ELSE "storage"

Content(x) ==
    LET status    == IF x.dhcp THEN "active" ELSE "staged"
        vlan(a)   == CASE a = "a" -> x.pa [] a = "b" -> x.pb [] a = "c" -> 6 [] a = "d" -> 5
        second    == IF x.naming = "dotted" THEN "eth0.5" ELSE "eth1"
        wide      == x.layout = "wide"
    IN  [devices  |-> <<[Device(1, "n1", "s1") EXCEPT !.status = status]>> \o Second(x.second, status),
         clusters |-> [i \in {1, 2} |-> IF i = 2 /\ x.second = "installed" THEN "k3"
                                        ELSE IF i = 1 THEN "k1" ELSE "k2"],
         ifaces   |-> [d \in {1, 2, 3} |->
                         CASE d = 1 -> <<Iface(11, "eth0", x.tagged, FALSE), Iface(12, second, {5}, x.dhcp)>>
                                       \o (IF wide THEN <<Iface(13, "eth2", {}, FALSE)>> ELSE <<>>)
                           [] d = 2 -> <<Iface(21, "eth0", {5}, FALSE)>>
                           [] d = 3 -> <<>>],
         addrs    |-> [i \in {11, 12, 13, 21} |->
                         CASE i = 11 -> IF wide THEN <<A(FALSE), B(FALSE), D>>
                                        ELSE IF x.layout = "one" THEN <<A(FALSE), B(x.dhcp)>> ELSE <<A(FALSE)>>
                           [] i = 12 -> IF x.layout = "two" THEN <<B(x.dhcp)>> ELSE <<>>
                           [] i = 13 -> <<>>
                           [] i = 21 -> <<C>>],
         prefix   |-> [a \in {"a", "b", "c", "d"} |-> vlan(a)],
         vname    |-> [a \in {"a", "b", "c", "d"} |-> VlanName(x.naming, a, vlan(a))],
         dns      |-> [d \in {1, 2, 3} |->
                         IF d = 1 THEN "n1.example" ELSE IF x.second = "nameless" THEN "n2.example" ELSE ""]]

MCInventories == [x \in Index |-> Content(x)]

\* The inventories of the run meet what the theorem on documents asks of them.
ASSUME InventoriesApart == IfacesApart

Edited ==
    {x \in Index : x.second \in {"gone", "installed", "nameless"}}
    \cup {[layout |-> "one", pa |-> 0, pb |-> 6, tagged |-> {5}, dhcp |-> FALSE, naming |-> "plain", second |-> "own"],
          [layout |-> "two", pa |-> 5, pb |-> 6, tagged |-> {5, 6}, dhcp |-> FALSE, naming |-> "plain", second |-> "crowd"]}

Options ==
    [endpoint |-> TRUE, tokenLength |-> 40, output |-> TRUE, sites |-> <<"s1">>, roles |-> <<"worker">>,
     regions |-> <<Blank>>, locations |-> <<Blank>>, tenants |-> <<Blank>>,
     namespaces |-> <<Blank>>, racks |-> <<Blank>>, clusters |-> <<Blank>>]

Other == {x \in Index : x.second \notin {"own", "crowd"}}

MCScenarios ==
    {[nb |-> x, args |-> Options] : x \in Index}
    \cup {[nb |-> x, args |-> a] : x \in Other, a \in
            {[Options EXCEPT !.sites = <<Blank, "s1">>],
             [Options EXCEPT !.racks = <<1, Blank>>, !.tenants = <<"t">>],
             [Options EXCEPT !.racks = <<0, 1>>],
             [Options EXCEPT !.clusters = <<"k2">>],
             [Options EXCEPT !.clusters = <<"k3">>],
             [Options EXCEPT !.racks = <<BadRack, 1>>],
             [Options EXCEPT !.tokenLength = 39],
             [Options EXCEPT !.output = FALSE]}}
=============================================================================
