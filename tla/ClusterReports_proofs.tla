----------------------- MODULE ClusterReports_proofs ------------------------
(***************************************************************************)
(* Proofs about ClusterReports, for every content of NetBox, Kubernetes    *)
(* and Tailscale, every command line, page size and bound.                 *)
(***************************************************************************)
EXTENDS ClusterReports, Lists_proofs

-----------------------------------------------------------------------------
(* Inductive invariants.                                                   *)

AllClusters == UNION {Parts(Worlds[x].clusters) : x \in DOMAIN Worlds}
AllPlanes == UNION {Parts(Worlds[x].planes) : x \in DOMAIN Worlds}

ClusterRows == [name : STRING, type : STRING, status : STRING, devices : Seq(STRING),
                ready : {"", "true", "false", "unknown"}]
AddressRows == [cluster : STRING, address : STRING \cup {Blank}, ip : DOMAIN Search \cup {Blank},
                source : {"cilium-lb-ipam", "tailscale"}, assigned : BOOLEAN, status : STRING \cup {Blank}]

\* Types, and what there is at which step of which report.
Types ==
    /\ w \in seen /\ seen \subseteq DOMAIN Worlds
    /\ kind \in {"show", "ipaddr"}
    /\ exit \in {"running", "ok", "failed"}
    /\ exit # "running" <=> pc = "end"
    /\ kind = "show" =>
          /\ pc \in {"start", "list", "devices", "vms", "capi", "end"}
          /\ todo \in Seq(AllClusters) /\ rows \in Seq(ClusterRows)
    /\ kind = "ipaddr" =>
          /\ pc \in {"start", "list", "plane", "addresses", "tailscale", "end"}
          /\ todo \in Seq(AllPlanes) /\ rows \in Seq(AddressRows)
          /\ \A r \in Parts(rows) : r.assigned <=> r.status # Blank
    /\ pc \in {"vms", "capi", "addresses", "tailscale"} => todo # <<>>
    /\ pc \in {"vms", "capi"} => row \in ClusterRows
    /\ pc = "tailscale" => row \in TailscaleRecord
    /\ ips \in Seq(DOMAIN Search)
    /\ edits \in 0..MaxEdits /\ faults \in 0..MaxFaults

\* d was a member of the cluster with this id in one of the worlds in S, and
\* so were the devices of a row.
WasMember(S, id, d) ==
    \E x \in S : d \in Parts(Worlds[x].members[id].devices) \cup Parts(Worlds[x].members[id].vms)
MemberRow(S, r) ==
    \E c \in UNION {Parts(Worlds[x].clusters) : x \in S} :
        c.name = r.name /\ \A d \in Parts(r.devices) : WasMember(S, c.id, d)

\* The rows so far, the unfinished one included, show members of clusters.
Membership ==
    kind = "show" =>
        /\ \A c \in Parts(todo) : \E x \in seen : c \in Parts(Worlds[x].clusters)
        /\ \A r \in Parts(rows) : MemberRow(seen, r)
        /\ pc \in {"vms", "capi"} =>
              row.name = todo[1].name /\ \A d \in Parts(row.devices) : WasMember(seen, todo[1].id, d)

\* An address of a control plane has a row.
HasRow(name, a) == \E r \in Parts(rows) : r.cluster = name /\ r.ip = a

Throughout(p) == (\A x \in seen : p \in Parts(Worlds[x].planes)) /\ NamedInIPAddr(p.name)

\* A control plane that is there throughout is still to come or has its rows;
\* the current one has rows for the addresses that are no longer to come.
Announcing ==
    kind = "ipaddr" =>
        /\ pc \in {"plane", "addresses", "tailscale"} \/ exit = "ok" =>
              \A p \in AllPlanes : Throughout(p) =>
                  p \in Parts(todo) \/ \A a \in Parts(Announced(p)) : HasRow(p.name, a)
        /\ pc \in {"addresses", "tailscale"} =>
              \A a \in Parts(Announced(todo[1])) : a \in Parts(ips) \/ HasRow(todo[1].name, a)
        /\ pc = "tailscale" => ips = <<>>
        /\ exit = "ok" => todo = <<>>

\* Unless a request failed, what is not assigned was unknown to NetBox.
Unassigned ==
    kind = "ipaddr" /\ faults = 0 =>
        \A r \in Parts(rows) : ~r.assigned /\ r.ip # Blank => \E x \in seen : Worlds[x].ipam[r.ip] = NoRecord

\* The row the reference asks for, in world x.
RefRow(x, c) ==
    [name |-> c.name, type |-> c.type, status |-> c.status,
     devices |-> Members(x, c.id, "devices") \o Members(x, c.id, "vms"),
     ready |-> IF c.type = "managed" THEN Readiness(Worlds[x].capi[c.name]) ELSE ""]

\* The row of a cluster once its devices are known, and once its virtual
\* machines are.
Row1(x, c) == [name |-> c.name, type |-> c.type, status |-> c.status, ready |-> "",
               devices |-> Members(x, c.id, "devices")]
Row2(x, c) == [Row1(x, c) EXCEPT !.devices = Row1(x, c).devices \o Members(x, c.id, "vms")]

\* Rows and clusters to come make up the list L.
Known(L) ==
    /\ Len(rows) + Len(todo) = Len(L)
    /\ \A i \in 1..Len(todo) : todo[i] = L[Len(rows) + i]
    /\ \A i \in 1..Len(rows) : rows[i] = RefRow(w, L[i])

\* If nothing is edited and no request fails, that list is the one asked for;
\* the unfinished row is a part of the reference.
Reference ==
    /\ kind = "show" /\ seen = {w} /\ faults = 0 /\ (pc \in {"devices", "vms", "capi"} \/ exit = "ok") =>
          /\ Known(ListedClusters(w))
          /\ pc = "vms" => row = Row1(w, todo[1])
          /\ pc = "capi" => row = Row2(w, todo[1]) /\ todo[1].type = "managed"
    /\ exit = "ok" => todo = <<>>
    /\ pc \in {"start", "list"} => rows = <<>>

-----------------------------------------------------------------------------
(* Lists and records.                                                      *)

\* A page is a part of the list.
LEMMA PageParts ==
    ASSUME NEW S, NEW s \in Seq(S)
    PROVE  Page(s) \in Seq(S) /\ Parts(Page(s)) \subseteq Parts(s)
BY UptoParts, ReportsAssumption DEF Page

\* The records of all worlds.
LEMMA RecordTypes ==
    /\ AllClusters \subseteq ClusterRecord /\ AllPlanes \subseteq PlaneRecord
    /\ \A x \in DOMAIN Worlds :
          /\ Worlds[x].clusters \in Seq(AllClusters)
          /\ Worlds[x].planes \in Seq(AllPlanes)
<1>1. ASSUME NEW x \in DOMAIN Worlds
      PROVE  Worlds[x].clusters \in Seq(AllClusters) /\ Worlds[x].planes \in Seq(AllPlanes)
  <2>1. Worlds[x].clusters \in Seq(ClusterRecord) /\ Worlds[x].planes \in Seq(PlaneRecord)
    BY ReportsAssumption
  <2>2. Parts(Worlds[x].clusters) \subseteq AllClusters /\ Parts(Worlds[x].planes) \subseteq AllPlanes
    BY DEF AllClusters, AllPlanes
  <2> QED
    BY <2>1, <2>2, PartsWithin
<1>2. ASSUME NEW x \in DOMAIN Worlds
      PROVE  Parts(Worlds[x].clusters) \subseteq ClusterRecord /\ Parts(Worlds[x].planes) \subseteq PlaneRecord
  <2>1. Worlds[x].clusters \in Seq(ClusterRecord) /\ Worlds[x].planes \in Seq(PlaneRecord)
    BY ReportsAssumption
  <2> QED
    BY <2>1, PartsType
<1> QED
  BY <1>1, <1>2 DEF AllClusters, AllPlanes

\* What is listed, by the first request.
LEMMA ListedTypes ==
    ASSUME NEW x \in DOMAIN Worlds
    PROVE  /\ ListedClusters(x) \in Seq(AllClusters)
           /\ Parts(ListedClusters(x)) \subseteq Parts(Worlds[x].clusters)
           /\ ListedPlanes(x) \in Seq(AllPlanes)
           /\ Parts(ListedPlanes(x)) = {p \in Parts(Worlds[x].planes) : NamedInIPAddr(p.name)}
<1> DEFINE C == Worlds[x].clusters
           K == {c \in Parts(C) : NamedInShow(c.name)}
           P == Worlds[x].planes
           L == {p \in Parts(P) : NamedInIPAddr(p.name)}
<1>1. C \in Seq(AllClusters) /\ P \in Seq(AllPlanes) /\ L \subseteq Parts(P)
  BY RecordTypes
<1>2. ListedClusters(x) = Page(Only(C, K)) /\ ListedPlanes(x) = Only(P, L)
  BY DEF ListedClusters, ListedPlanes
<1> HIDE DEF C, P, K, L
<1>3. Only(C, K) \in Seq(AllClusters) /\ Parts(Only(C, K)) = Parts(C) \cap K
  BY <1>1, OnlyParts
<1>4. Only(P, L) \in Seq(AllPlanes) /\ Parts(Only(P, L)) = Parts(P) \cap L
  BY <1>1, OnlyParts
<1>5. Page(Only(C, K)) \in Seq(AllClusters) /\ Parts(Page(Only(C, K))) \subseteq Parts(C)
  BY <1>3, PageParts
<1>6. ListedClusters(x) \in Seq(AllClusters) /\ Parts(ListedClusters(x)) \subseteq Parts(C)
  BY <1>2, <1>5
<1>7. ListedPlanes(x) \in Seq(AllPlanes) /\ Parts(ListedPlanes(x)) = L
  BY <1>1, <1>2, <1>4
<1> QED
  BY <1>6, <1>7 DEF C, P, L

\* The members of a cluster on the first page.
LEMMA MembersTypes ==
    ASSUME NEW x \in DOMAIN Worlds, NEW c \in AllClusters, NEW what \in {"devices", "vms"}
    PROVE  /\ Members(x, c.id, what) \in Seq(STRING)
           /\ Parts(Members(x, c.id, what)) \subseteq Parts(Worlds[x].members[c.id][what])
<1>1. Worlds[x].members[c.id].devices \in Seq(STRING) /\ Worlds[x].members[c.id].vms \in Seq(STRING)
  BY ReportsAssumption DEF AllClusters
<1>2. Worlds[x].members[c.id][what] \in Seq(STRING)
  BY <1>1
<1> QED
  BY <1>2, PageParts DEF Members

\* The addresses announced can be searched for.
LEMMA AnnouncedTypes ==
    ASSUME NEW p \in AllPlanes
    PROVE  Announced(p) \in Seq(DOMAIN Search)
<1> DEFINE A == DOMAIN Search \cup {Blank}
           K == Parts(p.ips) \ {Blank}
<1>1. p.ips \in Seq(A)
  BY RecordTypes DEF PlaneRecord
<1>2. Announced(p) = Only(p.ips, K)
  BY DEF Announced
<1>3. Parts(p.ips) \subseteq A
  BY <1>1, PartsType
<1>4. K \subseteq DOMAIN Search
  BY <1>3
<1> HIDE DEF A, K
<1>5. Only(p.ips, K) \in Seq(A) /\ Parts(Only(p.ips, K)) = Parts(p.ips) \cap K
  BY <1>1, OnlyParts
<1> QED
  BY <1>2, <1>4, <1>5, PartsWithin

\* What the condition of a CAPI object is turned into.
LEMMA ReadinessTypes ==
    ASSUME NEW status
    PROVE  Readiness(status) \in {"", "true", "false", "unknown"}
BY Zenon DEF Readiness

\* What NetBox knows of an address; blank means that it does not know it.
LEMMA StatusTypes ==
    ASSUME NEW x \in DOMAIN Worlds, NEW a \in DOMAIN Search, NEW status \in IPStatus(x, a)
    PROVE  /\ status \in STRING \cup {Blank}
           /\ status = Blank => Worlds[x].ipam[a] = NoRecord
<1>1. /\ a \in Search[a]
      /\ \A b \in Search[a] : Worlds[x].ipam[b] \in (STRING \ {Blank}) \cup {NoRecord}
  BY ReportsAssumption
<1>2. \A b \in Hits(x, a) : b \in Search[a] /\ Worlds[x].ipam[b] # NoRecord
  BY DEF Hits
<1>3. CASE Hits(x, a) = {}
  <2>1. status = Blank
    BY <1>3 DEF IPStatus
  <2>2. Worlds[x].ipam[a] = NoRecord
    BY <1>1, <1>3 DEF Hits
  <2> QED
    BY <2>1, <2>2
<1>4. CASE Hits(x, a) # {}
  <2>1. PICK b \in Hits(x, a) : status = Worlds[x].ipam[b]
    BY <1>4 DEF IPStatus
  <2> QED
    BY <1>1, <1>2, <2>1
<1> QED
  BY <1>3, <1>4

\* The fields of a row.
RowIs(r, cluster, ip, status) ==
    /\ r \in AddressRows /\ r.cluster = cluster /\ r.ip = ip /\ r.status = status
    /\ r.assigned <=> status # Blank

\* A row has them.
LEMMA RowFields ==
    ASSUME NEW cluster \in STRING, NEW address \in STRING \cup {Blank}, NEW ip \in DOMAIN Search \cup {Blank},
           NEW source \in {"cilium-lb-ipam", "tailscale"}, NEW status \in STRING \cup {Blank}
    PROVE  RowIs(IPRow(cluster, address, ip, source, status), cluster, ip, status)
<1> DEFINE assigned == (status # Blank)
<1>1. assigned \in BOOLEAN
  OBVIOUS
<1>2. IPRow(cluster, address, ip, source, status) =
        [cluster |-> cluster, address |-> address, ip |-> ip, source |-> source,
         assigned |-> assigned, status |-> status]
  BY DEF IPRow
<1> HIDE DEF assigned
<1>3. /\ IPRow(cluster, address, ip, source, status) \in AddressRows
      /\ IPRow(cluster, address, ip, source, status).cluster = cluster
      /\ IPRow(cluster, address, ip, source, status).ip = ip
      /\ IPRow(cluster, address, ip, source, status).status = status
      /\ IPRow(cluster, address, ip, source, status).assigned = assigned
  BY <1>1, <1>2 DEF AddressRows
<1> QED
  BY <1>3, Zenon DEF assigned, RowIs

-----------------------------------------------------------------------------
(* Types.                                                                  *)

\* At the beginning.
LEMMA TypesInit == Init => Types
<1> SUFFICES ASSUME Init PROVE Types
  OBVIOUS
<1>1. PICK s \in Scenarios : w = s.w /\ kind = s.kind
  BY DEF Init
<1>2. w \in DOMAIN Worlds /\ kind \in {"show", "ipaddr"} /\ MaxEdits \in Nat /\ MaxFaults \in Nat
  BY <1>1, ReportsAssumption
<1>3. /\ pc = "start" /\ exit = "running" /\ todo = <<>> /\ ips = <<>> /\ rows = <<>>
      /\ seen = {w} /\ edits = 0 /\ faults = 0
  BY DEF Init
<1>4. \A S : <<>> \in Seq(S)
  OBVIOUS
<1>5. Parts(rows) = {}
  BY <1>3, PartsEmpty
<1> QED
  BY <1>2, <1>3, <1>4, <1>5 DEF Types

\* Faults are counted up to their bound.
LEMMA SpendFaultType ==
    ASSUME faults \in 0..MaxFaults, SpendFault \/ UNCHANGED faults
    PROVE  faults' \in 0..MaxFaults /\ (faults' = 0 => UNCHANGED faults)
BY ReportsAssumption DEF SpendFault

\* Every step of a command leaves its input alone and counts its faults.
LEMMA CommandFrame ==
    ASSUME Command
    PROVE  Input /\ (SpendFault \/ UNCHANGED faults)
<1>1. Input
  BY DEF Command, Start, List, Finish, Devices, VMs, Capi, Plane, Address, Exposure, Tailscale
<1>2. CASE Start \/ List \/ Finish \/ Plane
  BY <1>2 DEF Start, List, Finish, Plane
<1>3. CASE Devices \/ VMs \/ Capi
  BY <1>3 DEF Devices, VMs, Capi
<1>4. CASE Address \/ Exposure \/ Tailscale
  BY <1>4 DEF Address, Exposure, Tailscale
<1> QED
  BY <1>1, <1>2, <1>3, <1>4 DEF Command

\* The devices of a cluster begin its row.
LEMMA DevicesRow ==
    ASSUME Types, Devices
    PROVE  /\ kind = "show" /\ todo # <<>> /\ todo[1] \in AllClusters
           /\ row' \in ClusterRows /\ row'.name = todo[1].name
           /\ \E devices \in {Members(w, todo[1].id, "devices"), <<>>} :
                 /\ devices # Members(w, todo[1].id, "devices") => SpendFault
                 /\ row' = [name |-> todo[1].name, type |-> todo[1].type, status |-> todo[1].status,
                            ready |-> "", devices |-> devices]
                 /\ row'.devices = devices
           /\ pc' = "vms" /\ UNCHANGED <<exit, todo, ips, rows>>
<1>1. pc = "devices" /\ todo # <<>> /\ pc' = "vms" /\ UNCHANGED <<exit, todo, ips, rows>>
  BY DEF Devices
<1>2. kind = "show" /\ todo \in Seq(AllClusters) /\ w \in DOMAIN Worlds
  BY <1>1 DEF Types
<1>3. todo[1] \in AllClusters /\ todo[1] \in ClusterRecord
  BY <1>1, <1>2, PartsTail, RecordTypes
<1>4. PICK devices \in {Members(w, todo[1].id, "devices"), <<>>} :
          /\ devices # Members(w, todo[1].id, "devices") => SpendFault
          /\ row' = [name |-> todo[1].name, type |-> todo[1].type, status |-> todo[1].status,
                     ready |-> "", devices |-> devices]
  BY DEF Devices
<1>5. devices \in Seq(STRING)
  <2>1. Members(w, todo[1].id, "devices") \in Seq(STRING)
    BY <1>2, <1>3, MembersTypes
  <2>2. <<>> \in Seq(STRING)
    OBVIOUS
  <2> QED
    BY <2>1, <2>2
<1>6. row' \in ClusterRows /\ row'.name = todo[1].name /\ row'.devices = devices
  BY <1>3, <1>4, <1>5 DEF ClusterRows, ClusterRecord
<1> QED
  BY <1>1, <1>2, <1>3, <1>4, <1>6

\* The virtual machines follow them.
LEMMA VMsRow ==
    ASSUME Types, VMs
    PROVE  /\ kind = "show" /\ todo # <<>> /\ todo[1] \in AllClusters
           /\ \E vms \in {Members(w, todo[1].id, "vms"), <<>>}, complete \in ClusterRows :
                 /\ vms # Members(w, todo[1].id, "vms") => SpendFault
                 /\ complete = [row EXCEPT !.devices = row.devices \o vms]
                 /\ complete.name = row.name /\ complete.devices = row.devices \o vms
                 /\ vms \in Seq(STRING)
                 /\ \/ row.type = "managed" /\ row' = complete /\ pc' = "capi" /\ UNCHANGED <<rows, todo>>
                    \/ /\ row.type # "managed"
                       /\ rows' = Append(rows, complete) /\ row' = NoRow
                       /\ pc' = "devices" /\ todo' = Tail(todo)
           /\ pc = "vms" /\ UNCHANGED <<exit, ips>>
<1>1. pc = "vms" /\ UNCHANGED <<exit, ips>>
  BY DEF VMs
<1>2. kind = "show" /\ todo \in Seq(AllClusters) /\ todo # <<>> /\ w \in DOMAIN Worlds /\ row \in ClusterRows
  BY <1>1 DEF Types
<1>3. todo[1] \in AllClusters
  BY <1>2, PartsTail
<1>4. PICK vms \in {Members(w, todo[1].id, "vms"), <<>>} :
          /\ vms # Members(w, todo[1].id, "vms") => SpendFault
          /\ LET complete == [row EXCEPT !.devices = row.devices \o vms]
             IN  IF row.type = "managed"
                 THEN row' = complete /\ pc' = "capi" /\ UNCHANGED <<rows, todo>>
                 ELSE /\ rows' = Append(rows, complete) /\ row' = NoRow
                      /\ pc' = "devices" /\ todo' = Tail(todo)
  BY DEF VMs
<1>5. vms \in Seq(STRING)
  <2>1. Members(w, todo[1].id, "vms") \in Seq(STRING)
    BY <1>2, <1>3, MembersTypes
  <2>2. <<>> \in Seq(STRING)
    OBVIOUS
  <2> QED
    BY <2>1, <2>2
<1>6. row.devices \o vms \in Seq(STRING)
  BY <1>2, <1>5, PartsConcat DEF ClusterRows
<1> DEFINE complete == [row EXCEPT !.devices = row.devices \o vms]
<1>7. /\ complete \in ClusterRows
      /\ complete.name = row.name /\ complete.devices = row.devices \o vms
  BY <1>2, <1>6 DEF ClusterRows
<1>8. \/ row.type = "managed" /\ row' = complete /\ pc' = "capi" /\ UNCHANGED <<rows, todo>>
      \/ /\ row.type # "managed"
         /\ rows' = Append(rows, complete) /\ row' = NoRow
         /\ pc' = "devices" /\ todo' = Tail(todo)
  BY <1>4
<1>9. complete = [row EXCEPT !.devices = row.devices \o vms]
  OBVIOUS
<1> HIDE DEF complete
<1>10. \E full \in ClusterRows :
                 /\ full = [row EXCEPT !.devices = row.devices \o vms]
                 /\ full.name = row.name /\ full.devices = row.devices \o vms
                 /\ \/ row.type = "managed" /\ row' = full /\ pc' = "capi" /\ UNCHANGED <<rows, todo>>
                    \/ /\ row.type # "managed"
                       /\ rows' = Append(rows, full) /\ row' = NoRow
                       /\ pc' = "devices" /\ todo' = Tail(todo)
  BY <1>7, <1>8, <1>9
<1> QED
  BY <1>1, <1>2, <1>3, <1>4, <1>5, <1>10

\* The CAPI object completes the row of a managed cluster.
LEMMA CapiRow ==
    ASSUME Types, Capi
    PROVE  /\ kind = "show" /\ todo # <<>> /\ todo[1] \in AllClusters
           /\ \E status, complete :
                 /\ status # Worlds[w].capi[row.name] => SpendFault
                 /\ complete = [row EXCEPT !.ready = Readiness(status)]
                 /\ complete \in ClusterRows
                 /\ complete.name = row.name /\ complete.devices = row.devices
                 /\ rows' = Append(rows, complete)
           /\ pc = "capi" /\ pc' = "devices" /\ todo' = Tail(todo) /\ UNCHANGED <<exit, ips>>
<1>1. pc = "capi" /\ pc' = "devices" /\ todo' = Tail(todo) /\ UNCHANGED <<exit, ips>>
  BY DEF Capi
<1>2. kind = "show" /\ todo \in Seq(AllClusters) /\ todo # <<>> /\ row \in ClusterRows
  BY <1>1 DEF Types
<1>3. todo[1] \in AllClusters
  BY <1>2, PartsTail
<1>4. PICK status : /\ status # Worlds[w].capi[row.name] => SpendFault
                    /\ rows' = Append(rows, [row EXCEPT !.ready = Readiness(status)])
  BY DEF Capi, World
<1> DEFINE complete == [row EXCEPT !.ready = Readiness(status)]
<1>5. complete \in ClusterRows /\ complete.name = row.name /\ complete.devices = row.devices
  BY <1>2, ReadinessTypes DEF ClusterRows
<1>6. rows' = Append(rows, complete) /\ complete = [row EXCEPT !.ready = Readiness(status)]
  BY <1>4
<1> HIDE DEF complete
<1> QED
  BY <1>1, <1>2, <1>3, <1>4, <1>5, <1>6

\* A row of "cluster ipaddr show"; it says "not assigned" of an address NetBox
\* knows only when the request failed.
RowOf(r, cluster, ip) ==
    /\ r \in AddressRows /\ r.cluster = cluster /\ r.ip = ip
    /\ r.assigned <=> r.status # Blank
    /\ ~r.assigned /\ ip # Blank => SpendFault \/ Worlds[w].ipam[ip] = NoRecord

\* An address of the control plane.
LEMMA AddressRowFound ==
    ASSUME Types, Address
    PROVE  /\ kind = "ipaddr" /\ pc = "addresses" /\ todo # <<>> /\ todo[1] \in AllPlanes /\ ips # <<>>
           /\ \E r : RowOf(r, todo[1].name, ips[1]) /\ rows' = Append(rows, r)
           /\ ips' = Tail(ips) /\ UNCHANGED <<pc, exit, todo, row>>
<1>1. pc = "addresses" /\ ips # <<>> /\ ips' = Tail(ips) /\ UNCHANGED <<pc, exit, todo, row>>
  BY DEF Address
<1>2. kind = "ipaddr" /\ todo \in Seq(AllPlanes) /\ todo # <<>> /\ w \in DOMAIN Worlds /\ ips \in Seq(DOMAIN Search)
  BY <1>1 DEF Types
<1>3. todo[1] \in AllPlanes /\ todo[1].name \in STRING
  BY <1>2, PartsTail, RecordTypes DEF PlaneRecord
<1>4. ips[1] \in DOMAIN Search /\ ips[1] \in STRING
  BY <1>1, <1>2, PartsTail, ReportsAssumption
<1>5. PICK status \in IPStatus(w, ips[1]) \cup {Blank} :
          /\ status \notin IPStatus(w, ips[1]) => SpendFault
          /\ rows' = Append(rows, IPRow(todo[1].name, ips[1], ips[1], "cilium-lb-ipam", status))
  BY DEF Address
<1>6. status \in STRING \cup {Blank}
  BY <1>2, <1>4, <1>5, StatusTypes
<1>7. status = Blank => SpendFault \/ Worlds[w].ipam[ips[1]] = NoRecord
  BY <1>2, <1>4, <1>5, StatusTypes
<1> DEFINE r == IPRow(todo[1].name, ips[1], ips[1], "cilium-lb-ipam", status)
<1>8. RowIs(r, todo[1].name, ips[1], status)
  <2>1. /\ ips[1] \in STRING \cup {Blank} /\ ips[1] \in DOMAIN Search \cup {Blank}
        /\ "cilium-lb-ipam" \in {"cilium-lb-ipam", "tailscale"}
    BY <1>4
  <2> QED
    BY <1>3, <1>6, <2>1, RowFields
<1>9. rows' = Append(rows, r)
  BY <1>5
<1> HIDE DEF r
<1>10. RowOf(r, todo[1].name, ips[1])
  BY <1>7, <1>8, Zenon DEF RowOf, RowIs
<1> QED
  BY <1>1, <1>2, <1>3, <1>9, <1>10

\* Its Tailscale device.
LEMMA TailscaleRowFound ==
    ASSUME Types, Tailscale
    PROVE  /\ kind = "ipaddr" /\ pc = "tailscale" /\ todo # <<>> /\ todo[1] \in AllPlanes
           /\ \E r : RowOf(r, todo[1].name, row.ip) /\ rows' = Append(rows, r)
           /\ pc' = "plane" /\ todo' = Tail(todo) /\ UNCHANGED <<exit, ips>>
<1>1. pc = "tailscale" /\ pc' = "plane" /\ todo' = Tail(todo) /\ UNCHANGED <<exit, ips>>
  BY DEF Tailscale
<1>2. kind = "ipaddr" /\ todo \in Seq(AllPlanes) /\ todo # <<>> /\ w \in DOMAIN Worlds /\ row \in TailscaleRecord
  BY <1>1 DEF Types
<1>3. todo[1] \in AllPlanes /\ todo[1].name \in STRING
  BY <1>2, PartsTail, RecordTypes DEF PlaneRecord
<1>4. row.ip \in DOMAIN Search \cup {Blank} /\ row.address \in STRING
  BY <1>2 DEF TailscaleRecord
<1> DEFINE possible == IF row.ip = Blank THEN {Blank} ELSE IPStatus(w, row.ip)
<1>5. PICK status \in possible \cup {Blank} :
          /\ status \notin possible => SpendFault
          /\ rows' = Append(rows, IPRow(todo[1].name, row.address, row.ip, "tailscale", status))
  BY DEF Tailscale
<1>6. status \in STRING \cup {Blank}
  BY <1>2, <1>4, <1>5, StatusTypes
<1>7. status = Blank /\ row.ip # Blank => SpendFault \/ Worlds[w].ipam[row.ip] = NoRecord
  BY <1>2, <1>4, <1>5, StatusTypes
<1> HIDE DEF possible
<1> DEFINE r == IPRow(todo[1].name, row.address, row.ip, "tailscale", status)
<1>8. RowIs(r, todo[1].name, row.ip, status)
  <2>1. /\ row.address \in STRING \cup {Blank} /\ row.ip \in DOMAIN Search \cup {Blank}
        /\ "tailscale" \in {"cilium-lb-ipam", "tailscale"}
    BY <1>4
  <2> QED
    BY <1>3, <1>6, <2>1, RowFields
<1>9. rows' = Append(rows, r)
  BY <1>5
<1> HIDE DEF r
<1>10. RowOf(r, todo[1].name, row.ip)
  BY <1>7, <1>8, Zenon DEF RowOf, RowIs
<1> QED
  BY <1>1, <1>2, <1>3, <1>9, <1>10

\* Each step of a command keeps the types.
LEMMA TypesCommand ==
    ASSUME Types, Command
    PROVE  Types'
<1>1. UNCHANGED <<w, kind, args, seen, edits>>
  BY CommandFrame DEF Input
<1>2. faults' \in 0..MaxFaults
  BY CommandFrame, SpendFaultType DEF Types
<1>3. w \in DOMAIN Worlds
  BY DEF Types
<1>4. ASSUME exit' \in {"ok", "failed"}, pc' = "end", UNCHANGED <<todo, ips, rows>> PROVE Types'
  BY <1>1, <1>2, <1>4 DEF Types
<1>5. CASE Start
  <2>1. CASE pc' = "list" /\ UNCHANGED <<exit, todo, ips, rows>>
    BY <1>1, <1>2, <1>5, <2>1 DEF Types, Start
  <2>2. CASE pc' = "end" /\ exit' = "failed" /\ UNCHANGED <<todo, ips, rows>>
    BY <1>4, <2>2
  <2> QED
    BY <1>5, <2>1, <2>2 DEF Start
<1>6. CASE List
  <2>1. CASE /\ todo' = IF kind = "show" THEN ListedClusters(w) ELSE ListedPlanes(w)
             /\ pc' = IF kind = "show" THEN "devices" ELSE "plane"
             /\ UNCHANGED <<exit, ips, rows>>
    <3>1. ListedClusters(w) \in Seq(AllClusters) /\ ListedPlanes(w) \in Seq(AllPlanes)
      BY <1>3, ListedTypes
    <3>2. pc = "list" /\ exit = "running"
      BY <1>6 DEF List, Types
    <3>3. kind = "show" => todo' \in Seq(AllClusters) /\ pc' = "devices"
      BY <2>1, <3>1
    <3>4. kind = "ipaddr" => todo' \in Seq(AllPlanes) /\ pc' = "plane"
      BY <2>1, <3>1
    <3> QED
      BY <1>1, <1>2, <2>1, <3>2, <3>3, <3>4 DEF Types
  <2>2. CASE pc' = "end" /\ exit' = "failed" /\ UNCHANGED <<todo, ips, rows>>
    BY <1>4, <2>2
  <2> QED
    BY <1>6, <2>1, <2>2 DEF List
<1>7. CASE Finish
  BY <1>4, <1>7 DEF Finish
<1>8. CASE Devices
  <2>1. /\ kind = "show" /\ todo # <<>> /\ row' \in ClusterRows
        /\ pc' = "vms" /\ UNCHANGED <<exit, todo, ips, rows>> /\ pc = "devices"
    BY <1>8, DevicesRow DEF Devices
  <2> QED
    BY <1>1, <1>2, <2>1 DEF Types
<1>9. ASSUME NEW r \in ClusterRows, rows' = Append(rows, r), todo' = Tail(todo), pc' = "devices",
             pc \in {"vms", "capi"}, UNCHANGED <<exit, ips>>, kind = "show"
      PROVE  Types'
  <2>1. rows \in Seq(ClusterRows) /\ todo \in Seq(AllClusters) /\ todo # <<>> /\ exit = "running"
    BY <1>9 DEF Types
  <2>2. rows' \in Seq(ClusterRows) /\ todo' \in Seq(AllClusters)
    BY <1>9, <2>1, PartsAppend, PartsTail
  <2> QED
    BY <1>1, <1>2, <1>9, <2>1, <2>2 DEF Types
<1>10. CASE VMs
  <2>1. PICK complete \in ClusterRows :
          \/ row' = complete /\ pc' = "capi" /\ UNCHANGED <<rows, todo>>
          \/ rows' = Append(rows, complete) /\ pc' = "devices" /\ todo' = Tail(todo)
    BY <1>10, VMsRow
  <2>2. kind = "show" /\ todo # <<>> /\ pc = "vms" /\ UNCHANGED <<exit, ips>>
    BY <1>10, VMsRow
  <2>3. CASE row' = complete /\ pc' = "capi" /\ UNCHANGED <<rows, todo>>
    BY <1>1, <1>2, <2>1, <2>2, <2>3 DEF Types
  <2>4. CASE rows' = Append(rows, complete) /\ pc' = "devices" /\ todo' = Tail(todo)
    BY <1>9, <2>1, <2>2, <2>4
  <2> QED
    BY <2>1, <2>3, <2>4
<1>11. CASE Capi
  <2>1. PICK complete \in ClusterRows : rows' = Append(rows, complete)
    BY <1>11, CapiRow
  <2> QED
    BY <1>9, <1>11, <2>1, CapiRow
<1>12. CASE Plane
  <2>1. /\ pc = "plane" /\ todo # <<>> /\ ips' = Announced(todo[1]) /\ pc' = "addresses"
        /\ UNCHANGED <<exit, todo, row, rows>>
    BY <1>12 DEF Plane
  <2>2. kind = "ipaddr" /\ todo \in Seq(AllPlanes)
    BY <2>1 DEF Types
  <2>3. ips' \in Seq(DOMAIN Search)
    BY <2>1, <2>2, PartsTail, AnnouncedTypes
  <2> QED
    BY <1>1, <1>2, <2>1, <2>2, <2>3 DEF Types
<1>13. ASSUME NEW r, r \in AddressRows, r.assigned <=> r.status # Blank, rows' = Append(rows, r), kind = "ipaddr"
       PROVE  rows' \in Seq(AddressRows) /\ \A q \in Parts(rows') : q.assigned <=> q.status # Blank
  <2>1. rows \in Seq(AddressRows) /\ \A q \in Parts(rows) : q.assigned <=> q.status # Blank
    BY <1>13 DEF Types
  <2>2. rows' \in Seq(AddressRows) /\ Parts(rows') = Parts(rows) \cup {r}
    BY <1>13, <2>1, PartsAppend
  <2> QED
    BY <1>13, <2>1, <2>2, Zenon
<1>14. CASE Address
  <2>1. /\ kind = "ipaddr" /\ pc = "addresses" /\ todo # <<>> /\ ips # <<>>
        /\ ips' = Tail(ips) /\ UNCHANGED <<pc, exit, todo, row>>
    BY <1>14, AddressRowFound
  <2>2. PICK r : RowOf(r, todo[1].name, ips[1]) /\ rows' = Append(rows, r)
    BY <1>14, AddressRowFound
  <2>3. r \in AddressRows /\ (r.assigned <=> r.status # Blank)
    BY <2>2, Zenon DEF RowOf
  <2>4. rows' \in Seq(AddressRows) /\ \A q \in Parts(rows') : q.assigned <=> q.status # Blank
    BY <1>13, <2>1, <2>2, <2>3, Zenon
  <2>5. ips' \in Seq(DOMAIN Search)
    BY <2>1, PartsTail DEF Types
  <2> QED
    BY <1>1, <1>2, <2>1, <2>4, <2>5 DEF Types
<1>15. CASE Exposure
  <2>1. pc = "addresses" /\ UNCHANGED <<exit, ips, rows>>
    BY <1>15 DEF Exposure
  <2>2. kind = "ipaddr" /\ todo \in Seq(AllPlanes) /\ todo # <<>> /\ exit = "running"
    BY <2>1 DEF Types
  <2>3. CASE pc' = "plane" /\ todo' = Tail(todo)
    <3>1. todo' \in Seq(AllPlanes)
      BY <2>2, <2>3, PartsTail
    <3> QED
      BY <1>1, <1>2, <2>1, <2>2, <2>3, <3>1 DEF Types
  <2>4. CASE World.tailscale[todo[1].name] # NoDevice /\ row' = World.tailscale[todo[1].name]
             /\ pc' = "tailscale" /\ UNCHANGED todo
    <3>1. todo[1] \in AllPlanes
      BY <2>2, PartsTail
    <3>2. row' \in TailscaleRecord
      BY <1>3, <2>4, <3>1, ReportsAssumption DEF World, AllPlanes
    <3> QED
      BY <1>1, <1>2, <2>1, <2>2, <2>4, <3>2 DEF Types
  <2> QED
    BY <1>15, <2>3, <2>4 DEF Exposure
<1>16. CASE Tailscale
  <2>1. /\ kind = "ipaddr" /\ pc = "tailscale" /\ todo # <<>>
        /\ pc' = "plane" /\ todo' = Tail(todo) /\ UNCHANGED <<exit, ips>>
    BY <1>16, TailscaleRowFound
  <2>2. PICK r : RowOf(r, todo[1].name, row.ip) /\ rows' = Append(rows, r)
    BY <1>16, TailscaleRowFound
  <2>3. r \in AddressRows /\ (r.assigned <=> r.status # Blank)
    BY <2>2, Zenon DEF RowOf
  <2>4. rows' \in Seq(AddressRows) /\ \A q \in Parts(rows') : q.assigned <=> q.status # Blank
    BY <1>13, <2>1, <2>2, <2>3, Zenon
  <2>5. todo' \in Seq(AllPlanes)
    BY <2>1, PartsTail DEF Types
  <2> QED
    BY <1>1, <1>2, <2>1, <2>4, <2>5 DEF Types
<1> QED
  BY <1>5, <1>6, <1>7, <1>8, <1>10, <1>11, <1>12, <1>14, <1>15, <1>16 DEF Command

\* So does an edit.
LEMMA TypesEdit ==
    ASSUME Types, NEW n \in EditedTo, Edit(n)
    PROVE  Types'
<1>1. n \in DOMAIN Worlds /\ w' = n /\ seen' = seen \cup {n}
  BY ReportsAssumption DEF Edit
<1>2. edits' \in 0..MaxEdits
  BY ReportsAssumption DEF Edit, Types
<1>3. UNCHANGED <<kind, args, pc, exit, todo, ips, row, rows, faults>>
  BY DEF Edit
<1> QED
  BY <1>1, <1>2, <1>3 DEF Types

\* Types is an invariant.
LEMMA AlwaysTypes == Spec => []Types
<1>1. Types /\ [Next]_vars => Types'
  <2> SUFFICES ASSUME Types, [Next]_vars PROVE Types'
    OBVIOUS
  <2>1. CASE UNCHANGED vars
    BY <2>1 DEF Types, vars
  <2> QED
    BY <2>1, TypesCommand, TypesEdit DEF Next
<1> QED
  BY <1>1, TypesInit, PTL DEF Spec

\* Type correctness of the reports: every row has its columns, readiness is
\* one of its words, and an address is assigned exactly when it has a status.
THEOREM ReportsTypes == Spec => []TypeOK
<1>1. Types => TypeOK
  <2> SUFFICES ASSUME Types PROVE TypeOK
    OBVIOUS
  <2>1. ASSUME kind = "show", NEW i \in 1..Len(rows) PROVE ClusterRow(rows[i])
    <3>1. rows \in Seq(ClusterRows)
      BY <2>1 DEF Types
    <3>2. rows[i] \in ClusterRows
      BY <3>1
    <3> QED
      BY <3>2 DEF ClusterRow, ClusterRows
  <2>2. ASSUME kind # "show", NEW i \in 1..Len(rows) PROVE AddressRow(rows[i])
    <3>1. rows \in Seq(AddressRows) /\ \A q \in Parts(rows) : q.assigned <=> q.status # Blank
      BY <2>2 DEF Types
    <3>2. rows[i] \in AddressRows /\ rows[i] \in Parts(rows)
      BY <3>1 DEF Parts
    <3>3. rows[i].assigned <=> rows[i].status # Blank
      BY <3>1, <3>2, Zenon
    <3>4. DOMAIN rows[i] = {"cluster", "address", "ip", "source", "assigned", "status"}
      BY <3>2 DEF AddressRows
    <3> QED
      BY <3>3, <3>4, Zenon DEF AddressRow
  <2>3. pc \in {"start", "list", "devices", "vms", "capi", "plane", "addresses", "tailscale", "end"}
    BY DEF Types
  <2> QED
    BY <2>1, <2>2, <2>3 DEF Types, TypeOK
<1> QED
  BY <1>1, AlwaysTypes, PTL

-----------------------------------------------------------------------------
(* Members of clusters.                                                    *)

\* More worlds do no harm.
LEMMA MembersGrow ==
    ASSUME NEW S, NEW T, S \subseteq T
    PROVE  /\ \A id, d : WasMember(S, id, d) => WasMember(T, id, d)
           /\ \A r : MemberRow(S, r) => MemberRow(T, r)
<1>1. \A id, d : WasMember(S, id, d) => WasMember(T, id, d)
  BY DEF WasMember
<1>2. UNION {Parts(Worlds[x].clusters) : x \in S} \subseteq UNION {Parts(Worlds[x].clusters) : x \in T}
  OBVIOUS
<1> QED
  BY <1>1, <1>2 DEF MemberRow

\* A row with the name and with members of a cluster that was there.
LEMMA RowOfCluster ==
    ASSUME NEW S, NEW x \in S, NEW c \in Parts(Worlds[x].clusters), NEW r, r.name = c.name,
           \A d \in Parts(r.devices) : WasMember(S, c.id, d)
    PROVE  MemberRow(S, r)
<1>1. c \in UNION {Parts(Worlds[y].clusters) : y \in S}
  OBVIOUS
<1> QED
  BY <1>1 DEF MemberRow

\* Each step of a command shows only members.
LEMMA MembershipCommand ==
    ASSUME Types, Membership, Command
    PROVE  Membership'
<1> SUFFICES ASSUME kind = "show" PROVE Membership'
  BY CommandFrame DEF Membership, Input
<1>1. UNCHANGED <<w, kind, args, seen, edits>>
  BY CommandFrame DEF Input
<1>2. w \in seen /\ w \in DOMAIN Worlds /\ todo \in Seq(AllClusters) /\ rows \in Seq(ClusterRows)
  BY DEF Types
<1>3. /\ \A c \in Parts(todo) : \E x \in seen : c \in Parts(Worlds[x].clusters)
      /\ \A r \in Parts(rows) : MemberRow(seen, r)
  BY DEF Membership
<1>4. ASSUME \A c \in Parts(todo') : \E x \in seen : c \in Parts(Worlds[x].clusters),
             UNCHANGED rows, pc' \notin {"vms", "capi"}
      PROVE  Membership'
  BY <1>1, <1>3, <1>4 DEF Membership
<1>5. ASSUME NEW what \in {"devices", "vms"}, NEW c \in AllClusters,
             NEW d \in Parts(Members(w, c.id, what))
      PROVE  WasMember(seen, c.id, d)
  <2>1. d \in Parts(Worlds[w].members[c.id][what])
    BY <1>2, <1>5, MembersTypes
  <2> QED
    BY <1>2, <2>1 DEF WasMember
<1>6. ASSUME NEW r \in ClusterRows, rows' = Append(rows, r), todo' = Tail(todo), todo # <<>>, pc' = "devices",
             r.name = todo[1].name, \A d \in Parts(r.devices) : WasMember(seen, todo[1].id, d)
      PROVE  Membership'
  <2>1. Parts(rows') = Parts(rows) \cup {r}
    BY <1>2, <1>6, PartsAppend
  <2>2. Parts(todo) = {todo[1]} \cup Parts(todo')
    BY <1>2, <1>6, PartsTail
  <2>3. PICK x \in seen : todo[1] \in Parts(Worlds[x].clusters)
    BY <1>3, <2>2
  <2>4. MemberRow(seen, r)
    BY <1>6, <2>3, RowOfCluster
  <2> QED
    BY <1>1, <1>3, <1>6, <2>1, <2>2, <2>4 DEF Membership
<1>7. CASE Start \/ Finish
  BY <1>3, <1>4, <1>7 DEF Start, Finish
<1>8. CASE List
  <2>1. CASE todo' = ListedClusters(w) /\ pc' = "devices" /\ UNCHANGED rows
    BY <1>2, <1>4, <2>1, ListedTypes
  <2>2. CASE UNCHANGED <<todo, rows>> /\ pc' = "end"
    BY <1>3, <1>4, <2>2
  <2> QED
    BY <1>8, <2>1, <2>2 DEF List
<1>9. CASE Devices
  <2>1. /\ todo[1] \in AllClusters /\ row'.name = todo[1].name /\ UNCHANGED <<todo, rows>>
        /\ row'.devices = Members(w, todo[1].id, "devices") \/ row'.devices = <<>>
    BY <1>9, DevicesRow
  <2>2. \A d \in Parts(row'.devices) : WasMember(seen, todo[1].id, d)
    BY <1>5, <2>1, PartsEmpty
  <2> QED
    BY <1>1, <1>3, <2>1, <2>2 DEF Membership
<1>10. CASE VMs
  <2>1. PICK vms \in {Members(w, todo[1].id, "vms"), <<>>}, complete \in ClusterRows :
          /\ complete.name = row.name /\ complete.devices = row.devices \o vms
          /\ vms \in Seq(STRING)
          /\ \/ row' = complete /\ pc' = "capi" /\ UNCHANGED <<rows, todo>>
             \/ rows' = Append(rows, complete) /\ pc' = "devices" /\ todo' = Tail(todo)
    BY <1>10, VMsRow
  <2>2. pc = "vms" /\ todo # <<>> /\ todo[1] \in AllClusters
    BY <1>10, VMsRow
  <2>3. row.name = todo[1].name /\ \A d \in Parts(row.devices) : WasMember(seen, todo[1].id, d)
    BY <2>2 DEF Membership
  <2>4. row.devices \in Seq(STRING)
    BY <2>2 DEF Types, ClusterRows
  <2>5. Parts(row.devices \o vms) = Parts(row.devices) \cup Parts(vms)
    BY <2>1, <2>4, PartsConcat
  <2>6. \A d \in Parts(vms) : WasMember(seen, todo[1].id, d)
    <3>1. vms = Members(w, todo[1].id, "vms") \/ vms = <<>>
      OBVIOUS
    <3> QED
      BY <1>5, <2>2, <3>1, PartsEmpty
  <2>7. complete.name = todo[1].name /\ \A d \in Parts(complete.devices) : WasMember(seen, todo[1].id, d)
    BY <2>1, <2>3, <2>5, <2>6
  <2>8. CASE row' = complete /\ pc' = "capi" /\ UNCHANGED <<rows, todo>>
    BY <1>1, <1>3, <2>7, <2>8 DEF Membership
  <2>9. CASE rows' = Append(rows, complete) /\ pc' = "devices" /\ todo' = Tail(todo)
    BY <1>6, <2>2, <2>7, <2>9
  <2> QED
    BY <2>1, <2>8, <2>9
<1>11. CASE Capi
  <2>1. PICK complete \in ClusterRows :
          complete.name = row.name /\ complete.devices = row.devices /\ rows' = Append(rows, complete)
    BY <1>11, CapiRow
  <2>2. pc = "capi" /\ pc' = "devices" /\ todo # <<>> /\ todo' = Tail(todo)
    BY <1>11, CapiRow
  <2>3. row.name = todo[1].name /\ \A d \in Parts(row.devices) : WasMember(seen, todo[1].id, d)
    BY <2>2 DEF Membership
  <2> QED
    BY <1>6, <2>1, <2>2, <2>3
<1>12. CASE Plane \/ Address \/ Exposure \/ Tailscale
  BY <1>12 DEF Plane, Address, Exposure, Tailscale, Types
<1> QED
  BY <1>7, <1>8, <1>9, <1>10, <1>11, <1>12 DEF Command

\* Membership is an invariant.
LEMMA AlwaysMembership == Spec => []Membership
<1>1. Init => Membership
  BY PartsEmpty DEF Init, Membership
<1>2. Types /\ Membership /\ [Next]_vars => Membership'
  <2> SUFFICES ASSUME Types, Membership, [Next]_vars PROVE Membership'
    OBVIOUS
  <2>1. CASE UNCHANGED vars
    BY <2>1 DEF Membership, vars
  <2>2. ASSUME NEW n \in EditedTo, Edit(n) PROVE Membership'
    <3>1. seen \subseteq seen' /\ UNCHANGED <<kind, pc, todo, row, rows>>
      BY <2>2 DEF Edit
    <3>2. /\ \A id, d : WasMember(seen, id, d) => WasMember(seen', id, d)
          /\ \A r : MemberRow(seen, r) => MemberRow(seen', r)
      BY <3>1, MembersGrow
    <3> QED
      BY <3>1, <3>2 DEF Membership
  <2> QED
    BY <2>1, <2>2, MembershipCommand DEF Next
<1> QED
  BY <1>1, <1>2, AlwaysTypes, PTL DEF Spec

\* Whatever is edited while "cluster show" is at work, a device is shown under
\* a cluster only if it was in it at some moment.
THEOREM MembersAreShown == Spec => []ShownWereMembers
<1>1. Types /\ Membership => ShownWereMembers
  <2> SUFFICES ASSUME Types, Membership, kind = "show", NEW i \in 1..Len(rows)
               PROVE  MemberRow(seen, rows[i])
    BY DEF ShownWereMembers, MemberRow, WasMember
  <2>1. rows[i] \in Parts(rows)
    BY DEF Parts
  <2> QED
    BY <2>1 DEF Membership
<1> QED
  BY <1>1, AlwaysTypes, AlwaysMembership, PTL

-----------------------------------------------------------------------------
(* Addresses.                                                              *)

\* Each step of a command leaves no announced address behind.
LEMMA AnnouncingCommand ==
    ASSUME Types, Announcing, Command
    PROVE  Announcing'
<1> SUFFICES ASSUME kind = "ipaddr" PROVE Announcing'
  BY CommandFrame DEF Announcing, Input
<1>1. UNCHANGED <<w, kind, args, seen, edits>>
  BY CommandFrame DEF Input
<1>2. w \in seen /\ w \in DOMAIN Worlds /\ todo \in Seq(AllPlanes) /\ rows \in Seq(AddressRows)
  BY DEF Types
<1>3. \A p : Throughout(p)' <=> Throughout(p)
  BY <1>1 DEF Throughout, NamedInIPAddr
<1>4. ASSUME Parts(rows) \subseteq Parts(rows'), NEW name, NEW a, HasRow(name, a) PROVE HasRow(name, a)'
  BY <1>4 DEF HasRow
<1>5. CASE Start
  BY <1>1, <1>5 DEF Start, Announcing, Types
<1>6. CASE List
  <2>1. CASE todo' = ListedPlanes(w) /\ pc' = "plane" /\ UNCHANGED exit
    <3>1. exit = "running"
      BY <1>6 DEF List, Types
    <3>2. \A p : Throughout(p) => p \in Parts(todo')
      BY <1>2, <2>1, ListedTypes DEF Throughout
    <3> QED
      BY <1>1, <1>3, <2>1, <3>1, <3>2 DEF Announcing
  <2>2. CASE pc' = "end" /\ exit' = "failed"
    BY <1>1, <2>2 DEF Announcing
  <2> QED
    BY <1>6, <2>1, <2>2 DEF List
<1>7. CASE Finish
  <2>1. pc = "plane" /\ todo = <<>> /\ pc' = "end" /\ exit' = "ok" /\ UNCHANGED <<todo, rows>>
    BY <1>7 DEF Finish, Types
  <2> QED
    BY <1>1, <1>3, <1>4, <2>1 DEF Announcing
<1>8. CASE Devices \/ VMs \/ Capi
  BY <1>8 DEF Devices, VMs, Capi, Types
<1>9. CASE Plane
  <2>1. pc = "plane" /\ ips' = Announced(todo[1]) /\ pc' = "addresses" /\ UNCHANGED <<exit, todo, rows>>
    BY <1>9 DEF Plane
  <2>2. exit = "running"
    BY <2>1 DEF Types
  <2> QED
    BY <1>1, <1>3, <1>4, <2>1, <2>2 DEF Announcing
<1>10. CASE Address
  <2>1. /\ pc = "addresses" /\ todo # <<>> /\ ips # <<>>
        /\ ips' = Tail(ips) /\ UNCHANGED <<pc, exit, todo, row>> /\ exit = "running"
    BY <1>10, AddressRowFound DEF Types
  <2>2. PICK r : r \in AddressRows /\ r.cluster = todo[1].name /\ r.ip = ips[1] /\ rows' = Append(rows, r)
    BY <1>10, AddressRowFound, Zenon DEF RowOf
  <2>3. Parts(rows') = Parts(rows) \cup {r}
    BY <1>2, <2>2, PartsAppend
  <2>4. Parts(ips) = {ips[1]} \cup Parts(ips')
    BY <2>1, PartsTail DEF Types
  <2>5. \A a : a = ips[1] => HasRow(todo[1].name, a)'
    BY <2>1, <2>2, <2>3 DEF HasRow
  <2>6. \A a \in Parts(Announced(todo[1])) : a \in Parts(ips') \/ HasRow(todo[1].name, a)'
    BY <1>4, <2>1, <2>3, <2>4, <2>5 DEF Announcing
  <2> QED
    BY <1>1, <1>3, <1>4, <2>1, <2>3, <2>6 DEF Announcing
<1>11. ASSUME pc \in {"addresses", "tailscale"}, ips = <<>>, Parts(rows) \subseteq Parts(rows'),
              pc' = "plane", todo' = Tail(todo), UNCHANGED exit
       PROVE  Announcing'
  <2>1. todo # <<>> /\ exit = "running"
    BY <1>11 DEF Types
  <2>2. Parts(todo) = {todo[1]} \cup Parts(todo')
    BY <1>2, <1>11, <2>1, PartsTail
  <2>3. \A a \in Parts(Announced(todo[1])) : HasRow(todo[1].name, a)
    BY <1>11, PartsEmpty DEF Announcing
  <2>4. ASSUME NEW p \in AllPlanes, Throughout(p)
        PROVE  p \in Parts(todo') \/ \A a \in Parts(Announced(p)) : HasRow(p.name, a)'
    BY <1>4, <1>11, <2>2, <2>3, <2>4 DEF Announcing
  <2> QED
    BY <1>1, <1>3, <1>11, <2>1, <2>4 DEF Announcing
<1>12. CASE Exposure
  <2>1. pc = "addresses" /\ ips = <<>> /\ UNCHANGED <<exit, ips, rows>> /\ exit = "running"
    BY <1>12 DEF Exposure, Types
  <2>2. CASE pc' = "tailscale" /\ UNCHANGED todo
    BY <1>1, <1>3, <1>4, <2>1, <2>2 DEF Announcing
  <2>3. CASE pc' = "plane" /\ todo' = Tail(todo)
    BY <1>11, <2>1, <2>3
  <2> QED
    BY <1>12, <2>2, <2>3 DEF Exposure
<1>13. CASE Tailscale
  <2>1. pc = "tailscale" /\ pc' = "plane" /\ todo' = Tail(todo) /\ UNCHANGED exit
    BY <1>13, TailscaleRowFound
  <2>2. PICK r : r \in AddressRows /\ rows' = Append(rows, r)
    BY <1>13, TailscaleRowFound, Zenon DEF RowOf
  <2>3. Parts(rows) \subseteq Parts(rows')
    BY <1>2, <2>2, PartsAppend
  <2>4. ips = <<>>
    BY <2>1 DEF Announcing
  <2> QED
    BY <1>11, <2>1, <2>3, <2>4
<1> QED
  BY <1>5, <1>6, <1>7, <1>8, <1>9, <1>10, <1>12, <1>13 DEF Command

\* Announcing is an invariant.
LEMMA AlwaysAnnouncing == Spec => []Announcing
<1>1. Init => Announcing
  BY DEF Init, Announcing
<1>2. Types /\ Announcing /\ [Next]_vars => Announcing'
  <2> SUFFICES ASSUME Types, Announcing, [Next]_vars PROVE Announcing'
    OBVIOUS
  <2>1. CASE UNCHANGED vars
    BY <2>1 DEF Announcing, HasRow, Throughout, NamedInIPAddr, vars
  <2>2. ASSUME NEW n \in EditedTo, Edit(n) PROVE Announcing'
    <3>1. seen \subseteq seen' /\ UNCHANGED <<kind, args, pc, exit, todo, ips, rows>>
      BY <2>2 DEF Edit
    <3>2. \A p : Throughout(p)' => Throughout(p)
      BY <3>1 DEF Throughout, NamedInIPAddr
    <3>3. \A name, a : HasRow(name, a) => HasRow(name, a)'
      BY <3>1 DEF HasRow
    <3> QED
      BY <3>1, <3>2, <3>3 DEF Announcing
  <2> QED
    BY <2>1, <2>2, AnnouncingCommand DEF Next
<1> QED
  BY <1>1, <1>2, AlwaysTypes, PTL DEF Spec

\* A new row keeps Unassigned, unless a request failed.
LEMMA UnassignedAppend ==
    ASSUME Types, Unassigned, kind = "ipaddr", SpendFault \/ UNCHANGED faults, UNCHANGED <<kind, seen>>,
           NEW r, NEW cluster, NEW ip, RowOf(r, cluster, ip), rows' = Append(rows, r)
    PROVE  Unassigned'
<1>1. rows \in Seq(AddressRows) /\ r \in AddressRows /\ w \in seen /\ faults \in 0..MaxFaults
  BY Zenon DEF Types, RowOf
<1>2. Parts(rows') = Parts(rows) \cup {r}
  BY <1>1, PartsAppend
<1>3. SUFFICES ASSUME faults' = 0
               PROVE  \A q \in Parts(rows') : ~q.assigned /\ q.ip # Blank =>
                          \E x \in seen : Worlds[x].ipam[q.ip] = NoRecord
  BY Zenon DEF Unassigned
<1>4. faults = 0 /\ ~SpendFault
  BY <1>1, <1>3, SpendFaultType DEF SpendFault
<1>5. \A q \in Parts(rows) : ~q.assigned /\ q.ip # Blank => \E x \in seen : Worlds[x].ipam[q.ip] = NoRecord
  BY <1>4, Zenon DEF Unassigned
<1>6. ~r.assigned /\ r.ip # Blank => \E x \in seen : Worlds[x].ipam[r.ip] = NoRecord
  BY <1>1, <1>4, Zenon DEF RowOf
<1> QED
  BY <1>2, <1>5, <1>6, Zenon

\* Unassigned is an invariant.
LEMMA AlwaysUnassigned == Spec => []Unassigned
<1>1. Init => Unassigned
  <2> SUFFICES ASSUME Init PROVE Unassigned
    OBVIOUS
  <2>1. Parts(rows) = {}
    BY PartsEmpty DEF Init
  <2> QED
    BY <2>1, Zenon DEF Unassigned
<1>2. Types /\ Unassigned /\ [Next]_vars => Unassigned'
  <2> SUFFICES ASSUME Types, Unassigned, [Next]_vars PROVE Unassigned'
    OBVIOUS
  <2>0. ASSUME UNCHANGED <<kind, rows>>, seen \subseteq seen', faults' = 0 => faults = 0 PROVE Unassigned'
    <3> SUFFICES ASSUME kind' = "ipaddr", faults' = 0, NEW q \in Parts(rows'), ~q.assigned, q.ip # Blank
                 PROVE  \E x \in seen' : Worlds[x].ipam[q.ip] = NoRecord
      BY Zenon DEF Unassigned
    <3>1. kind = "ipaddr" /\ faults = 0 /\ q \in Parts(rows)
      BY <2>0
    <3>2. \E x \in seen : Worlds[x].ipam[q.ip] = NoRecord
      BY <3>1, Zenon DEF Unassigned
    <3> QED
      BY <2>0, <3>2
  <2>1. CASE UNCHANGED vars
    BY <2>0, <2>1 DEF vars
  <2>2. ASSUME NEW n \in EditedTo, Edit(n) PROVE Unassigned'
    BY <2>0, <2>2 DEF Edit
  <2>3. CASE Command
    <3>1. UNCHANGED <<kind, seen>> /\ (SpendFault \/ UNCHANGED faults) /\ (faults' = 0 => faults = 0)
      BY <2>3, CommandFrame, SpendFaultType DEF Input, Types
    <3>2. CASE UNCHANGED rows
      BY <2>0, <3>1, <3>2
    <3>3. CASE Address
      <4>1. PICK r : RowOf(r, todo[1].name, ips[1]) /\ rows' = Append(rows, r)
        BY <3>3, AddressRowFound
      <4>2. kind = "ipaddr"
        BY <3>3, AddressRowFound
      <4> QED
        BY <3>1, <4>1, <4>2, UnassignedAppend, Zenon
    <3>4. CASE Tailscale
      <4>1. PICK r : RowOf(r, todo[1].name, row.ip) /\ rows' = Append(rows, r)
        BY <3>4, TailscaleRowFound
      <4>2. kind = "ipaddr"
        BY <3>4, TailscaleRowFound
      <4> QED
        BY <3>1, <4>1, <4>2, UnassignedAppend, Zenon
    <3>5. CASE kind = "show"
      BY <3>1, <3>5, Zenon DEF Unassigned
    <3>6. kind = "ipaddr" => Address \/ Tailscale \/ UNCHANGED rows
      BY <2>3 DEF Command, Start, List, Finish, Devices, VMs, Capi, Plane, Exposure, Types
    <3>7. kind = "show" \/ kind = "ipaddr"
      BY DEF Types
    <3> QED
      BY <3>2, <3>3, <3>4, <3>5, <3>6, <3>7
  <2> QED
    BY <2>1, <2>2, <2>3 DEF Next
<1> QED
  BY <1>1, <1>2, AlwaysTypes, PTL DEF Spec

\* "cluster ipaddr show" that exits with 0 has a row for every address that
\* was announced throughout, and calls an address not assigned only if NetBox
\* did not know it at some moment, or could not be asked.
THEOREM AddressesAreShown == Spec => []AnnouncedAreShown
<1>1. Types /\ Announcing /\ Unassigned => AnnouncedAreShown
  <2> SUFFICES ASSUME Types, Announcing, Unassigned, kind = "ipaddr", exit = "ok"
               PROVE  /\ \A p \in Parts(World.planes) :
                            (\A x \in seen : p \in Parts(Worlds[x].planes)) /\ NamedInIPAddr(p.name) =>
                                \A a \in Parts(Announced(p)) :
                                    \E i \in 1..Len(rows) : rows[i].cluster = p.name /\ rows[i].ip = a
                      /\ faults = 0 => \A i \in 1..Len(rows) : ~rows[i].assigned /\ rows[i].ip # Blank =>
                            \E x \in seen : Worlds[x].ipam[rows[i].ip] = NoRecord
    BY Zenon DEF AnnouncedAreShown
  <2>1. ASSUME NEW p \in Parts(World.planes), \A x \in seen : p \in Parts(Worlds[x].planes),
               NamedInIPAddr(p.name), NEW a \in Parts(Announced(p))
        PROVE  \E i \in 1..Len(rows) : rows[i].cluster = p.name /\ rows[i].ip = a
    <3>1. p \in AllPlanes /\ Throughout(p)
      BY <2>1 DEF Types, World, AllPlanes, Throughout
    <3>2. p \notin Parts(todo)
      BY PartsEmpty DEF Announcing
    <3>3. HasRow(p.name, a)
      BY <2>1, <3>1, <3>2 DEF Announcing
    <3> QED
      BY <3>3 DEF HasRow, Parts
  <2>2. ASSUME faults = 0, NEW i \in 1..Len(rows), ~rows[i].assigned, rows[i].ip # Blank
        PROVE  \E x \in seen : Worlds[x].ipam[rows[i].ip] = NoRecord
    <3>1. rows[i] \in Parts(rows)
      BY DEF Parts
    <3> QED
      BY <2>2, <3>1, Zenon DEF Unassigned
  <2> QED
    BY <2>1, <2>2, Zenon
<1> QED
  BY <1>1, AlwaysTypes, AlwaysAnnouncing, AlwaysUnassigned, PTL

-----------------------------------------------------------------------------
(* The reference for "cluster show".                                       *)

\* One element moves from what is to come to what is done.
LEMMA OneMoreRow ==
    ASSUME NEW S, NEW T, NEW L, NEW r \in Seq(S), NEW t \in Seq(T), t # <<>>, NEW e \in S,
           Len(r) + Len(t) = Len(L), \A i \in 1..Len(t) : t[i] = L[Len(r) + i]
    PROVE  /\ Len(Append(r, e)) + Len(Tail(t)) = Len(L)
           /\ \A i \in 1..Len(Tail(t)) : Tail(t)[i] = L[Len(Append(r, e)) + i]
           /\ \A i \in 1..Len(Append(r, e)) :
                 Append(r, e)[i] = IF i <= Len(r) THEN r[i] ELSE e
           /\ t[1] = L[Len(r) + 1]
           /\ Len(Append(r, e)) = Len(r) + 1
<1>1. /\ Len(Append(r, e)) = Len(r) + 1 /\ Len(r) \in Nat
      /\ \A i \in 1..(Len(r) + 1) : Append(r, e)[i] = IF i <= Len(r) THEN r[i] ELSE e
  OBVIOUS
<1>2. /\ Len(Tail(t)) = Len(t) - 1 /\ Len(t) \in Nat \ {0}
      /\ \A i \in 1..(Len(t) - 1) : Tail(t)[i] = t[i + 1]
  OBVIOUS
<1>3. ASSUME NEW i \in 1..Len(Tail(t)) PROVE Tail(t)[i] = L[Len(Append(r, e)) + i]
  <2>1. i + 1 \in 1..Len(t) /\ Len(r) + (i + 1) = Len(r) + 1 + i
    BY <1>1, <1>2
  <2>2. Tail(t)[i] = t[i + 1]
    BY <1>2
  <2> QED
    BY <1>1, <2>1, <2>2
<1> QED
  BY <1>1, <1>2, <1>3

\* A row like the reference for the current cluster.
LEMMA KnownAppend ==
    ASSUME NEW L, Known(L), Types, kind = "show", todo # <<>>, NEW e \in ClusterRows, e = RefRow(w, todo[1]),
           rows' = Append(rows, e), todo' = Tail(todo), UNCHANGED w
    PROVE  Known(L)'
<1>1. rows \in Seq(ClusterRows) /\ todo \in Seq(AllClusters)
  BY DEF Types
<1>2. /\ Len(rows') + Len(todo') = Len(L)
      /\ \A i \in 1..Len(todo') : todo'[i] = L[Len(rows') + i]
      /\ \A i \in 1..Len(rows') : rows'[i] = IF i <= Len(rows) THEN rows[i] ELSE e
      /\ todo[1] = L[Len(rows) + 1]
      /\ Len(rows') = Len(rows) + 1 /\ Len(rows) \in Nat
  BY <1>1, OneMoreRow DEF Known
<1>3. ASSUME NEW i \in 1..Len(rows') PROVE rows'[i] = RefRow(w, L[i])
  <2>1. CASE i <= Len(rows)
    BY <1>2, <2>1 DEF Known
  <2>2. CASE i = Len(rows) + 1
    BY <1>2, <2>2
  <2> QED
    BY <1>2, <2>1, <2>2
<1>4. \A c : RefRow(w, c)' = RefRow(w, c)
  BY DEF RefRow, Members, Page
<1> QED
  BY <1>2, <1>3, <1>4 DEF Known

\* Without CAPI object the second is the reference; with it, but for its
\* readiness.
LEMMA RowsToReference ==
    ASSUME NEW x, NEW c
    PROVE  /\ Row1(x, c).type = c.type /\ Row2(x, c).name = c.name
           /\ c.type # "managed" => Row2(x, c) = RefRow(x, c)
           /\ c.type = "managed" => /\ Row2(x, c) = [RefRow(x, c) EXCEPT !.ready = ""]
                                    /\ [Row2(x, c) EXCEPT !.ready = Readiness(Worlds[x].capi[c.name])]
                                         = RefRow(x, c)
<1> DEFINE D == Members(x, c.id, "devices")
           V == D \o Members(x, c.id, "vms")
           Q == Readiness(Worlds[x].capi[c.name])
           n == c.name
           t == c.type
           s == c.status
           R(e, y) == [name |-> n, type |-> t, status |-> s, devices |-> e, ready |-> y]
<1>1. Row1(x, c) = R(D, "") /\ Row1(x, c).type = c.type /\ Row1(x, c).devices = D
  BY DEF Row1
<1>2. Row2(x, c) = [R(D, "") EXCEPT !.devices = V]
  BY <1>1 DEF Row2
<1>3. RefRow(x, c) = R(V, IF c.type = "managed" THEN Q ELSE "")
  BY DEF RefRow
<1> HIDE DEF D, V, Q
<1>4. Row2(x, c) = R(V, "") /\ Row2(x, c).name = c.name
  BY <1>2
<1>5. [R(V, Q) EXCEPT !.ready = ""] = R(V, "") /\ [R(V, "") EXCEPT !.ready = Q] = R(V, Q)
  <2> DEFINE no == ""
  <2>1. [R(V, Q) EXCEPT !.ready = no] = R(V, no) /\ [R(V, no) EXCEPT !.ready = Q] = R(V, Q)
    <3> HIDE DEF n, t, s, no
    <3> QED
      OBVIOUS
  <2> QED
    BY <2>1
<1>6. c.type = "managed" => RefRow(x, c) = R(V, Q)
  BY <1>3
<1> HIDE DEF R
<1>7. c.type = "managed" => [Row2(x, c) EXCEPT !.ready = Q] = RefRow(x, c)
  BY <1>4, <1>5, <1>6, Zenon
<1>8. c.type = "managed" => Row2(x, c) = [RefRow(x, c) EXCEPT !.ready = ""]
  BY <1>4, <1>5, <1>6, Zenon
<1>9. c.type # "managed" => Row2(x, c) = RefRow(x, c)
  BY <1>3, <1>4, Zenon
<1> QED
  BY <1>1, <1>4, <1>7, <1>8, <1>9, Zenon DEF Q

\* Each step of "cluster show" that does not fail follows the reference.
LEMMA ReferenceCommand ==
    ASSUME Types, Reference, Command
    PROVE  Reference'
<1>1. UNCHANGED <<w, kind, args, seen, edits>>
  BY CommandFrame DEF Input
<1>2. w \in DOMAIN Worlds /\ (faults' = 0 => faults = 0 /\ ~SpendFault)
  BY CommandFrame, SpendFaultType DEF Types, SpendFault
<1>3. ListedClusters(w)' = ListedClusters(w) /\ \A x, c : RefRow(x, c)' = RefRow(x, c)
  BY <1>1 DEF ListedClusters, NamedInShow
<1>4. ASSUME UNCHANGED <<rows, todo>>, Known(ListedClusters(w)) PROVE Known(ListedClusters(w))'
  BY <1>1, <1>3, <1>4 DEF Known
<1>5. CASE Start
  BY <1>5 DEF Start, Reference, Types
<1>6. CASE List
  <2>1. pc = "list" /\ rows = <<>> /\ UNCHANGED rows /\ exit = "running"
    BY <1>6 DEF List, Reference, Types
  <2>2. CASE pc' = "end" /\ exit' = "failed"
    BY <2>2 DEF Reference
  <2>3. CASE kind # "show" /\ pc' = "plane" /\ UNCHANGED exit
    BY <1>1, <2>1, <2>3 DEF Reference
  <2>4. CASE kind = "show" /\ todo' = ListedClusters(w) /\ pc' = "devices" /\ UNCHANGED exit
    <3> DEFINE L == ListedClusters(w)
    <3>1. L \in Seq(AllClusters)
      BY <1>2, ListedTypes
    <3>2. Len(rows') = 0 /\ Len(L) \in Nat /\ todo' = L
      BY <2>1, <2>4, <3>1
    <3> HIDE DEF L
    <3>3. /\ Len(rows') + Len(todo') = Len(L)
          /\ \A i \in 1..Len(todo') : todo'[i] = L[Len(rows') + i]
          /\ \A i \in 1..Len(rows') : rows'[i] = RefRow(w', L[i])
      BY <3>2
    <3>4. Known(ListedClusters(w))'
      BY <1>3, <3>3 DEF Known, L
    <3> QED
      BY <2>1, <2>4, <3>4 DEF Reference
  <2> QED
    BY <1>6, <2>2, <2>3, <2>4 DEF List
<1>7. CASE Finish
  <2>1. /\ pc \in {"devices", "plane"} /\ todo = <<>> /\ pc' = "end" /\ exit' = "ok"
        /\ UNCHANGED <<todo, rows, faults>>
    BY <1>7 DEF Finish
  <2>2. kind = "show" => pc = "devices"
    BY <2>1 DEF Types
  <2> QED
    BY <1>1, <1>4, <2>1, <2>2 DEF Reference
<1>8. CASE Devices
  <2>1. /\ kind = "show" /\ pc = "devices" /\ pc' = "vms" /\ UNCHANGED <<exit, todo, rows>> /\ exit = "running"
    BY <1>8, DevicesRow DEF Devices, Types
  <2>2. faults' = 0 => row' = Row1(w, todo[1])
    BY <1>2, <1>8, DevicesRow DEF Row1
  <2>3. Row1(w, todo[1])' = Row1(w, todo[1])
    BY <1>1, <2>1 DEF Row1, Members, Page
  <2> QED
    BY <1>1, <1>2, <1>4, <2>1, <2>2, <2>3 DEF Reference
<1>9. ASSUME kind = "show", seen = {w} /\ faults' = 0 => Known(ListedClusters(w))',
             pc' = "devices", UNCHANGED exit, exit = "running"
      PROVE  Reference'
  BY <1>1, <1>9 DEF Reference
<1>10. CASE VMs
  <2>1. PICK vms \in {Members(w, todo[1].id, "vms"), <<>>}, complete \in ClusterRows :
          /\ vms # Members(w, todo[1].id, "vms") => SpendFault
          /\ complete = [row EXCEPT !.devices = row.devices \o vms]
          /\ \/ row.type = "managed" /\ row' = complete /\ pc' = "capi" /\ UNCHANGED <<rows, todo>>
             \/ /\ row.type # "managed"
                /\ rows' = Append(rows, complete) /\ pc' = "devices" /\ todo' = Tail(todo)
    BY <1>10, VMsRow
  <2>2. kind = "show" /\ pc = "vms" /\ todo # <<>> /\ UNCHANGED exit /\ exit = "running"
    BY <1>10, VMsRow DEF Types
  <2>3. ASSUME seen = {w}, faults' = 0
        PROVE  complete = Row2(w, todo[1]) /\ row.type = todo[1].type /\ Known(ListedClusters(w))
    <3>1. row = Row1(w, todo[1]) /\ Known(ListedClusters(w))
      BY <1>2, <2>2, <2>3 DEF Reference
    <3>2. vms = Members(w, todo[1].id, "vms")
      BY <1>2, <2>1, <2>3
    <3>3. complete = Row2(w, todo[1])
      BY <2>1, <3>1, <3>2, Zenon DEF Row2
    <3> QED
      BY <3>1, <3>3, RowsToReference
  <2>4. CASE row.type = "managed" /\ row' = complete /\ pc' = "capi" /\ UNCHANGED <<rows, todo>>
    <3>1. Row2(w, todo[1])' = Row2(w, todo[1])
      BY <1>1, <2>4 DEF Row2, Row1, Members, Page
    <3> QED
      BY <1>1, <1>4, <2>2, <2>3, <2>4, <3>1 DEF Reference
  <2>5. CASE /\ row.type # "managed"
             /\ rows' = Append(rows, complete) /\ pc' = "devices" /\ todo' = Tail(todo)
    <3>1. ASSUME seen = {w}, faults' = 0 PROVE Known(ListedClusters(w))'
      <4> DEFINE L == ListedClusters(w)
      <4>1. complete = RefRow(w, todo[1]) /\ Known(L)
        BY <2>3, <2>5, <3>1, RowsToReference
      <4> HIDE DEF L
      <4>2. \A M : M = L => Known(M)'
        BY <1>1, <2>1, <2>2, <2>5, <4>1, KnownAppend
      <4> QED
        BY <1>1, <1>3, <4>2 DEF L, Known
    <3> QED
      BY <1>9, <2>2, <2>5, <3>1
  <2> QED
    BY <2>1, <2>4, <2>5
<1>11. CASE Capi
  <2>1. PICK status, complete :
          /\ status # Worlds[w].capi[row.name] => SpendFault
          /\ complete = [row EXCEPT !.ready = Readiness(status)]
          /\ complete \in ClusterRows
          /\ rows' = Append(rows, complete)
    BY <1>11, CapiRow
  <2>2. /\ kind = "show" /\ pc = "capi" /\ pc' = "devices" /\ todo # <<>> /\ todo' = Tail(todo)
        /\ UNCHANGED exit /\ exit = "running"
    BY <1>11, CapiRow DEF Types
  <2>3. ASSUME seen = {w}, faults' = 0 PROVE Known(ListedClusters(w))'
    <3>1. row = Row2(w, todo[1]) /\ todo[1].type = "managed" /\ Known(ListedClusters(w))
      BY <1>2, <2>2, <2>3 DEF Reference
    <3>2. row.name = todo[1].name
      BY <3>1, RowsToReference
    <3>3. status = Worlds[w].capi[todo[1].name]
      BY <1>2, <2>1, <2>3, <3>2
    <3>4. complete = RefRow(w, todo[1])
      BY <2>1, <3>1, <3>3, RowsToReference, Zenon
    <3> DEFINE L == ListedClusters(w)
    <3>5. Known(L)
      BY <3>1
    <3> HIDE DEF L
    <3>6. \A M : M = L => Known(M)'
      BY <1>1, <2>1, <2>2, <3>4, <3>5, KnownAppend
    <3> QED
      BY <1>1, <1>3, <3>6 DEF L, Known
  <2> QED
    BY <1>9, <2>2, <2>3
<1>12. CASE Plane \/ Address \/ Exposure \/ Tailscale
  <2>1. kind # "show" /\ exit' # "ok" /\ pc' \notin {"start", "list"}
    BY <1>12 DEF Plane, Address, Exposure, Tailscale, Types
  <2> QED
    BY <1>1, <2>1 DEF Reference
<1> QED
  BY <1>5, <1>6, <1>7, <1>8, <1>10, <1>11, <1>12 DEF Command

\* Reference is an invariant.
LEMMA AlwaysReference == Spec => []Reference
<1>1. Init => Reference
  BY DEF Init, Reference
<1>2. Types /\ Reference /\ [Next]_vars => Reference'
  <2> SUFFICES ASSUME Types, Reference, [Next]_vars PROVE Reference'
    OBVIOUS
  <2>1. CASE UNCHANGED vars
    <3>1. UNCHANGED <<w, kind, args, pc, exit, todo, row, rows, seen, faults>>
      BY <2>1 DEF vars
    <3>2. /\ ListedClusters(w)' = ListedClusters(w)
          /\ Known(ListedClusters(w))' <=> Known(ListedClusters(w))
      BY <3>1 DEF ListedClusters, NamedInShow, Known
    <3>3. Row1(w, todo[1])' = Row1(w, todo[1]) /\ Row2(w, todo[1])' = Row2(w, todo[1])
      BY <3>1
    <3> QED
      BY <3>1, <3>2, <3>3 DEF Reference
  <2>2. ASSUME NEW n \in EditedTo, Edit(n) PROVE Reference'
    <3>1. seen' # {w'} /\ UNCHANGED <<kind, pc, exit, todo, rows>>
      BY <2>2 DEF Edit, Types
    <3> QED
      BY <3>1 DEF Reference
  <2> QED
    BY <2>1, <2>2, ReferenceCommand DEF Next
<1> QED
  BY <1>1, <1>2, AlwaysTypes, PTL DEF Spec

\* The reference row of a cluster is what the records ask for.
LEMMA RefRowIsRecorded ==
    ASSUME w \in DOMAIN Worlds, NEW c \in AllClusters
    PROVE  RecordedRow(c, RefRow(w, c))
<1> DEFINE m == Worlds[w].members[c.id]
           status == Worlds[w].capi[c.name]
           r == RefRow(w, c)
<1>1. m.devices \in Seq(STRING) /\ m.vms \in Seq(STRING) /\ PageSize \in Nat
  BY ReportsAssumption DEF AllClusters
<1>2. /\ r.name = c.name /\ r.type = c.type /\ r.status = c.status
      /\ r.devices = Members(w, c.id, "devices") \o Members(w, c.id, "vms")
      /\ r.ready = IF c.type = "managed" THEN Readiness(status) ELSE ""
  BY DEF RefRow
<1>3. /\ Len(m.devices) <= PageSize => Members(w, c.id, "devices") = m.devices
      /\ Len(m.vms) <= PageSize => Members(w, c.id, "vms") = m.vms
  BY <1>1, UptoParts DEF Members, Page
<1>4. /\ Readiness(status) = "true" <=> status = "True"
      /\ Readiness(status) = "false" <=> status = "False"
      /\ Readiness(status) = "" <=> status \in {"absent", "none"}
  BY DEF Readiness
<1> HIDE DEF r
<1>5. Len(m.devices) <= PageSize /\ Len(m.vms) <= PageSize => r.devices = m.devices \o m.vms
  BY <1>2, <1>3
<1>6. /\ r.ready = "true" <=> c.type = "managed" /\ status = "True"
      /\ r.ready = "false" <=> c.type = "managed" /\ status = "False"
      /\ r.ready = "" <=> c.type # "managed" \/ status \in {"absent", "none"}
  <2> HIDE DEF status
  <2> QED
    BY <1>2, <1>4
<1>7. RecordedRow(c, r)
  BY <1>2, <1>5, <1>6 DEF RecordedRow, World
<1> QED
  BY <1>7 DEF r

\* "cluster show" agrees with the records, for any number of clusters and
\* members: unless something is edited or a request fails, it has one row for
\* each cluster asked for, in order, with all its members and the readiness of
\* its CAPI object, as far as NetBox's answers fit on a page.
THEOREM ShowAgrees == Spec => []ShowIsReference
<1>1. Types /\ Reference => ShowIsReference
  <2> DEFINE C == World.clusters
             none == args.clusters = <<Blank>>
             asked == {k \in 1..Len(C) : none \/ C[k].name \in Parts(args.clusters)}
             K == {c \in Parts(C) : NamedInShow(c.name)}
             O == Only(C, K)
             L == ListedClusters(w)
  <2> SUFFICES ASSUME Types, Reference, kind = "show", exit = "ok", seen = {w}, faults = 0,
                      args.clusters[1] # Blank \/ none
               PROVE  \E at \in [1..Len(rows) -> asked] :
                         /\ \A i, j \in 1..Len(rows) : i < j => at[i] < at[j]
                         /\ Cardinality(asked) <= PageSize => asked = {at[i] : i \in 1..Len(rows)}
                         /\ \A i \in 1..Len(rows) : RecordedRow(C[at[i]], rows[i])
    BY DEF ShowIsReference
  <2>1. Known(L) /\ todo = <<>>
    BY DEF Reference
  <2>2. Len(rows) = Len(L) /\ \A i \in 1..Len(rows) : rows[i] = RefRow(w, L[i])
    <3>1. Len(todo) = 0 /\ Len(rows) \in Nat
      BY <2>1 DEF Types
    <3> QED
      BY <2>1, <3>1 DEF Known
  <2>3. w \in DOMAIN Worlds /\ C \in Seq(AllClusters) /\ L = Upto(O, PageSize) /\ PageSize \in Nat
    BY RecordTypes, ReportsAssumption DEF Types, World, ListedClusters, Page
  <2>4. \A k \in 1..Len(C) : C[k] \in K <=> k \in asked
    <3>1. \A k \in 1..Len(C) : C[k] \in Parts(C)
      BY DEF Parts
    <3>2. none => args.clusters[1] = Blank
      OBVIOUS
    <3>3. \A n : NamedInShow(n) <=> (none \/ n \in Parts(args.clusters))
      BY <3>2 DEF NamedInShow
    <3> HIDE DEF C, none
    <3> QED
      BY <3>1, <3>3
  <2> HIDE DEF C, K, asked, L, none
  <2>5. PICK h \in [1..Len(O) -> 1..Len(C)] :
            /\ \A i, j \in 1..Len(O) : h[i] = h[j] => i = j
            /\ \A i, j \in 1..Len(O) : i < j => h[i] < h[j]
            /\ \A i \in 1..Len(O) : O[i] = C[h[i]] /\ C[h[i]] \in K
            /\ \A k \in 1..Len(C) : C[k] \in K => \E i \in 1..Len(O) : h[i] = k
    BY <2>3, OnlyPlaces
  <2>6. O \in Seq(AllClusters) /\ Len(O) \in Nat
    BY <2>3, OnlyParts
  <2> HIDE DEF O
  <2>7. /\ Len(L) = IF Len(O) < PageSize THEN Len(O) ELSE PageSize
        /\ \A i \in 1..Len(L) : i \in 1..Len(O) /\ L[i] = O[i]
    BY <2>3, <2>6, UptoParts
  <2>8. \A i \in 1..Len(rows) : i \in 1..Len(O) /\ L[i] = C[h[i]] /\ h[i] \in asked /\ C[h[i]] \in AllClusters
    BY <2>2, <2>3, <2>4, <2>5, <2>7
  <2>9. Cardinality(asked) = Len(O)
    <3>1. asked \subseteq 1..Len(C)
      BY DEF asked
    <3>2. h \in Bijection(1..Len(O), asked)
      BY <2>4, <2>5, <3>1 DEF Bijection, Injection, Surjection, IsInjective
    <3>3. IsFiniteSet(1..Len(O)) /\ Cardinality(1..Len(O)) = Len(O)
      <4> DEFINE n == Len(O)
      <4>1. n \in Nat
        BY <2>6
      <4> HIDE DEF n
      <4>2. IsFiniteSet(1..n) /\ Cardinality(1..n) = IF 1 > n THEN 0 ELSE n - 1 + 1
        BY <4>1, FS_Interval
      <4>3. Cardinality(1..n) = n
        BY <4>1, <4>2
      <4> QED
        BY <4>2, <4>3 DEF n
    <3> QED
      BY <3>2, <3>3, FS_Bijection DEF ExistsBijection
  <2> DEFINE at == [i \in 1..Len(rows) |-> h[i]]
  <2>10. at \in [1..Len(rows) -> asked] /\ \A i, j \in 1..Len(rows) : i < j => at[i] < at[j]
    BY <2>5, <2>8
  <2>11. ASSUME Cardinality(asked) <= PageSize PROVE asked = {at[i] : i \in 1..Len(rows)}
    <3>1. Len(rows) = Len(O)
      BY <2>2, <2>3, <2>6, <2>7, <2>9, <2>11
    <3>2. \A k \in asked : \E i \in 1..Len(O) : h[i] = k
      <4>1. asked \subseteq 1..Len(C)
        BY DEF asked
      <4> QED
        BY <2>4, <2>5, <4>1
    <3> QED
      BY <2>8, <3>1, <3>2
  <2>12. \A i \in 1..Len(rows) : RecordedRow(C[at[i]], rows[i])
    BY <2>2, <2>3, <2>8, RefRowIsRecorded
  <2> QED
    BY <2>10, <2>11, <2>12
<1> QED
  BY <1>1, AlwaysTypes, AlwaysReference, PTL
=============================================================================
