-------------------------- MODULE ClusterReports ---------------------------
(***************************************************************************)
(* The reports "cluster show" and "cluster ipaddr show".  Each puts NetBox *)
(* and the Kubernetes API side by side in a series of requests, while both *)
(* are being changed; a request that fails leaves a gap in the report and  *)
(* no trace in the exit code.                                              *)
(***************************************************************************)
EXTENDS CommandLine, FiniteSets

CONSTANTS
    Worlds,      \* index -> what NetBox and Kubernetes may contain
    Scenarios,   \* initial world, report and options
    EditedTo,    \* the worlds an edit may lead to
    Search,      \* address -> addresses whose text starts with it
    PageSize,    \* records in an answer of NetBox when no limit is asked for
    NoRecord,    \* an address NetBox does not know
    NoDevice,    \* a control plane without Tailscale device
    MaxEdits,    \* bound: edits
    MaxFaults    \* bound: requests that fail

VARIABLES
    w,        \* index of the current world
    kind,     \* "show" or "ipaddr"
    args,     \* the options
    pc, exit,
    todo,     \* clusters or control planes still to be reported, as listed
    ips,      \* addresses of the current control plane still to be checked
    row,      \* the row of the current cluster so far
    rows,     \* the rows so far
    seen,     \* history: the worlds since the command began
    edits, faults

vars == <<w, kind, args, pc, exit, todo, ips, row, rows, seen, edits, faults>>

\* Clusters as NetBox has them, control planes as Kubernetes, devices as
\* Tailscale; the addresses are those that can be searched for.
ClusterRecord == [id : Nat, name : STRING, type : STRING, status : STRING]
PlaneRecord == [name : STRING, ips : Seq(DOMAIN Search \cup {Blank}), exposed : BOOLEAN]
TailscaleRecord == [address : STRING, ip : DOMAIN Search \cup {Blank}]

\* What the model needs of its parameters: the types of the records, that the
\* text of an address starts with itself, and that no status is blank.
ASSUME ReportsAssumption ==
    /\ \A s \in Scenarios : s.w \in DOMAIN Worlds /\ s.kind \in {"show", "ipaddr"}
    /\ EditedTo \subseteq DOMAIN Worlds
    /\ PageSize \in Nat \ {0}
    /\ MaxEdits \in Nat /\ MaxFaults \in Nat
    /\ DOMAIN Search \subseteq STRING
    /\ \A x \in DOMAIN Worlds :
          /\ Worlds[x].clusters \in Seq(ClusterRecord)
          /\ \A y \in DOMAIN Worlds : \A c \in Parts(Worlds[y].clusters) :
                /\ Worlds[x].members[c.id].devices \in Seq(STRING)
                /\ Worlds[x].members[c.id].vms \in Seq(STRING)
          /\ Worlds[x].planes \in Seq(PlaneRecord)
          /\ \A y \in DOMAIN Worlds : \A p \in Parts(Worlds[y].planes) :
                Worlds[x].tailscale[p.name] \in TailscaleRecord \cup {NoDevice}
          /\ \A a \in DOMAIN Search :
                /\ a \in Search[a]
                /\ \A b \in Search[a] : Worlds[x].ipam[b] \in (STRING \ {Blank}) \cup {NoRecord}

World == Worlds[w]
NoRow == <<>>

ClusterRow(r) ==
    /\ DOMAIN r = {"name", "type", "status", "devices", "ready"}
    /\ r.ready \in {"", "true", "false", "unknown"}
AddressRow(r) ==
    /\ DOMAIN r = {"cluster", "address", "ip", "source", "assigned", "status"}
    /\ r.assigned <=> r.status # Blank

TypeOK ==
    /\ w \in seen /\ seen \subseteq DOMAIN Worlds
    /\ pc \in {"start", "list", "devices", "vms", "capi", "plane", "addresses", "tailscale", "end"}
    /\ exit \in {"running", "ok", "failed"}
    /\ exit # "running" <=> pc = "end"
    /\ \A i \in 1..Len(rows) : IF kind = "show" THEN ClusterRow(rows[i]) ELSE AddressRow(rows[i])
    /\ edits \in 0..MaxEdits
    /\ faults \in 0..MaxFaults

Init ==
    /\ \E s \in Scenarios : w = s.w /\ kind = s.kind /\ args = s.args
    /\ pc = "start"
    /\ exit = "running"
    /\ todo = <<>> /\ ips = <<>> /\ row = NoRow /\ rows = <<>>
    /\ seen = {w}
    /\ edits = 0
    /\ faults = 0

SpendFault == faults < MaxFaults /\ faults' = faults + 1

Edit(n) ==
    /\ pc # "end"
    /\ edits < MaxEdits
    /\ n # w
    /\ w' = n
    /\ seen' = seen \cup {n}
    /\ edits' = edits + 1
    /\ UNCHANGED <<kind, args, pc, exit, todo, ips, row, rows, faults>>

Input == UNCHANGED <<w, kind, args, seen, edits>>

\* The options, the namespace and the Kubernetes client.
Start ==
    /\ pc = "start"
    /\ \/ /\ ProcessRootArgs(args, FALSE, FALSE) /\ GetNamespace(args) # Blank
          /\ pc' = "list"
          /\ UNCHANGED <<exit, faults>>
       \/ /\ IF ProcessRootArgs(args, FALSE, FALSE) /\ GetNamespace(args) # Blank
             THEN SpendFault ELSE UNCHANGED faults
          /\ pc' = "end"
          /\ exit' = "failed"
    /\ Input /\ UNCHANGED <<todo, ips, row, rows>>

\* NetBox answers with the first page (external).
Page(s) == Upto(s, PageSize)

\* Show filters by all names if the first is not blank; ShowIPAddresses by
\* those that are not.
NamedInShow(n) == args.clusters[1] # Blank => n \in Parts(args.clusters)
NamedInIPAddr(n) == Parts(args.clusters) # {Blank} => n \in Parts(args.clusters) \ {Blank}

ListedClusters(x) ==
    LET C == Worlds[x].clusters
    IN  Page(Only(C, {c \in Parts(C) : NamedInShow(c.name)}))
ListedPlanes(x) ==
    LET P == Worlds[x].planes
    IN  Only(P, {p \in Parts(P) : NamedInIPAddr(p.name)})

\* The first request; without an answer the command exits.
List ==
    /\ pc = "list"
    /\ \/ /\ todo' = IF kind = "show" THEN ListedClusters(w) ELSE ListedPlanes(w)
          /\ pc' = IF kind = "show" THEN "devices" ELSE "plane"
          /\ UNCHANGED <<exit, faults>>
       \/ /\ SpendFault
          /\ pc' = "end" /\ exit' = "failed"
          /\ UNCHANGED todo
    /\ Input /\ UNCHANGED <<ips, row, rows>>

Finish ==
    /\ pc \in {"devices", "plane"} /\ todo = <<>>
    /\ pc' = "end" /\ exit' = "ok"
    /\ Input /\ UNCHANGED <<todo, ips, row, rows, faults>>

-----------------------------------------------------------------------------
(* cluster show.                                                           *)

Members(x, id, what) == Page(Worlds[x].members[id][what])

\* Mutant: the row is not begun anew.
Devices_Kept ==
    /\ pc = "devices" /\ todo # <<>>
    /\ row' = [name |-> todo[1].name, type |-> todo[1].type, status |-> todo[1].status, ready |-> "",
               devices |-> (IF rows = <<>> THEN <<>> ELSE rows[Len(rows)].devices)
                           \o Members(w, todo[1].id, "devices")]
    /\ pc' = "vms"
    /\ Input /\ UNCHANGED <<exit, todo, ips, rows, faults>>

\* The devices of the cluster (getClusterDevices).  A request that fails is
\* only logged.
Devices ==
    /\ pc = "devices" /\ todo # <<>>
    /\ \E devices \in {Members(w, todo[1].id, "devices"), <<>>} :
          /\ IF devices = Members(w, todo[1].id, "devices") THEN UNCHANGED faults ELSE SpendFault
          /\ row' = [name |-> todo[1].name, type |-> todo[1].type, status |-> todo[1].status,
                     ready |-> "", devices |-> devices]
    /\ pc' = "vms"
    /\ Input /\ UNCHANGED <<exit, todo, ips, rows>>

\* Mutant: the virtual machines take the place of the devices.
VMs_Replace ==
    /\ pc = "vms"
    /\ LET complete == [row EXCEPT !.devices = Members(w, todo[1].id, "vms")]
       IN  IF row.type = "managed"
           THEN row' = complete /\ pc' = "capi" /\ UNCHANGED <<rows, todo>>
           ELSE /\ rows' = Append(rows, complete) /\ row' = NoRow
                /\ pc' = "devices" /\ todo' = Tail(todo)
    /\ Input /\ UNCHANGED <<exit, ips, faults>>

\* Its virtual machines (getClusterVMs); only for a managed cluster the CAPI
\* object is asked for.
VMs ==
    /\ pc = "vms"
    /\ \E vms \in {Members(w, todo[1].id, "vms"), <<>>} :
          /\ IF vms = Members(w, todo[1].id, "vms") THEN UNCHANGED faults ELSE SpendFault
          /\ LET complete == [row EXCEPT !.devices = @ \o vms]
             IN  IF row.type = "managed"
                 THEN row' = complete /\ pc' = "capi" /\ UNCHANGED <<rows, todo>>
                 ELSE /\ rows' = Append(rows, complete) /\ row' = NoRow
                      /\ pc' = "devices" /\ todo' = Tail(todo)
    /\ Input /\ UNCHANGED <<exit, ips>>

\* Mutant: the status of the condition is passed on.
Readiness_Verbatim(status) == status

\* getCAPIClusterInfo: no object and no condition both lead to nothing.
Readiness(status) ==
    CASE status \in {"absent", "none"} -> ""
      [] status = "True" -> "true"
      [] status = "False" -> "false"
      [] OTHER -> "unknown"

Capi ==
    /\ pc = "capi"
    /\ \E status \in {World.capi[row.name], "absent"} :
          /\ IF status = World.capi[row.name] THEN UNCHANGED faults ELSE SpendFault
          /\ rows' = Append(rows, [row EXCEPT !.ready = Readiness(status)])
    /\ row' = NoRow
    /\ pc' = "devices"
    /\ todo' = Tail(todo)
    /\ Input /\ UNCHANGED <<exit, ips>>

-----------------------------------------------------------------------------
(* cluster ipaddr show.                                                    *)

\* The addresses Cilium announces for the control plane, without blanks.
Announced(p) == Only(p.ips, Parts(p.ips) \ {Blank})

Plane ==
    /\ pc = "plane" /\ todo # <<>>
    /\ ips' = Announced(todo[1])
    /\ pc' = "addresses"
    /\ Input /\ UNCHANGED <<exit, todo, row, rows, faults>>

\* getNetBoxIPStatus: the status of the first address the search finds, the
\* address itself if it is there.
Hits(x, a) == {b \in Search[a] : Worlds[x].ipam[b] # NoRecord}
IPStatus(x, a) ==
    IF Hits(x, a) = {} THEN {Blank}
    ELSE {Worlds[x].ipam[b] : b \in IF a \in Hits(x, a) THEN {a} ELSE Hits(x, a)}

\* A row of the report; an address without status is not assigned.
IPRow(cluster, address, ip, source, status) ==
    [cluster |-> cluster, address |-> address, ip |-> ip, source |-> source,
     assigned |-> (status # Blank), status |-> status]

\* Mutant: an address that cannot be looked up is left out.
Address_LeftOut ==
    /\ pc = "addresses" /\ ips # <<>>
    /\ \/ /\ \E status \in IPStatus(w, ips[1]) :
                rows' = Append(rows, IPRow(todo[1].name, ips[1], ips[1], "cilium-lb-ipam", status))
          /\ UNCHANGED faults
       \/ SpendFault /\ UNCHANGED rows
    /\ ips' = Tail(ips)
    /\ Input /\ UNCHANGED <<pc, exit, todo, row>>

\* One address; when NetBox cannot be asked the row says it is not assigned.
Address ==
    /\ pc = "addresses" /\ ips # <<>>
    /\ \E status \in IPStatus(w, ips[1]) \cup {Blank} :
          /\ IF status \in IPStatus(w, ips[1]) THEN UNCHANGED faults ELSE SpendFault
          /\ rows' = Append(rows, IPRow(todo[1].name, ips[1], ips[1], "cilium-lb-ipam", status))
    /\ ips' = Tail(ips)
    /\ Input /\ UNCHANGED <<pc, exit, todo, row>>

\* The Tailscale device of a control plane that is exposed (GetTailscaleDevice);
\* when it cannot be read there is no row.
Exposure ==
    /\ pc = "addresses" /\ ips = <<>>
    /\ LET device == World.tailscale[todo[1].name]
       IN  \/ /\ todo[1].exposed /\ device # NoDevice
              /\ row' = device
              /\ pc' = "tailscale"
              /\ UNCHANGED <<todo, faults>>
           \/ /\ IF todo[1].exposed /\ device # NoDevice THEN SpendFault ELSE UNCHANGED faults
              /\ pc' = "plane"
              /\ todo' = Tail(todo)
              /\ UNCHANGED row
    /\ Input /\ UNCHANGED <<exit, ips, rows>>

\* Its row.  A device that has only a name is not looked up.
Tailscale ==
    /\ pc = "tailscale"
    /\ LET possible == IF row.ip = Blank THEN {Blank} ELSE IPStatus(w, row.ip)
       IN  \E status \in possible \cup {Blank} :
              /\ IF status \in possible THEN UNCHANGED faults ELSE SpendFault
              /\ rows' = Append(rows, IPRow(todo[1].name, row.address, row.ip, "tailscale", status))
    /\ row' = NoRow
    /\ pc' = "plane"
    /\ todo' = Tail(todo)
    /\ Input /\ UNCHANGED <<exit, ips>>

Command ==
    \/ Start \/ List \/ Finish
    \/ Devices \/ VMs \/ Capi
    \/ Plane \/ Address \/ Exposure \/ Tailscale

Next == Command \/ \E n \in EditedTo : Edit(n)

Spec == Init /\ [][Next]_vars

-----------------------------------------------------------------------------
(* Properties.                                                             *)

\* Whatever is changed while "cluster show" is at work, a device is shown
\* under a cluster only if it was in it at some moment; nothing is carried
\* over from the cluster reported before (Show).
ShownWereMembers ==
    kind = "show" => \A i \in 1..Len(rows) : \E c \in UNION {Parts(Worlds[x].clusters) : x \in seen} :
        /\ c.name = rows[i].name
        /\ \A d \in Parts(rows[i].devices) : \E x \in seen :
              d \in Parts(Worlds[x].members[c.id].devices) \cup Parts(Worlds[x].members[c.id].vms)

\* "cluster ipaddr show" that exits with 0 has a row for each address that a
\* control plane in question announced all along, even if NetBox could not be
\* asked about it; and one that is not assigned was unknown to NetBox at some
\* moment, unless that is why (ShowIPAddresses).
AnnouncedAreShown ==
    kind = "ipaddr" /\ exit = "ok" =>
        /\ \A p \in Parts(World.planes) :
              (\A x \in seen : p \in Parts(Worlds[x].planes)) /\ NamedInIPAddr(p.name) =>
                  \A a \in Parts(Announced(p)) :
                      \E i \in 1..Len(rows) : rows[i].cluster = p.name /\ rows[i].ip = a
        /\ faults = 0 => \A i \in 1..Len(rows) : ~rows[i].assigned /\ rows[i].ip # Blank =>
              \E x \in seen : Worlds[x].ipam[rows[i].ip] = NoRecord

\* The row that the records of NetBox and Kubernetes ask for: the cluster, all
\* its members if each kind fits on a page, and of a managed one the readiness
\* ("true", "false", "unknown", or "" if not found, getCAPIClusterInfo).
RecordedRow(c, r) ==
    LET members == World.members[c.id]
        status == World.capi[c.name]
    IN  /\ r.name = c.name /\ r.type = c.type /\ r.status = c.status
        /\ Len(members.devices) <= PageSize /\ Len(members.vms) <= PageSize =>
              r.devices = members.devices \o members.vms
        /\ r.ready = "true" <=> c.type = "managed" /\ status = "True"
        /\ r.ready = "false" <=> c.type = "managed" /\ status = "False"
        /\ r.ready = "" <=> c.type # "managed" \/ status \in {"absent", "none"}

\* When nothing changes and nothing fails, "cluster show" has one row for a
\* cluster, in the order of NetBox and as the records ask for, and one for
\* every cluster asked for, by name or by naming none, if they fit on a page.
\* A list of names that begins with a blank is not one anyone asks with (Show,
\* getClusterDevices, getClusterVMs).
ShowIsReference ==
    LET C == World.clusters
        none == args.clusters = <<Blank>>
        asked == {k \in 1..Len(C) : none \/ C[k].name \in Parts(args.clusters)}
    IN  kind = "show" /\ exit = "ok" /\ seen = {w} /\ faults = 0
        /\ (args.clusters[1] # Blank \/ none) =>
            \E at \in [1..Len(rows) -> asked] :
                /\ \A i, j \in 1..Len(rows) : i < j => at[i] < at[j]
                /\ Cardinality(asked) <= PageSize => asked = {at[i] : i \in 1..Len(rows)}
                /\ \A i \in 1..Len(rows) : RecordedRow(C[at[i]], rows[i])
=============================================================================
