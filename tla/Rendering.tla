----------------------------- MODULE Rendering -----------------------------
(***************************************************************************)
(* The commands that turn NetBox records into documents: "butane flatcar", *)
(* "butane fcos" and "talos machineconfig", and the embedded Ignition that *)
(* CreateHardwares asks for one device at a time.  Every list request to   *)
(* NetBox is a step, so that its answers may stem from different moments;  *)
(* the lookups for one address are a step together.                        *)
(*                                                                         *)
(* A document is abstracted to its network units, in the order in which    *)
(* they are put together: the configuration of an interface, or of a VLAN  *)
(* on top of it, with the address it is given.                             *)
(***************************************************************************)
EXTENDS CommandLine, FiniteSets

CONSTANTS
    Inventories,   \* the contents NetBox may have, under an index
    Scenarios,     \* an initial inventory and the options of the command
    EditedNb,      \* the inventories an edit may lead to
    Names,         \* names of devices
    SubName(_, _), \* "<interface>.<VLAN id>", as fmt.Sprintf puts it together
    PageSize,      \* how many results NetBox puts on a page
    MaxEdits,      \* bound: edits of the inventory
    MaxFaults,     \* bound: failed requests and failed file creations
    NoName, NoAddr, NoIface, NoFile, NoDoc, Dhcp

VARIABLES
    nb,       \* index of the current inventory
    variant,  \* "flatcar", "fcos" or "talos"
    embedded, \* whether CreateHardwares is the caller
    args,     \* the options
    pc,       \* where the command is
    exit,     \* "running", "ok", "failed" or "panic"
    ids,      \* the clusters resolved
    todo,     \* devices still to be rendered, as they were listed
    ifs,      \* interfaces of the current device still to be rendered
    cur,      \* the current interface
    adr,      \* addresses of the current interface still to be rendered
    units,    \* the units of the current device so far
    docs,     \* the documents put together
    errs,     \* whether an extraction failed, as far as the caller is told
    out,      \* name -> content of the file written under it
    refused,  \* history: names under which no file could be created
    seen,     \* history: the inventories since the command began
    edits, faults

localVars == <<ids, todo, ifs, cur, adr, units, docs, errs>>
vars == <<nb, variant, embedded, args, pc, exit, localVars, out, refused, seen, edits, faults>>

\* Records of NetBox.  Interfaces and addresses are under the id of what they
\* belong to, the VLAN of its prefix under an address (0: none, -1: no prefix)
\* and, as the same id may be that of several VLANs, the name of that VLAN.
DeviceRecord ==
    [id : Nat, name : Names \cup {NoName}, status : STRING, primary : BOOLEAN, regions : STRING,
     sites : STRING, locations : STRING, tenants : STRING, roles : STRING, racks : Nat, cluster : Nat]
IfaceRecord == [id : Nat, name : STRING, tagged : SUBSET Nat, dhcp : BOOLEAN]
AddressRecord == [addr : STRING, dhcp : BOOLEAN]

Unit == [kind : {"iface", "vlan"}, iface : STRING \cup {NoIface}, vlan : Nat, vname : STRING \cup {NoName},
         addr : STRING \cup {NoAddr, Dhcp}, routed : BOOLEAN]

\* Where a variable of the code holds a document, or would if it were one.
Document == [dev : Nat, name : Names \cup {NoName}, host : STRING, units : Seq(Unit)]

AllDevices == UNION {Parts(Inventories[n].devices) : n \in DOMAIN Inventories}
DeviceIds == {d.id : d \in AllDevices}
AllIfaces == UNION {Parts(Inventories[n].ifaces[d]) : n \in DOMAIN Inventories, d \in DeviceIds}
IfaceIds == {i.id : i \in AllIfaces}
AllAddresses == UNION {Parts(Inventories[n].addrs[i]) : n \in DOMAIN Inventories, i \in IfaceIds}

\* What the model needs of its parameters; no option has an empty list, as
\* strings.Split returns at least one part.
ASSUME RenderingAssumption ==
    /\ \A s \in Scenarios :
          /\ s.nb \in DOMAIN Inventories
          /\ s.args.racks \in Seq(Nat \cup {Blank, BadRack})
          /\ \A f \in TextFilters \cup {"clusters"} : s.args[f] \in Seq(STRING \cup {Blank}) \ {<<>>}
    /\ EditedNb \subseteq DOMAIN Inventories
    /\ MaxEdits \in Nat
    /\ MaxFaults \in Nat
    /\ PageSize \in Nat \ {0}
    /\ Names \subseteq STRING /\ NoName \notin STRING
    /\ NoDoc \notin Seq(Unit) \cup Document /\ NoFile \notin Document \cup {NoDoc}
    /\ NoAddr \notin STRING \cup {Dhcp} /\ NoIface \notin STRING
    /\ \A n \in DOMAIN Inventories :
          /\ Inventories[n].devices \in Seq(DeviceRecord)
          /\ \A d \in DeviceIds :
                /\ Inventories[n].ifaces[d] \in Seq(IfaceRecord)
                /\ Inventories[n].dns[d] \in STRING
          /\ \A i \in IfaceIds : Inventories[n].addrs[i] \in Seq(AddressRecord)
          /\ \A a \in AllAddresses :
                Inventories[n].prefix[a.addr] \in Nat \cup {-1} /\ Inventories[n].vname[a.addr] \in STRING

\* NetBox keeps the names of the interfaces of a device apart.
IfacesApart ==
    \A n \in DOMAIN Inventories : \A d \in DeviceIds :
        \A j, k \in 1..Len(Inventories[n].ifaces[d]) :
            Inventories[n].ifaces[d][j].name = Inventories[n].ifaces[d][k].name => j = k

Inv == Inventories[nb]

\* No list request asks for the page after the first.
Page(s) == Upto(s, PageSize)

TypeOK ==
    /\ nb \in DOMAIN Inventories
    /\ pc \in {"args", "resolve", "list", "device", "refetched", "addresses", "write", "end"}
    /\ exit \in {"running", "ok", "failed", "panic"}
    /\ exit # "running" => pc = "end"
    /\ units \in Seq(Unit)
    /\ \A i \in 1..Len(docs) : docs[i].units = NoDoc \/ docs[i] \in Document
    /\ ~embedded => \A i \in 1..Len(docs) : docs[i].name \in Names
    /\ \A n \in Names : out[n] \in {NoFile, NoDoc} \/ out[n] \in Document
    /\ refused \subseteq Names
    /\ edits \in 0..MaxEdits
    /\ faults \in 0..MaxFaults
    /\ nb \in seen

Init ==
    /\ \E s \in Scenarios : nb = s.nb /\ args = s.args
    /\ variant \in {"flatcar", "fcos", "talos"}
    /\ embedded \in (IF variant = "talos" THEN {FALSE} ELSE BOOLEAN)
    /\ pc = "args"
    /\ exit = "running"
    /\ ids = {} /\ todo = <<>> /\ ifs = <<>> /\ adr = <<>> /\ units = <<>> /\ docs = <<>>
    /\ cur = NoIface
    /\ errs = FALSE
    /\ out = [n \in Names |-> NoFile]
    /\ refused = {}
    /\ seen = {nb}
    /\ edits = 0
    /\ faults = 0

SpendFault == faults < MaxFaults /\ faults' = faults + 1

\* Somebody edits NetBox while the command is at work.
Edit(n) ==
    /\ pc # "end"
    /\ edits < MaxEdits
    /\ n # nb
    /\ nb' = n
    /\ edits' = edits + 1
    /\ seen' = seen \cup {n}
    /\ UNCHANGED <<variant, embedded, args, pc, exit, localVars, out, refused, faults>>

\* What no step of the command changes.
Input == UNCHANGED <<nb, variant, embedded, args, seen, edits>>

Ends(how) ==
    /\ pc' = "end"
    /\ exit' = how
    /\ UNCHANGED <<localVars, out, refused>>

-----------------------------------------------------------------------------
(* Options and devices.                                                    *)

\* The options are read; without the mandatory ones the command exits.
ReadArgs ==
    /\ pc = "args"
    /\ IF ProcessRootArgs(args, ~embedded, TRUE)
       THEN /\ pc' = IF Wanted(args, "clusters") THEN "resolve" ELSE "list"
            /\ UNCHANGED <<exit, localVars, out, refused>>
       ELSE Ends("failed")
    /\ Input /\ UNCHANGED faults

\* The clusters are resolved; without any the list of devices is empty.
Resolve ==
    /\ pc = "resolve"
    /\ ids' = ResolveClusterIDs(Inv.clusters, args)
    /\ pc' = IF ids' = {} THEN "device" ELSE "list"
    /\ Input /\ UNCHANGED <<exit, todo, ifs, cur, adr, units, docs, errs, out, refused, faults>>

\* The status a variant is rendered for: Talos machines are patched once they
\* run, the others before they are installed.
WantedStatus == IF variant = "talos" THEN {"active"} ELSE {"staged"}

\* The devices that match.
Selected == Only(Inv.devices, {d \in Parts(Inv.devices) : Matches(d, args, WantedStatus, ids)})

\* The devices are listed, as many as are on a page.
ListDevices ==
    /\ pc = "list"
    /\ todo' = Page(Selected)
    /\ pc' = "device"
    /\ Input /\ UNCHANGED <<exit, ids, ifs, cur, adr, units, docs, errs, out, refused, faults>>

\* When clusters or devices cannot be listed the command exits.
ListFails ==
    /\ pc \in {"resolve", "list"}
    /\ SpendFault
    /\ Ends("failed")
    /\ Input

-----------------------------------------------------------------------------
(* The extraction of one device.                                           *)

Current == todo[1]

\* The records of a device in the current inventory.
Live(d) == {i \in 1..Len(Inv.devices) : Inv.devices[i].id = d.id}

\* CreateFlatcarIgnition and CreateFCOSIgnition read the device again, by its
\* id: it may be gone, and the first element of an empty list is a panic.  So
\* is a device without name, in extractHardwareData before that.
Refetch ==
    /\ pc = "device" /\ embedded /\ todo # <<>>
    /\ \/ /\ Live(Current) = {} \/ Current.name = NoName
          /\ Ends("panic")
          /\ UNCHANGED faults
       \/ \E i \in Live(Current) :
             /\ Current.name # NoName
             /\ todo' = [todo EXCEPT ![1] = Inv.devices[i]]
             /\ pc' = "refetched"
             /\ UNCHANGED <<exit, ids, ifs, cur, adr, units, docs, errs, out, refused, faults>>
       \/ /\ Current.name # NoName
          /\ SpendFault
          /\ docs' = Append(docs, [dev |-> Current.id, name |-> Current.name,
                                   host |-> "", units |-> NoDoc])
          /\ todo' = Tail(todo)
          /\ UNCHANGED <<pc, exit, ids, ifs, cur, adr, units, errs, out, refused>>
    /\ Input

\* The interfaces of the device.
ListInterfaces ==
    /\ todo # <<>>
    /\ pc = IF embedded THEN "refetched" ELSE "device"
    /\ ifs' = Page(Inv.ifaces[Current.id])
    /\ units' = <<>>
    /\ adr' = <<>>
    /\ cur' = NoIface
    /\ pc' = "addresses"
    /\ Input /\ UNCHANGED <<exit, ids, todo, docs, errs, out, refused, faults>>

\* Mutant: the address of the last interface is still there.
ListAddresses_NotReset ==
    /\ pc = "addresses" /\ adr = <<>> /\ ifs # <<>>
    /\ cur' = ifs[1]
    /\ ifs' = Tail(ifs)
    /\ adr' = IF variant = "talos" /\ ifs[1].dhcp THEN <<>> ELSE Page(Inv.addrs[ifs[1].id])
    /\ units' = IF variant # "talos" THEN units
                ELSE Append(units, [kind |-> "iface", iface |-> ifs[1].name, vlan |-> 0, vname |-> NoName,
                                    addr |-> IF units = <<>> THEN NoAddr ELSE units[1].addr,
                                    routed |-> FALSE])
    /\ Input /\ UNCHANGED <<pc, exit, ids, todo, docs, errs, out, refused, faults>>

\* The addresses of the next interface.  Talos has a unit for every interface,
\* and ignores the addresses of one that is tagged for DHCP.
ListAddresses ==
    /\ pc = "addresses" /\ adr = <<>> /\ ifs # <<>>
    /\ cur' = ifs[1]
    /\ ifs' = Tail(ifs)
    /\ adr' = IF variant = "talos" /\ ifs[1].dhcp THEN <<>> ELSE Page(Inv.addrs[ifs[1].id])
    /\ units' = IF variant # "talos" THEN units
                ELSE Append(units, [kind |-> "iface", iface |-> ifs[1].name, vlan |-> 0, vname |-> NoName,
                                    addr |-> NoAddr, routed |-> FALSE])
    /\ Input /\ UNCHANGED <<pc, exit, ids, todo, docs, errs, out, refused, faults>>

\* Mutant: the error of an extraction is lost, as in the loop of CreateFCOSs.
ExtractionFails_Shadowed ==
    /\ \/ pc \in {"device", "refetched"} /\ todo # <<>> /\ (pc = "refetched" <=> embedded)
       \/ pc = "addresses" /\ adr = <<>> /\ ifs # <<>>
    /\ SpendFault
    /\ pc' = "device"
    /\ todo' = Tail(todo)
    /\ UNCHANGED <<exit, ids, ifs, cur, adr, units, docs, errs, out, refused>>
    /\ Input

\* Interfaces or addresses cannot be listed.  The device is left out, and the
\* caller told so, except by CreateFCOSs, whose loop has an err of its own.
\* With embedded Ignition a nil configuration is dereferenced.
ExtractionFails ==
    /\ \/ pc \in {"device", "refetched"} /\ todo # <<>> /\ (pc = "refetched" <=> embedded)
       \/ pc = "addresses" /\ adr = <<>> /\ ifs # <<>>
    /\ SpendFault
    /\ IF embedded THEN Ends("panic")
       ELSE /\ pc' = "device"
            /\ todo' = Tail(todo)
            /\ errs' = (errs \/ variant # "fcos")
            /\ ifs' = <<>> /\ adr' = <<>> /\ units' = <<>> /\ cur' = NoIface
            /\ UNCHANGED <<exit, ids, docs, out, refused>>
    /\ Input

\* Mutant: the configuration of an interface is appended for every variant.
Placed_Appended(u) == Append(units, u)

\* The unit an address leads to.  Flatcar keeps one interface unit, the last;
\* Talos one for each interface, with the last address; a VLAN unit of FCOS
\* has no address.
Placed(u) ==
    CASE u.kind = "vlan" -> Append(units, IF variant = "fcos" THEN [u EXCEPT !.addr = NoAddr] ELSE u)
      [] u.kind = "iface" /\ variant = "flatcar" -> Append(Only(units, {v \in Parts(units) : v.kind = "vlan"}), u)
      [] u.kind = "iface" /\ variant = "fcos" -> Append(units, u)
      [] OTHER -> [i \in 1..Len(units) |->
                     IF units[i].kind = "iface" /\ units[i].iface = u.iface
                     THEN [units[i] EXCEPT !.addr = u.addr] ELSE units[i]]

\* Whether gateways and name servers are looked up for the unit.
LooksUp(u) ==
    \/ variant = "flatcar" /\ u.addr # Dhcp
    \/ variant = "fcos" /\ u.kind = "iface" /\ u.addr # Dhcp

\* Mutant: the VLAN of the prefix is enough.
IsTagged_PrefixOnly(v) == v > 0

\* IsVlanIDInVlanList.
IsTagged(v) == v \in cur.tagged

\* One address: its prefix is looked up and decides on the unit.  Without a
\* prefix (-1), or when it cannot be looked up, the address is dropped; FCOS
\* panics on a prefix without VLAN (0), and when the prefix cannot be looked
\* up a second time for the gateways.
RenderAddress ==
    /\ pc = "addresses" /\ adr # <<>>
    /\ LET a    == adr[1]
           v    == Inv.prefix[a.addr]
           vlan == v > 0 /\ IsTagged(v)
           u    == [kind |-> IF vlan THEN "vlan" ELSE "iface", iface |-> cur.name,
                    vlan |-> IF vlan THEN v ELSE 0,
                    vname |-> IF vlan THEN Inv.vname[a.addr] ELSE NoName,
                    addr |-> IF ~vlan /\ variant # "talos" /\ a.dhcp THEN Dhcp ELSE a.addr,
                    routed |-> FALSE]
       IN  \/ /\ v = 0 /\ variant = "fcos"
              /\ Ends("panic")
              /\ UNCHANGED faults
           \/ /\ v >= 0 /\ ~(v = 0 /\ variant = "fcos")
              /\ adr' = Tail(adr)
              /\ \/ units' = Placed([u EXCEPT !.routed = LooksUp(u)]) /\ UNCHANGED faults
                 \/ LooksUp(u) /\ units' = Placed(u) /\ SpendFault
              /\ UNCHANGED <<pc, exit, ids, todo, ifs, cur, docs, errs, out, refused>>
           \/ /\ v > 0 /\ variant = "fcos" /\ LooksUp(u)
              /\ SpendFault
              /\ Ends("panic")
           \/ /\ adr' = Tail(adr)
              /\ IF v = -1 THEN UNCHANGED faults ELSE SpendFault
              /\ UNCHANGED <<pc, exit, ids, todo, ifs, cur, units, docs, errs, out, refused>>
    /\ Input

\* A Flatcar document has an interface unit even if no address led to one.
Completed ==
    IF variant = "flatcar" /\ \A i \in 1..Len(units) : units[i].kind = "vlan"
    THEN Append(units, [kind |-> "iface", iface |-> NoIface, vlan |-> 0, vname |-> NoName, addr |-> NoAddr,
                        routed |-> FALSE])
    ELSE units

\* Mutant: a device is taken to have a name.
Finish_AnyName ==
    /\ pc = "addresses" /\ adr = <<>> /\ ifs = <<>>
    /\ docs' = Append(docs, [dev |-> Current.id, name |-> Current.name,
                             host |-> Current.name, units |-> Completed])
    /\ pc' = "device"
    /\ todo' = Tail(todo)
    /\ units' = <<>> /\ cur' = NoIface
    /\ UNCHANGED <<exit, ids, ifs, adr, errs, out, refused, faults>>
    /\ Input

\* The document is complete but for the hostname: the DNS name of the primary
\* address, or the name of the device if there is none or it cannot be read.
\* A name that is needed, here or for the file, and not there is a panic.
Finish ==
    /\ pc = "addresses" /\ adr = <<>> /\ ifs = <<>>
    /\ LET dns == Inv.dns[Current.id]
       IN  \E host \in {dns, Current.name} :
              /\ IF variant = "talos" \/ dns = ""
                 THEN host = Current.name /\ UNCHANGED faults
                 ELSE IF host = dns THEN UNCHANGED faults ELSE SpendFault
              /\ IF host = NoName \/ (~embedded /\ Current.name = NoName)
                 THEN Ends("panic")
                 ELSE /\ docs' = Append(docs, [dev |-> Current.id, name |-> Current.name,
                                               host |-> host, units |-> Completed])
                      /\ pc' = "device"
                      /\ todo' = Tail(todo)
                      /\ units' = <<>> /\ cur' = NoIface
                      /\ UNCHANGED <<exit, ids, ifs, adr, errs, out, refused>>
    /\ Input

-----------------------------------------------------------------------------
(* Writing.                                                                *)

\* All devices are done: the command exits if it was told of an error.
EndExtraction ==
    /\ pc = "device" /\ todo = <<>>
    /\ IF errs THEN Ends("failed")
       ELSE IF embedded THEN Ends("ok")
       ELSE pc' = "write" /\ UNCHANGED <<exit, localVars, out, refused>>
    /\ Input /\ UNCHANGED faults

\* The name in the path of the file that a unit becomes.  Flatcar goes by the
\* name of the VLAN, in 00-<name>.netdev and 01-<name>.network, the latter
\* also used for interfaces; FCOS by interface and VLAN id.
FileName(iface, vlan, vname) ==
    IF vlan = 0 THEN iface ELSE IF variant = "flatcar" THEN vname ELSE SubName(iface, vlan)

Path(u) == FileName(u.iface, u.vlan, u.vname)

\* Butane translates no configuration with two files of one path (external);
\* the error is logged and nothing is written into the file.
Translate(doc) ==
    IF variant # "talos" /\ \E i, j \in 1..Len(doc.units) :
           i # j /\ Path(doc.units[i]) = Path(doc.units[j])
    THEN NoDoc ELSE doc

\* One document is written under the name of its device; a file that cannot
\* be created is logged.
Write ==
    /\ pc = "write" /\ docs # <<>>
    /\ \/ /\ out' = [out EXCEPT ![docs[1].name] = Translate(docs[1])]
          /\ UNCHANGED <<refused, faults>>
       \/ /\ refused' = refused \cup {docs[1].name}
          /\ SpendFault
          /\ UNCHANGED out
    /\ docs' = Tail(docs)
    /\ Input /\ UNCHANGED <<pc, exit, ids, todo, ifs, cur, adr, units, errs>>

Done ==
    /\ pc = "write" /\ docs = <<>>
    /\ Ends("ok")
    /\ Input /\ UNCHANGED faults

Command ==
    \/ ReadArgs \/ Resolve \/ ListDevices \/ ListFails
    \/ Refetch \/ ListInterfaces \/ ListAddresses \/ ExtractionFails
    \/ RenderAddress \/ Finish \/ EndExtraction
    \/ Write \/ Done

Next ==
    \/ \E n \in EditedNb : Edit(n)
    \/ Command

Spec == Init /\ [][Next]_vars

-----------------------------------------------------------------------------
(* Properties.                                                             *)

\* The documents there are at any moment, the unfinished one included.
Documents ==
    LET finished == {docs[i] : i \in 1..Len(docs)} \cup {out[n] : n \in Names}
        current  == IF pc = "addresses" THEN {[dev |-> Current.id, units |-> units]} ELSE {}
    IN  {d \in finished \ {NoFile, NoDoc} : d.units # NoDoc} \cup current

\* Interface i had address a, at some moment of the command.
WasOn(a, i) == \E n \in seen : \E x \in Parts(Inventories[n].addrs[i.id]) : x.addr = a

\* Every address in a document was on that interface of that device at some
\* moment of the command, and every VLAN was tagged on it and was, name and
\* all, that of the address's prefix: nothing is carried over from the
\* interface or the device handled before, whatever was edited in between
\* (extractFlatcarData, extractFCOSData, extractTalosData).
UnitsAreSourced ==
    \A d \in Documents : \A u \in Parts(d.units) :
        u.iface # NoIface =>
            \E n \in seen : \E i \in Parts(Inventories[n].ifaces[d.dev]) :
                /\ i.name = u.iface
                /\ u.addr \notin {NoAddr, Dhcp} => WasOn(u.addr, i)
                /\ u.kind = "vlan" => u.vlan \in i.tagged
                /\ u.kind = "vlan" /\ u.addr # NoAddr =>
                      \E m \in seen : Inventories[m].prefix[u.addr] = u.vlan /\ Inventories[m].vname[u.addr] = u.vname

\* A document is made only for a device that at some moment had the status
\* and matched all options given, if these are well-formed: none has a blank
\* part other than a rack, no rack is zero (processRootArgs, GetDevices,
\* resolveClusterIDs).
SelectionRespected ==
    \A d \in Documents : \E n \in seen : \E r \in Parts(Inventories[n].devices) :
        /\ r.id = d.dev
        /\ r.status \in WantedStatus
        /\ \A f \in TextFilters : Blank \notin Parts(args[f]) => r[f] \in Parts(args[f])
        /\ RackIDs(args.racks) # <<>> /\ 0 \notin Parts(args.racks) => r.racks \in Parts(args.racks)
        /\ Blank \notin Parts(args.clusters) =>
              \E m \in seen : r.cluster \in ResolveClusterIDs(Inventories[m].clusters, args)

\* The devices that match in inventory n, with the clusters of inventory m.
MatchesOf(n, m) ==
    {d \in Parts(Inventories[n].devices) :
        Matches(d, args, WantedStatus, ResolveClusterIDs(Inventories[m].clusters, args))}

\* A device that is selected however one looks at it, and never one of more
\* than there are on a page.
AlwaysSelected(r) ==
    \A n, m \in seen :
        /\ \E s \in MatchesOf(n, m) : s.id = r.id /\ s.name = r.name
        /\ Len(Only(Inventories[n].devices, MatchesOf(n, m))) <= PageSize

\* A file was written for the device or, in its place, for one of the same
\* name.
HasFile(r) ==
    \/ out[r.name] = NoDoc
    \/ /\ out[r.name] # NoFile
       /\ \E n \in seen : \E s \in Parts(Inventories[n].devices) : s.name = r.name /\ s.id = out[r.name].dev

\* "butane flatcar" and "talos machineconfig" that exit with 0 have left its
\* file for every device selected throughout, unless it could not be created,
\* a device of the same name has taken its place, or at some moment more
\* devices were selected than NetBox puts on a page: an extraction that failed
\* is never passed over (errors.Join in CreateFlatcars and CreateTalosConfigs,
\* fatalExit before the first file).  And a command that fails leaves no file
\* at all.
AllFilesOrNone ==
    /\ exit = "ok" /\ ~embedded /\ variant # "fcos" =>
          \A r \in Parts(Inv.devices) : AlwaysSelected(r) => HasFile(r) \/ r.name \in refused
    /\ exit = "failed" => \A n \in Names : out[n] = NoFile

-----------------------------------------------------------------------------
(* What the documents should say, without loops.                           *)

AddrAt(dev, p) == Inv.addrs[Inv.ifaces[dev][p[1]].id][p[2]]
VlanAt(dev, p) ==
    LET v == Inv.prefix[AddrAt(dev, p).addr]
    IN  IF v \in Inv.ifaces[dev][p[1]].tagged THEN v ELSE 0

\* The places of the addresses of a device that lead to a unit: interface
\* number and address number.
Places(dev) ==
    {p \in UNION {{k} \X (1..Len(Inv.addrs[Inv.ifaces[dev][k].id])) : k \in 1..Len(Inv.ifaces[dev])} :
        /\ Inv.prefix[AddrAt(dev, p).addr] # -1
        /\ ~(variant = "talos" /\ Inv.ifaces[dev][p[1]].dhcp)}

IsLast(p, P) == \A q \in P : q[1] < p[1] \/ (q[1] = p[1] /\ q[2] <= p[2])

\* Of the places P, the one that decides on the address of p's interface: the
\* last one without VLAN, of the device for Flatcar, of the interface for
\* Talos.
Deciding(dev, P, p) ==
    variant = "fcos" \/
    IsLast(p, {q \in P : VlanAt(dev, q) = 0 /\ (variant = "flatcar" \/ q[1] = p[1])})

Used(dev, P) == {p \in P : VlanAt(dev, p) # 0 \/ Deciding(dev, P, p)}

\* The file a place asks for.
FileAt(dev, p) == FileName(Inv.ifaces[dev][p[1]].name, VlanAt(dev, p), Inv.vname[AddrAt(dev, p).addr])

\* Interface, VLAN, file and address of the unit of a place.
ExpectedAddress(dev, p) ==
    <<Inv.ifaces[dev][p[1]].name, VlanAt(dev, p),
      IF variant # "talos" /\ VlanAt(dev, p) = 0 /\ AddrAt(dev, p).dhcp THEN Dhcp
      ELSE IF variant = "fcos" /\ VlanAt(dev, p) # 0 THEN NoAddr
      ELSE AddrAt(dev, p).addr,
      FileAt(dev, p)>>

ExpectedAddresses(dev, P) == {ExpectedAddress(dev, p) : p \in Used(dev, P)}

\* Two places ask for one file.
Clash(dev, P) ==
    /\ variant # "talos"
    /\ \E p, q \in Used(dev, P) : p # q /\ FileAt(dev, p) = FileAt(dev, q)

\* No list of the device is longer than a page.
Fits(dev) ==
    /\ Len(Inv.ifaces[dev]) <= PageSize
    /\ \A k \in 1..Len(Inv.ifaces[dev]) : Len(Inv.addrs[Inv.ifaces[dev][k].id]) <= PageSize

\* When nothing fails and nothing is edited, and no more devices are selected
\* than NetBox puts on a page, there is a file for each of them.  Of devices
\* of one name only the last has it, the files of the others are overwritten.
\* If the interfaces of the device and their addresses fit on a page too, the
\* file says what its record calls for: every address in a VLAN has its unit,
\* and the others that of the last of them; it is empty exactly when two
\* addresses ask for one file.
DocumentIsReference ==
    exit = "ok" /\ ~embedded /\ faults = 0 /\ seen = {nb} /\ Len(Selected) <= PageSize =>
        \A i \in 1..Len(Selected) :
            (\A j \in (i + 1)..Len(Selected) : Selected[j].name # Selected[i].name) =>
                LET file == out[Selected[i].name]
                    dev  == Selected[i].id
                IN  /\ file # NoFile
                    /\ file # NoDoc => file.dev = dev
                    /\ Fits(dev) =>
                          /\ file = NoDoc <=> Clash(dev, Places(dev))
                          /\ file # NoDoc =>
                                {<<u.iface, u.vlan, u.addr, Path(u)>> : u \in
                                    {x \in Parts(file.units) : x.kind = "vlan" \/ x.addr # NoAddr}}
                                = ExpectedAddresses(dev, Places(dev))
=============================================================================
