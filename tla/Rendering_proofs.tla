-------------------------- MODULE Rendering_proofs --------------------------
(***************************************************************************)
(* Proofs about Rendering, for every inventory, every command line and     *)
(* every bound.                                                            *)
(***************************************************************************)
EXTENDS Rendering, Lists_proofs

-----------------------------------------------------------------------------
(* Inductive invariants.                                                   *)

\* A document under a name, and what is left of one whose device could not be
\* read again.
Named == {d \in Document : d.name \in Names}
Failed == [dev : Nat, name : Names, host : {""}, units : {NoDoc}]

\* Types, and what there is at which step.
Types ==
    /\ nb \in seen /\ seen \subseteq DOMAIN Inventories
    /\ variant \in {"flatcar", "fcos", "talos"} /\ embedded \in BOOLEAN /\ errs \in BOOLEAN
    /\ \E s \in Scenarios : args = s.args
    /\ pc \in {"args", "resolve", "list", "device", "refetched", "addresses", "write", "end"}
    /\ exit \in {"running", "ok", "failed", "panic"}
    /\ exit # "running" <=> pc = "end"
    /\ todo \in Seq(AllDevices) /\ ifs \in Seq(AllIfaces) /\ adr \in Seq(AllAddresses)
    /\ cur \in AllIfaces \cup {NoIface}
    /\ units \in Seq(Unit)
    /\ docs \in Seq(Document \cup Failed)
    /\ ~embedded => docs \in Seq(Named)
    /\ out \in [Names -> Named \cup {NoFile, NoDoc}]
    /\ refused \subseteq Names
    /\ edits \in 0..MaxEdits /\ faults \in 0..MaxFaults
    /\ pc \in {"refetched", "addresses"} => todo # <<>>
    /\ pc = "addresses" /\ adr # <<>> => cur \in AllIfaces
    /\ pc = "refetched" => embedded
    /\ pc = "write" => ~embedded

\* i was an interface of the device, a an address of i, in one of the
\* inventories in S; and a unit has its source in them.
HadIface(S, dev, i) == \E n \in S : i \in Parts(Inventories[n].ifaces[dev])
HadAddress(S, i, a) == \E n \in S : a \in Parts(Inventories[n].addrs[i.id])

SourcedBy(S, u, i) ==
    /\ i.name = u.iface
    /\ u.addr \notin {NoAddr, Dhcp} =>
          \E n \in S : \E a \in Parts(Inventories[n].addrs[i.id]) : a.addr = u.addr
    /\ u.kind = "vlan" => u.vlan \in i.tagged
    /\ u.kind = "vlan" /\ u.addr # NoAddr =>
          \E m \in S : Inventories[m].prefix[u.addr] = u.vlan /\ Inventories[m].vname[u.addr] = u.vname

SourcedUnit(S, dev, u) ==
    u.iface # NoIface => \E n \in S : \E i \in Parts(Inventories[n].ifaces[dev]) : SourcedBy(S, u, i)

SourcedUnits(S, dev, us) == \A u \in Parts(us) : SourcedUnit(S, dev, u)

\* Every unit has its source; so have the interfaces and addresses units will
\* be made of, which are those of the current device and interface.
Sourcing ==
    /\ \A d \in Parts(docs) : d.units # NoDoc => SourcedUnits(seen, d.dev, d.units)
    /\ \A n \in Names : out[n] \notin {NoFile, NoDoc} => SourcedUnits(seen, out[n].dev, out[n].units)
    /\ pc = "addresses" =>
          /\ SourcedUnits(seen, Current.id, units)
          /\ \A i \in Parts(ifs) : HadIface(seen, Current.id, i)
          /\ adr # <<>> => HadIface(seen, Current.id, cur)
          /\ \A a \in Parts(adr) : HadAddress(seen, cur, a)

\* The device with this id was selected, by options o and statuses W, in one
\* of the inventories in S, and by clusters that were resolved in one of them.
Chosen(S, o, W, id) ==
    \E n \in S : \E r \in Parts(Inventories[n].devices) :
        /\ r.id = id
        /\ r.status \in W
        /\ \A f \in TextFilters : Blank \notin Parts(o[f]) => r[f] \in Parts(o[f])
        /\ RackIDs(o.racks) # <<>> /\ 0 \notin Parts(o.racks) => r.racks \in Parts(o.racks)
        /\ Blank \notin Parts(o.clusters) =>
              \E m \in S : r.cluster \in ResolveClusterIDs(Inventories[m].clusters, o)

Resolved == \E m \in seen : ids = ResolveClusterIDs(Inventories[m].clusters, args)

\* And it had this name in one of them.
Picked(S, o, W, id, name) ==
    /\ Chosen(S, o, W, id)
    /\ \E n \in S : \E r \in Parts(Inventories[n].devices) : r.name = name /\ r.id = id

Choosing ==
    /\ \A d \in Parts(todo) : Picked(seen, args, WantedStatus, d.id, d.name)
    /\ \A d \in Parts(docs) : Picked(seen, args, WantedStatus, d.dev, d.name)
    /\ \A n \in Names : out[n] \notin {NoFile, NoDoc} => Picked(seen, args, WantedStatus, out[n].dev, n)
    /\ pc = "list" /\ Wanted(args, "clusters") => Resolved

\* A device under this name is still to come, or has its document, its file,
\* or a file that could not be created; or an error will be reported.
Covered(name) ==
    \/ errs
    \/ \E d \in Parts(todo) : d.name = name
    \/ \E d \in Parts(docs) : d.name = name
    \/ name \in Names /\ out[name] # NoFile
    \/ name \in refused

Covering ==
    /\ (pc \in {"device", "addresses", "write"} \/ exit = "ok") /\ ~embedded /\ variant # "fcos" =>
          \A r \in AllDevices : AlwaysSelected(r) => Covered(r.name)
    /\ pc = "resolve" => Wanted(args, "clusters")
    /\ pc = "write" \/ exit = "ok" => ~errs /\ todo = <<>>
    /\ exit = "ok" /\ ~embedded => docs = <<>>
    /\ pc \notin {"write", "end"} \/ exit = "failed" => \A n \in Names : out[n] = NoFile

-----------------------------------------------------------------------------
(* Types.                                                                  *)

\* What NetBox answers with has the types of its records.
LEMMA InventoryTypes ==
    ASSUME NEW n \in DOMAIN Inventories
    PROVE  /\ Inventories[n].devices \in Seq(AllDevices)
           /\ \A d \in DeviceIds : Inventories[n].ifaces[d] \in Seq(AllIfaces)
           /\ \A i \in IfaceIds : Inventories[n].addrs[i] \in Seq(AllAddresses)
<1> DEFINE I == Inventories[n]
<1>1. I.devices \in Seq(AllDevices)
  <2>1. I.devices \in Seq(DeviceRecord)
    BY RenderingAssumption
  <2>2. Parts(I.devices) \subseteq AllDevices
    BY DEF AllDevices
  <2> QED
    BY <2>1, <2>2, PartsWithin
<1>2. ASSUME NEW d \in DeviceIds PROVE I.ifaces[d] \in Seq(AllIfaces)
  <2>1. I.ifaces[d] \in Seq(IfaceRecord)
    BY RenderingAssumption
  <2>2. Parts(I.ifaces[d]) \subseteq AllIfaces
    BY DEF AllIfaces
  <2> QED
    BY <2>1, <2>2, PartsWithin
<1>3. ASSUME NEW i \in IfaceIds PROVE I.addrs[i] \in Seq(AllAddresses)
  <2>1. I.addrs[i] \in Seq(AddressRecord)
    BY RenderingAssumption
  <2>2. Parts(I.addrs[i]) \subseteq AllAddresses
    BY DEF AllAddresses
  <2> QED
    BY <2>1, <2>2, PartsWithin
<1> QED
  BY <1>1, <1>2, <1>3

\* The records of all inventories.
LEMMA RecordTypes ==
    /\ AllDevices \subseteq DeviceRecord /\ \A d \in AllDevices : d.id \in DeviceIds
    /\ AllIfaces \subseteq IfaceRecord /\ \A i \in AllIfaces : i.id \in IfaceIds
    /\ AllAddresses \subseteq AddressRecord
<1>1. AllDevices \subseteq DeviceRecord
  <2> SUFFICES ASSUME NEW n \in DOMAIN Inventories PROVE Parts(Inventories[n].devices) \subseteq DeviceRecord
    BY DEF AllDevices
  <2>1. Inventories[n].devices \in Seq(DeviceRecord)
    BY RenderingAssumption
  <2> QED
    BY <2>1, PartsType
<1>2. AllIfaces \subseteq IfaceRecord
  <2> SUFFICES ASSUME NEW n \in DOMAIN Inventories, NEW d \in DeviceIds
               PROVE  Parts(Inventories[n].ifaces[d]) \subseteq IfaceRecord
    BY DEF AllIfaces
  <2>1. Inventories[n].ifaces[d] \in Seq(IfaceRecord)
    BY RenderingAssumption
  <2> QED
    BY <2>1, PartsType
<1>3. AllAddresses \subseteq AddressRecord
  <2> SUFFICES ASSUME NEW n \in DOMAIN Inventories, NEW i \in IfaceIds
               PROVE  Parts(Inventories[n].addrs[i]) \subseteq AddressRecord
    BY DEF AllAddresses
  <2>1. Inventories[n].addrs[i] \in Seq(AddressRecord)
    BY RenderingAssumption
  <2> QED
    BY <2>1, PartsType
<1> QED
  BY <1>1, <1>2, <1>3 DEF DeviceIds, IfaceIds

\* A page has nothing that the whole list has not, and all of it if it fits.
LEMMA PageParts ==
    ASSUME NEW S, NEW s \in Seq(S)
    PROVE  /\ Page(s) \in Seq(S) /\ Parts(Page(s)) \subseteq Parts(s)
           /\ Len(s) <= PageSize => Page(s) = s
BY UptoParts, RenderingAssumption DEF Page

\* The initial states have the types.
LEMMA TypesInit == Init => Types
<1> SUFFICES ASSUME Init PROVE Types
  OBVIOUS
<1>1. /\ nb \in seen /\ seen \subseteq DOMAIN Inventories
      /\ \E s \in Scenarios : args = s.args
  BY RenderingAssumption DEF Init
<1>2. variant \in {"flatcar", "fcos", "talos"} /\ embedded \in BOOLEAN /\ errs \in BOOLEAN
  BY Zenon DEF Init
<1>3. out \in [Names -> Named \cup {NoFile, NoDoc}]
  BY DEF Init
<1>4. edits \in 0..MaxEdits /\ faults \in 0..MaxFaults
  BY RenderingAssumption DEF Init
<1>5. /\ todo \in Seq(AllDevices) /\ ifs \in Seq(AllIfaces) /\ adr \in Seq(AllAddresses)
      /\ units \in Seq(Unit) /\ docs \in Seq(Document \cup Failed) /\ docs \in Seq(Named)
  BY DEF Init
<1> QED
  BY <1>1, <1>2, <1>3, <1>4, <1>5 DEF Init, Types

\* A fault is counted within the bound.
LEMMA SpendFaultType ==
    ASSUME faults \in 0..MaxFaults, SpendFault \/ UNCHANGED faults
    PROVE  faults' \in 0..MaxFaults
BY RenderingAssumption DEF SpendFault

\* The command is over.
LEMMA TypesEnds ==
    ASSUME Types, Input, NEW how \in {"ok", "failed", "panic"}, Ends(how), SpendFault \/ UNCHANGED faults
    PROVE  Types'
<1>1. faults' \in 0..MaxFaults
  BY SpendFaultType DEF Types
<1>2. /\ UNCHANGED <<nb, variant, embedded, args, seen, edits>>
      /\ UNCHANGED <<ids, todo, ifs, cur, adr, units, docs, errs, out, refused>>
  BY DEF Input, Ends, localVars
<1>3. pc' = "end" /\ exit' = how
  BY DEF Ends
<1> QED
  BY <1>1, <1>2, <1>3 DEF Types

\* The unit an address leads to.
LEMMA PlacedType ==
    ASSUME units \in Seq(Unit), NEW u \in Unit
    PROVE  Placed(u) \in Seq(Unit)
<1>1. [u EXCEPT !.addr = NoAddr] \in Unit
  BY DEF Unit
<1>2. \A v \in Unit : Append(units, v) \in Seq(Unit)
  OBVIOUS
<1>3. CASE u.kind = "vlan"
  BY <1>1, <1>2, <1>3 DEF Placed
<1>4. CASE u.kind = "iface" /\ variant = "flatcar"
  <2> DEFINE t == Only(units, {v \in Parts(units) : v.kind = "vlan"})
  <2>1. t \in Seq(Unit)
    BY OnlyParts
  <2>2. Placed(u) = Append(t, u)
    BY <1>4 DEF Placed
  <2> HIDE DEF t
  <2> QED
    BY <2>1, <2>2
<1>5. CASE u.kind = "iface" /\ variant = "fcos"
  BY <1>2, <1>5 DEF Placed
<1>6. CASE u.kind = "iface" /\ variant # "fcos" /\ variant # "flatcar"
  <2> DEFINE n == Len(units)
             t == [i \in 1..n |-> IF units[i].kind = "iface" /\ units[i].iface = u.iface
                                  THEN [units[i] EXCEPT !.addr = u.addr] ELSE units[i]]
  <2>1. Placed(u) = t
    BY <1>6 DEF Placed
  <2>2. n \in Nat /\ \A i \in 1..n : units[i] \in Unit
    OBVIOUS
  <2>3. \A v \in Unit : [v EXCEPT !.addr = u.addr] \in Unit
    BY DEF Unit
  <2>4. t \in [1..n -> Unit]
    BY <2>2, <2>3
  <2> HIDE DEF t
  <2> QED
    BY <2>1, <2>2, <2>4
<1>7. u.kind \in {"vlan", "iface"}
  BY DEF Unit
<1> QED
  BY <1>3, <1>4, <1>5, <1>6, <1>7

\* What a unit made of the current address is like.
OfAddress(x) ==
    /\ x \in Unit /\ x.iface = cur.name
    /\ x.addr \in {Dhcp, adr[1].addr}
    /\ x.kind = "vlan" =>
          /\ x.vlan \in cur.tagged /\ x.addr = adr[1].addr
          /\ Inv.prefix[x.addr] = x.vlan /\ Inv.vname[x.addr] = x.vname

\* An address ends the command, or is used up; it leads to at most one unit.
LEMMA RenderAddressCases ==
    ASSUME Types, RenderAddress
    PROVE  /\ SpendFault \/ UNCHANGED faults
           /\ \/ Ends("panic")
              \/ /\ adr' = Tail(adr)
                 /\ UNCHANGED <<pc, exit, ids, todo, ifs, cur, docs, errs, out, refused>>
                 /\ units' = units \/ \E x : OfAddress(x) /\ units' = Placed(x)
<1> DEFINE a    == adr[1]
           v    == Inv.prefix[a.addr]
           vlan == v > 0 /\ IsTagged(v)
           u    == [kind |-> IF vlan THEN "vlan" ELSE "iface", iface |-> cur.name,
                    vlan |-> IF vlan THEN v ELSE 0,
                    vname |-> IF vlan THEN Inv.vname[a.addr] ELSE NoName,
                    addr |-> IF ~vlan /\ variant # "talos" /\ a.dhcp THEN Dhcp ELSE a.addr,
                    routed |-> FALSE]
           u2   == [u EXCEPT !.routed = LooksUp(u)]
<1>1. SpendFault \/ UNCHANGED faults
  BY DEF RenderAddress
<1>2. a \in AllAddresses /\ a \in AddressRecord
  <2>1. adr \in Seq(AllAddresses) /\ adr # <<>>
    BY DEF Types, RenderAddress
  <2> QED
    BY <2>1, PartsTail, RecordTypes
<1>3. v \in Nat \cup {-1} /\ Inv.vname[a.addr] \in STRING
  BY <1>2, RenderingAssumption DEF Types, Inv
<1>4. cur \in IfaceRecord
  BY RecordTypes DEF Types, RenderAddress
<1>5. /\ u.kind = (IF vlan THEN "vlan" ELSE "iface") /\ u.iface = cur.name
      /\ u.vlan = (IF vlan THEN v ELSE 0) /\ u.vname = (IF vlan THEN Inv.vname[a.addr] ELSE NoName)
      /\ u.addr = (IF ~vlan /\ variant # "talos" /\ a.dhcp THEN Dhcp ELSE a.addr)
      /\ u.routed = FALSE
  OBVIOUS
<1>6. u = [kind |-> u.kind, iface |-> u.iface, vlan |-> u.vlan, vname |-> u.vname, addr |-> u.addr,
           routed |-> u.routed]
  OBVIOUS
<1>7. cur.name \in STRING /\ a.addr \in STRING
  BY <1>2, <1>4 DEF IfaceRecord, AddressRecord
<1>8. vlan => v \in Nat /\ v \in cur.tagged
  BY <1>3 DEF IsTagged
<1> HIDE DEF u
<1>9. /\ u.kind \in {"iface", "vlan"} /\ u.iface \in STRING \cup {NoIface} /\ u.vlan \in Nat /\ u.vname \in STRING \cup {NoName}
      /\ u.addr \in STRING \cup {NoAddr, Dhcp} /\ u.routed \in BOOLEAN
  <2>1. u.routed \in BOOLEAN
    BY <1>5, Zenon
  <2> HIDE DEF vlan, v, a
  <2>2. u.vlan \in Nat
    <3>1. vlan => v \in Nat
      BY <1>8
    <3>2. (u.vlan = v /\ vlan) \/ u.vlan = 0
      BY <1>5
    <3> QED
      BY <3>1, <3>2
  <2>3. u.addr \in STRING \cup {NoAddr, Dhcp}
    BY <1>5, <1>7
  <2>4. u.vname \in STRING \cup {NoName}
    BY <1>3, <1>5
  <2> QED
    BY <1>5, <1>7, <2>1, <2>2, <2>3, <2>4
<1>10. u \in Unit
  BY <1>6, <1>9 DEF Unit
<1>11. OfAddress(u)
  <2> HIDE DEF vlan
  <2>1. u.addr \in {Dhcp, a.addr}
    BY <1>5
  <2>2. u.kind = "vlan" => vlan /\ u.vname = Inv.vname[a.addr] /\ u.addr = a.addr /\ u.vlan = v
    BY <1>5
  <2> QED
    BY <1>5, <1>8, <1>10, <2>1, <2>2 DEF OfAddress
<1>12. OfAddress(u2)
  <2>1. LooksUp(u) \in BOOLEAN
    BY Zenon DEF LooksUp
  <2>2. u2 \in Unit /\ u2.iface = u.iface /\ u2.kind = u.kind /\ u2.addr = u.addr /\ u2.vlan = u.vlan
        /\ u2.vname = u.vname
    BY <1>10, <2>1 DEF Unit
  <2> HIDE DEF u2
  <2> QED
    BY <1>11, <2>2 DEF OfAddress
<1>13. \/ Ends("panic")
       \/ /\ adr' = Tail(adr)
          /\ UNCHANGED <<pc, exit, ids, todo, ifs, cur, docs, errs, out, refused>>
          /\ units' = units \/ units' = Placed(u) \/ units' = Placed(u2)
  <2> HIDE DEF u2
  <2> QED
    BY DEF RenderAddress, u, u2
<1> QED
  BY <1>1, <1>11, <1>12, <1>13

\* The units of a document.
LEMMA CompletedType ==
    ASSUME units \in Seq(Unit)
    PROVE  Completed \in Seq(Unit)
<1> DEFINE x == [kind |-> "iface", iface |-> NoIface, vlan |-> 0, vname |-> NoName, addr |-> NoAddr,
                   routed |-> FALSE]
<1>1. x \in Unit
  BY DEF Unit
<1> HIDE DEF x
<1>2. Append(units, x) \in Seq(Unit)
  BY <1>1
<1> QED
  BY <1>2 DEF Completed, x

\* A device is finished: the command ends, or the device has its document.
LEMMA FinishCases ==
    ASSUME Types, Finish
    PROVE  /\ SpendFault \/ UNCHANGED faults
           /\ \/ Ends("panic")
              \/ \E d \in Document :
                    /\ d.dev = Current.id /\ d.name = Current.name /\ d.units = Completed
                    /\ ~embedded => d \in Named
                    /\ docs' = Append(docs, d)
                    /\ pc' = "device" /\ todo' = Tail(todo) /\ units' = <<>> /\ cur' = NoIface
                    /\ UNCHANGED <<exit, ids, ifs, adr, errs, out, refused>>
<1> DEFINE dns == Inv.dns[Current.id]
<1>1. PICK host \in {dns, Current.name} :
          /\ IF variant = "talos" \/ dns = ""
             THEN host = Current.name /\ UNCHANGED faults
             ELSE IF host = dns THEN UNCHANGED faults ELSE SpendFault
          /\ IF host = NoName \/ (~embedded /\ Current.name = NoName)
             THEN Ends("panic")
             ELSE /\ docs' = Append(docs, [dev |-> Current.id, name |-> Current.name,
                                           host |-> host, units |-> Completed])
                  /\ pc' = "device"
                  /\ todo' = Tail(todo)
                  /\ units' = <<>> /\ cur' = NoIface
                  /\ UNCHANGED <<exit, ids, ifs, adr, errs, out, refused>>
  BY DEF Finish
<1> DEFINE d == [dev |-> Current.id, name |-> Current.name, host |-> host, units |-> Completed]
<1>2. SpendFault \/ UNCHANGED faults
  BY <1>1
<1>3. CASE host = NoName \/ (~embedded /\ Current.name = NoName)
  BY <1>1, <1>2, <1>3
<1>4. CASE ~(host = NoName \/ (~embedded /\ Current.name = NoName))
  <2>1. Current \in AllDevices /\ Current \in DeviceRecord /\ Current.id \in DeviceIds
    <3>1. todo \in Seq(AllDevices) /\ todo # <<>>
      BY DEF Types, Finish
    <3>2. todo[1] \in AllDevices
      BY <3>1, PartsTail
    <3> QED
      BY <3>2, RecordTypes DEF Current
  <2>2. dns \in STRING
    BY <2>1, RenderingAssumption DEF Types, Inv
  <2>3. Current.name \in Names \cup {NoName} /\ Current.id \in Nat
    BY <2>1 DEF DeviceRecord
  <2>4. host \in STRING
    BY <1>1, <1>4, <2>2, <2>3, RenderingAssumption
  <2>5. Completed \in Seq(Unit)
    BY CompletedType DEF Types
  <2> HIDE DEF dns
  <2>6. d \in Document /\ d.dev = Current.id /\ d.name = Current.name /\ d.units = Completed
    BY <2>3, <2>4, <2>5 DEF Document
  <2>7. docs' = Append(docs, d) /\ pc' = "device" /\ todo' = Tail(todo) /\ units' = <<>> /\ cur' = NoIface
        /\ UNCHANGED <<exit, ids, ifs, adr, errs, out, refused>>
    BY <1>1, <1>4
  <2> HIDE DEF d
  <2>8. ~embedded => d \in Named
    BY <1>4, <2>3, <2>6 DEF Named
  <2> QED
    BY <1>2, <2>6, <2>7, <2>8
<1> QED
  BY <1>3, <1>4

\* Each step of the command keeps the types.
LEMMA TypesCommand ==
    ASSUME Types, Command
    PROVE  Types'
<1>0. Input
  BY DEF Command, ReadArgs, Resolve, ListDevices, ListFails, Refetch, ListInterfaces, ListAddresses,
         ExtractionFails, RenderAddress, Finish, EndExtraction, Write, Done
<1>1. UNCHANGED <<nb, variant, embedded, args, seen, edits>>
  BY <1>0 DEF Input
<1>2. nb \in DOMAIN Inventories
  BY DEF Types
<1>3. CASE ReadArgs
  <2>1. CASE Ends("failed")
    BY <1>0, <1>3, <2>1, TypesEnds DEF ReadArgs
  <2>2. CASE ~Ends("failed")
    <3>1. pc' \in {"resolve", "list"} /\ UNCHANGED <<exit, localVars, out, refused, faults>> /\ exit = "running"
      BY <1>3, <2>2 DEF ReadArgs, Types
    <3> QED
      BY <1>1, <3>1 DEF Types, localVars
  <2> QED
    BY <2>1, <2>2
<1>4. CASE Resolve
  <2>1. pc' \in {"device", "list"} /\ exit = "running"
    BY <1>4 DEF Resolve, Types
  <2> QED
    BY <1>1, <1>4, <2>1 DEF Types, Resolve
<1>5. CASE ListDevices
  <2>1. Selected \in Seq(AllDevices)
    BY <1>2, InventoryTypes, OnlyParts DEF Selected, Inv
  <2>2. exit = "running"
    BY <1>5 DEF ListDevices, Types
  <2>3. Page(Selected) \in Seq(AllDevices)
    BY <2>1, PageParts
  <2> QED
    BY <1>1, <1>5, <2>2, <2>3 DEF Types, ListDevices
<1>6. CASE ListFails
  BY <1>0, <1>6, TypesEnds DEF ListFails
<1>7. CASE Refetch
  <2>0. /\ pc = "device" /\ embedded /\ todo # <<>> /\ exit = "running" /\ Current \in AllDevices
        /\ Tail(todo) \in Seq(AllDevices)
    BY <1>7, PartsTail DEF Refetch, Types, Current
  <2>1. CASE Ends("panic") /\ UNCHANGED faults
    BY <1>0, <2>1, TypesEnds
  <2>2. ASSUME NEW i \in Live(Current), todo' = [todo EXCEPT ![1] = Inv.devices[i]], pc' = "refetched",
               UNCHANGED <<exit, ids, ifs, cur, adr, units, docs, errs, out, refused, faults>>
        PROVE  Types'
    <3>1. Inv.devices[i] \in AllDevices
      <4>1. Inv.devices \in Seq(AllDevices)
        BY <1>2, InventoryTypes DEF Inv
      <4>2. i \in 1..Len(Inv.devices)
        BY <2>2 DEF Live
      <4> QED
        BY <4>1, <4>2
    <3>2. Len(todo) \in Nat /\ todo \in [1..Len(todo) -> AllDevices] /\ Len(todo) # 0
      BY <2>0 DEF Types
    <3>3. todo' \in [1..Len(todo) -> AllDevices]
      BY <2>2, <3>1, <3>2
    <3>4. todo' \in Seq(AllDevices) /\ Len(todo') = Len(todo)
      BY <3>2, <3>3
    <3>5. todo' # <<>>
      BY <3>2, <3>4
    <3> QED
      BY <1>1, <2>0, <2>2, <3>4, <3>5 DEF Types
  <2>3. ASSUME Current.name # NoName, SpendFault,
               docs' = Append(docs, [dev |-> Current.id, name |-> Current.name, host |-> "", units |-> NoDoc]),
               todo' = Tail(todo), UNCHANGED <<pc, exit, ids, ifs, cur, adr, units, errs, out, refused>>
        PROVE  Types'
    <3> DEFINE d == [dev |-> Current.id, name |-> Current.name, host |-> "", units |-> NoDoc]
    <3>1. Current.id \in Nat /\ Current.name \in Names
      BY <2>0, <2>3, RecordTypes DEF DeviceRecord
    <3>2. d \in Failed
      BY <3>1 DEF Failed
    <3>3. docs' = Append(docs, d)
      BY <2>3
    <3> HIDE DEF d
    <3>4. docs' \in Seq(Document \cup Failed)
      BY <3>2, <3>3 DEF Types
    <3>5. faults' \in 0..MaxFaults
      BY <2>3, SpendFaultType DEF Types
    <3> QED
      BY <1>1, <2>0, <2>3, <3>4, <3>5 DEF Types
  <2> QED
    BY <1>7, <2>1, <2>2, <2>3 DEF Refetch
<1>8. CASE ListInterfaces
  <2>1. Current \in AllDevices /\ Current.id \in DeviceIds
    BY <1>8, RecordTypes DEF ListInterfaces, Types, Current
  <2>2. ifs' \in Seq(AllIfaces)
    BY <1>2, <1>8, <2>1, InventoryTypes, PageParts DEF ListInterfaces, Inv
  <2>3. exit = "running"
    BY <1>8, Zenon DEF ListInterfaces, Types
  <2> QED
    BY <1>1, <1>8, <2>2, <2>3 DEF Types, ListInterfaces
<1>9. CASE ListAddresses
  <2>1. ifs[1] \in AllIfaces /\ Tail(ifs) \in Seq(AllIfaces)
    BY <1>9, PartsTail DEF ListAddresses, Types
  <2>2. ifs[1].id \in IfaceIds /\ ifs[1].name \in STRING
    BY <2>1, RecordTypes DEF IfaceRecord
  <2>3. Page(Inv.addrs[ifs[1].id]) \in Seq(AllAddresses)
    BY <1>2, <2>2, InventoryTypes, PageParts DEF Inv
  <2>4. adr' \in Seq(AllAddresses)
    <3>1. adr' = <<>> \/ adr' = Page(Inv.addrs[ifs[1].id])
      BY <1>9 DEF ListAddresses
    <3>2. <<>> \in Seq(AllAddresses)
      OBVIOUS
    <3> QED
      BY <2>3, <3>1, <3>2, Zenon
  <2> DEFINE x == [kind |-> "iface", iface |-> ifs[1].name, vlan |-> 0, vname |-> NoName, addr |-> NoAddr,
                   routed |-> FALSE]
  <2>5. x \in Unit
    BY <2>2 DEF Unit
  <2>6. units' = units \/ units' = Append(units, x)
    BY <1>9 DEF ListAddresses
  <2> HIDE DEF x
  <2>7. units' \in Seq(Unit)
    <3>1. units \in Seq(Unit)
      BY DEF Types
    <3> QED
      BY <2>5, <2>6, <3>1, PartsAppend
  <2>8. cur' = ifs[1] /\ ifs' = Tail(ifs) /\ UNCHANGED <<pc, exit, ids, todo, docs, errs, out, refused, faults>>
    BY <1>9 DEF ListAddresses
  <2> QED
    BY <1>1, <2>1, <2>4, <2>7, <2>8 DEF Types
<1>10. CASE ExtractionFails
  <2>0. SpendFault /\ faults' \in 0..MaxFaults
    BY <1>10, SpendFaultType DEF ExtractionFails, Types
  <2>1. CASE Ends("panic")
    BY <1>0, <2>0, <2>1, TypesEnds
  <2>2. CASE ~Ends("panic")
    <3>1. /\ pc' = "device" /\ todo' = Tail(todo)
          /\ ifs' = <<>> /\ adr' = <<>> /\ units' = <<>> /\ cur' = NoIface
          /\ UNCHANGED <<exit, ids, docs, out, refused>>
      BY <1>10, <2>2 DEF ExtractionFails
    <3>2. errs' = (errs \/ variant # "fcos")
      BY <1>10, <2>2 DEF ExtractionFails
    <3>3. errs' \in BOOLEAN
      BY <3>2, Zenon
    <3>4. exit = "running" /\ Tail(todo) \in Seq(AllDevices)
      BY <1>10, PartsTail DEF ExtractionFails, Types
    <3> QED
      BY <1>1, <2>0, <3>1, <3>3, <3>4 DEF Types
  <2> QED
    BY <2>1, <2>2
<1>11. CASE RenderAddress
  <2>0. SpendFault \/ UNCHANGED faults
    BY <1>11, RenderAddressCases
  <2>1. CASE Ends("panic")
    BY <1>0, <2>0, <2>1, TypesEnds
  <2>2. CASE /\ adr' = Tail(adr)
             /\ UNCHANGED <<pc, exit, ids, todo, ifs, cur, docs, errs, out, refused>>
             /\ units' = units \/ \E x : OfAddress(x) /\ units' = Placed(x)
    <3>1. Tail(adr) \in Seq(AllAddresses)
      BY <1>11, PartsTail DEF RenderAddress, Types
    <3>2. units' \in Seq(Unit)
      BY <2>2, PlacedType DEF OfAddress, Types
    <3>3. faults' \in 0..MaxFaults
      BY <2>0, SpendFaultType DEF Types
    <3>4. cur \in AllIfaces
      BY <1>11 DEF RenderAddress, Types
    <3> QED
      BY <1>1, <2>2, <3>1, <3>2, <3>3, <3>4 DEF Types
  <2> QED
    BY <1>11, <2>1, <2>2, RenderAddressCases
<1>12. CASE Finish
  <2>0. SpendFault \/ UNCHANGED faults
    BY <1>12, FinishCases
  <2>1. CASE Ends("panic")
    BY <1>0, <2>0, <2>1, TypesEnds
  <2>2. ASSUME NEW d \in Document, ~embedded => d \in Named, docs' = Append(docs, d),
               pc' = "device", todo' = Tail(todo), units' = <<>>, cur' = NoIface,
               UNCHANGED <<exit, ids, ifs, adr, errs, out, refused>>
        PROVE  Types'
    <3>1. Tail(todo) \in Seq(AllDevices) /\ exit = "running"
      BY <1>12, PartsTail DEF Finish, Types
    <3>2. docs' \in Seq(Document \cup Failed)
      BY <2>2 DEF Types
    <3>3. ~embedded => docs' \in Seq(Named)
      BY <2>2 DEF Types
    <3>4. faults' \in 0..MaxFaults
      BY <2>0, SpendFaultType DEF Types
    <3> QED
      BY <1>1, <2>2, <3>1, <3>2, <3>3, <3>4 DEF Types
  <2> QED
    BY <1>12, <2>1, <2>2, FinishCases
<1>13. CASE EndExtraction
  <2>1. CASE Ends("failed") \/ Ends("ok")
    BY <1>0, <1>13, <2>1, TypesEnds DEF EndExtraction
  <2>2. CASE pc' = "write" /\ UNCHANGED <<exit, localVars, out, refused, faults>> /\ ~embedded
    <3>1. exit = "running"
      BY <1>13 DEF EndExtraction, Types
    <3> QED
      BY <1>1, <2>2, <3>1 DEF Types, localVars
  <2> QED
    BY <1>13, <2>1, <2>2 DEF EndExtraction
<1>14. CASE Write
  <2>1. docs[1] \in Named /\ Tail(docs) \in Seq(Named) /\ Tail(docs) \in Seq(Document \cup Failed)
    BY <1>14, PartsTail DEF Write, Types
  <2>2. docs[1].name \in Names /\ Translate(docs[1]) \in Named \cup {NoDoc}
    BY <2>1 DEF Named, Translate
  <2>3. out' \in [Names -> Named \cup {NoFile, NoDoc}] /\ refused' \subseteq Names
    BY <1>14, <2>2 DEF Write, Types
  <2>4. faults' \in 0..MaxFaults
    BY <1>14, SpendFaultType DEF Write, Types
  <2>5. docs' = Tail(docs) /\ UNCHANGED <<pc, exit, ids, todo, ifs, cur, adr, units, errs>>
    BY <1>14 DEF Write
  <2> QED
    BY <1>1, <2>1, <2>3, <2>4, <2>5 DEF Types
<1>15. CASE Done
  BY <1>0, <1>15, TypesEnds DEF Done
<1> QED
  BY <1>3, <1>4, <1>5, <1>6, <1>7, <1>8, <1>9, <1>10, <1>11, <1>12, <1>13, <1>14, <1>15 DEF Command

\* So does an edit.
LEMMA TypesEdit ==
    ASSUME Types, NEW n \in EditedNb, Edit(n)
    PROVE  Types'
<1>1. n \in DOMAIN Inventories /\ nb' = n /\ seen' = seen \cup {n}
  BY RenderingAssumption DEF Edit
<1>2. edits' \in 0..MaxEdits
  BY RenderingAssumption DEF Edit, Types
<1>3. UNCHANGED <<variant, embedded, args, pc, exit, localVars, out, refused, faults>>
  BY DEF Edit
<1> QED
  BY <1>1, <1>2, <1>3 DEF Types, localVars

\* Types is an invariant.
LEMMA AlwaysTypes == Spec => []Types
<1>1. Types /\ [Next]_vars => Types'
  <2> SUFFICES ASSUME Types, [Next]_vars PROVE Types'
    OBVIOUS
  <2>1. CASE UNCHANGED vars
    BY <2>1 DEF Types, vars, localVars
  <2> QED
    BY <2>1, TypesCommand, TypesEdit DEF Next
<1> QED
  BY <1>1, TypesInit, PTL DEF Spec

\* Type correctness of the commands that render documents; in particular no
\* document without the name of a device gets to be written.
THEOREM RenderingTypes == Spec => []TypeOK
<1>1. Types => TypeOK
  <2> SUFFICES ASSUME Types PROVE TypeOK
    OBVIOUS
  <2>1. \A i \in 1..Len(docs) : docs[i].units = NoDoc \/ docs[i] \in Document
    <3>1. docs \in Seq(Document \cup Failed)
      BY DEF Types
    <3>2. \A i \in 1..Len(docs) : docs[i] \in Document \cup Failed
      BY <3>1
    <3>3. \A d \in Failed : d.units = NoDoc
      BY DEF Failed
    <3> QED
      BY <3>2, <3>3
  <2>2. ~embedded => \A i \in 1..Len(docs) : docs[i].name \in Names
    BY DEF Types, Named
  <2>3. \A n \in Names : out[n] \in {NoFile, NoDoc} \/ out[n] \in Document
    BY DEF Types, Named
  <2> QED
    BY <2>1, <2>2, <2>3 DEF Types, TypeOK
<1> QED
  BY <1>1, AlwaysTypes, PTL

-----------------------------------------------------------------------------
(* Where units come from.                                                  *)

\* More inventories do no harm.
LEMMA SourcedGrows ==
    ASSUME NEW S, NEW T, S \subseteq T, NEW dev
    PROVE  /\ \A i : HadIface(S, dev, i) => HadIface(T, dev, i)
           /\ \A i, a : HadAddress(S, i, a) => HadAddress(T, i, a)
           /\ \A us : SourcedUnits(S, dev, us) => SourcedUnits(T, dev, us)
<1>1. \A i : HadIface(S, dev, i) => HadIface(T, dev, i)
  BY DEF HadIface
<1>2. \A i, a : HadAddress(S, i, a) => HadAddress(T, i, a)
  BY DEF HadAddress
<1>3. ASSUME NEW u, NEW i, SourcedBy(S, u, i) PROVE SourcedBy(T, u, i)
  BY <1>2, <1>3 DEF SourcedBy
<1>4. ASSUME NEW u, SourcedUnit(S, dev, u) PROVE SourcedUnit(T, dev, u)
  BY <1>1, <1>3, <1>4 DEF SourcedUnit
<1>5. ASSUME NEW us, SourcedUnits(S, dev, us) PROVE SourcedUnits(T, dev, us)
  BY <1>4, <1>5 DEF SourcedUnits
<1> QED
  BY <1>1, <1>2, <1>5

\* One unit more.
LEMMA SourcedAppend ==
    ASSUME NEW S, NEW dev, NEW us \in Seq(Unit), NEW u \in Unit,
           SourcedUnits(S, dev, us), SourcedUnit(S, dev, u)
    PROVE  SourcedUnits(S, dev, Append(us, u))
<1>1. Parts(Append(us, u)) = Parts(us) \cup {u}
  BY PartsAppend
<1> DEFINE t == Append(us, u)
<1> HIDE DEF t
<1>2. Parts(t) = Parts(us) \cup {u} => SourcedUnits(S, dev, t)
  BY DEF SourcedUnits
<1> QED
  BY <1>1, <1>2 DEF t

\* There is no document at the beginning.
LEMMA SourcingInit == Init => Sourcing
<1> SUFFICES ASSUME Init PROVE Sourcing
  OBVIOUS
<1>1. docs = <<>> /\ out = [n \in Names |-> NoFile] /\ pc = "args"
  BY DEF Init
<1>2. Parts(docs) = {} /\ \A n \in Names : out[n] = NoFile
  BY <1>1, PartsEmpty
<1> QED
  BY <1>1, <1>2 DEF Sourcing

\* What a unit made of the current address is like: its source is there.
LEMMA OfAddressSourced ==
    ASSUME Types, Sourcing, pc = "addresses", adr # <<>>, NEW x, OfAddress(x)
    PROVE  HadIface(seen, Current.id, cur) /\ SourcedBy(seen, x, cur) /\ SourcedUnit(seen, Current.id, x)
<1>1. HadIface(seen, Current.id, cur)
  BY DEF Sourcing
<1>2. adr[1] \in Parts(adr)
  BY PartsTail DEF Types
<1>3. HadAddress(seen, cur, adr[1])
  BY <1>2 DEF Sourcing
<1>4. nb \in seen /\ (x.kind = "vlan" => Inventories[nb].prefix[x.addr] = x.vlan
                                           /\ Inventories[nb].vname[x.addr] = x.vname)
  BY DEF Types, OfAddress, Inv
<1>5. x.addr \notin {NoAddr, Dhcp} => x.addr = adr[1].addr
  BY DEF OfAddress
<1>6. SourcedBy(seen, x, cur)
  BY <1>3, <1>4, <1>5 DEF SourcedBy, OfAddress, HadAddress
<1> QED
  BY <1>1, <1>6 DEF SourcedUnit, HadIface

\* Its place among the units leaves all of them with a source.
LEMMA PlacedSourced ==
    ASSUME Types, Sourcing, pc = "addresses", adr # <<>>, NEW x, OfAddress(x)
    PROVE  SourcedUnits(seen, Current.id, Placed(x))
<1>1. HadIface(seen, Current.id, cur) /\ SourcedBy(seen, x, cur) /\ SourcedUnit(seen, Current.id, x)
  BY OfAddressSourced
<1>2. units \in Seq(Unit) /\ x \in Unit
  BY DEF Types, OfAddress
<1>3. SourcedUnits(seen, Current.id, units)
  BY DEF Sourcing
<1>4. CASE x.kind = "vlan"
  <2> DEFINE y == [x EXCEPT !.addr = NoAddr]
  <2>1. Placed(x) = Append(units, y) \/ Placed(x) = Append(units, x)
    BY <1>4 DEF Placed
  <2>2. y \in Unit /\ y.iface = x.iface /\ y.kind = x.kind /\ y.vlan = x.vlan /\ y.addr = NoAddr
    BY <1>2 DEF Unit
  <2> HIDE DEF y
  <2>3. SourcedBy(seen, y, cur)
    BY <1>1, <2>2 DEF SourcedBy
  <2>4. SourcedUnit(seen, Current.id, y)
    BY <1>1, <2>3 DEF SourcedUnit, HadIface
  <2> QED
    BY <1>1, <1>2, <1>3, <2>1, <2>2, <2>4, SourcedAppend
<1>5. CASE x.kind = "iface" /\ variant = "flatcar"
  <2> DEFINE V == {v \in Parts(units) : v.kind = "vlan"}
             t == Only(units, V)
  <2>1. t \in Seq(Unit) /\ Parts(t) \subseteq Parts(units)
    <3> HIDE DEF V
    <3>1. t \in Seq(Unit) /\ Parts(t) = Parts(units) \cap V
      BY <1>2, OnlyParts
    <3> QED
      BY <3>1
  <2>2. Placed(x) = Append(t, x)
    BY <1>5 DEF Placed
  <2> HIDE DEF t
  <2>3. SourcedUnits(seen, Current.id, t)
    BY <1>3, <2>1 DEF SourcedUnits
  <2> QED
    BY <1>1, <1>2, <2>1, <2>2, <2>3, SourcedAppend
<1>6. CASE x.kind = "iface" /\ variant = "fcos"
  BY <1>1, <1>2, <1>3, <1>6, SourcedAppend DEF Placed
<1>7. CASE x.kind = "iface" /\ variant # "fcos" /\ variant # "flatcar"
  <2> DEFINE n == Len(units)
             t == [i \in 1..n |-> IF units[i].kind = "iface" /\ units[i].iface = x.iface
                                  THEN [units[i] EXCEPT !.addr = x.addr] ELSE units[i]]
  <2>1. Placed(x) = t
    BY <1>7 DEF Placed
  <2>2. n \in Nat /\ \A i \in 1..n : units[i] \in Unit
    BY <1>2
  <2>3. ASSUME NEW v \in Unit, v.kind = "iface", v.iface = x.iface
        PROVE  SourcedUnit(seen, Current.id, [v EXCEPT !.addr = x.addr])
    <3> DEFINE y == [v EXCEPT !.addr = x.addr]
    <3>1. y.iface = x.iface /\ y.addr = x.addr /\ y.kind = "iface"
      BY <2>3 DEF Unit
    <3> HIDE DEF y
    <3>2. SourcedBy(seen, y, cur)
      BY <1>1, <3>1 DEF SourcedBy
    <3>3. SourcedUnit(seen, Current.id, y)
      BY <1>1, <3>2 DEF SourcedUnit, HadIface
    <3> QED
      BY <3>3 DEF y
  <2>4. \A i \in 1..n : units[i] \in Parts(units)
    BY DEF Parts
  <2>5. \A i \in 1..n : SourcedUnit(seen, Current.id, t[i])
    BY <1>3, <2>2, <2>3, <2>4 DEF SourcedUnits
  <2>6. Len(t) = n
    BY <2>2
  <2> HIDE DEF t
  <2>7. \A u \in Parts(t) : \E i \in 1..n : u = t[i]
    BY <2>6 DEF Parts
  <2> QED
    BY <2>1, <2>5, <2>7 DEF SourcedUnits
<1>8. x.kind \in {"vlan", "iface"}
  BY <1>2 DEF Unit
<1> QED
  BY <1>4, <1>5, <1>6, <1>7, <1>8

\* When the command ends nothing changes.
LEMMA SourcingEnds ==
    ASSUME Sourcing, Input, NEW how, Ends(how)
    PROVE  Sourcing'
BY DEF Sourcing, Input, Ends, localVars

\* Each step of the command keeps the sources.
LEMMA SourcingCommand ==
    ASSUME Types, Sourcing, Command
    PROVE  Sourcing'
<1>0. Input
  BY DEF Command, ReadArgs, Resolve, ListDevices, ListFails, Refetch, ListInterfaces, ListAddresses,
         ExtractionFails, RenderAddress, Finish, EndExtraction, Write, Done
<1>1. UNCHANGED <<nb, variant, embedded, args, seen, edits>>
  BY <1>0 DEF Input
<1>2. ASSUME UNCHANGED <<docs, out>>, pc' # "addresses" PROVE Sourcing'
  BY <1>1, <1>2 DEF Sourcing
<1>3. ASSUME NEW how, Ends(how) PROVE Sourcing'
  BY <1>0, <1>3, SourcingEnds
<1>4. CASE ReadArgs
  BY <1>2, <1>3, <1>4 DEF ReadArgs, localVars
<1>5. CASE Resolve
  BY <1>2, <1>5 DEF Resolve
<1>6. CASE ListDevices \/ ListFails
  BY <1>2, <1>3, <1>6 DEF ListDevices, ListFails
<1>7. CASE Refetch
  <2>1. CASE docs' = docs
    BY <1>2, <1>3, <1>7, <2>1 DEF Refetch
  <2>2. CASE docs' # docs
    <3> DEFINE d == [dev |-> Current.id, name |-> Current.name, host |-> "", units |-> NoDoc]
    <3>1. docs' = Append(docs, d) /\ UNCHANGED <<pc, out>> /\ pc = "device" /\ ~Ends("panic")
      BY <1>7, <2>2 DEF Refetch, Ends, localVars
    <3>2. d.units = NoDoc
      OBVIOUS
    <3>3. \A e \in Parts(docs') : e \in Parts(docs) \/ e = d
      <4>1. Current.id \in Nat /\ Current.name \in Names
        <5>1. todo \in Seq(AllDevices) /\ todo # <<>>
          BY <1>7 DEF Types, Refetch
        <5>2. Current \in DeviceRecord
          BY <5>1, PartsTail, RecordTypes DEF Current
        <5>3. Current.name # NoName
          BY <1>7, <2>2 DEF Refetch, Ends, localVars
        <5> QED
          BY <5>2, <5>3 DEF DeviceRecord
      <4>2. d \in Document \cup Failed
        BY <4>1 DEF Failed
      <4>3. docs \in Seq(Document \cup Failed)
        BY DEF Types
      <4> HIDE DEF d
      <4> QED
        BY <3>1, <4>2, <4>3, PartsAppend
    <3> HIDE DEF d
    <3> QED
      BY <1>1, <3>1, <3>2, <3>3 DEF Sourcing
  <2> QED
    BY <2>1, <2>2
<1>8. CASE ListInterfaces
  <2>1. /\ pc' = "addresses" /\ units' = <<>> /\ adr' = <<>> /\ UNCHANGED <<todo, docs, out>>
        /\ ifs' = Page(Inventories[nb].ifaces[Current.id])
    BY <1>8 DEF ListInterfaces, Inv
  <2>2. Current' = Current
    BY <2>1 DEF Current
  <2>3. \A i \in Parts(ifs') : HadIface(seen, Current.id, i)
    <3>1. Current.id \in DeviceIds /\ nb \in seen /\ nb \in DOMAIN Inventories
      BY <1>8, RecordTypes DEF ListInterfaces, Types, Current
    <3>2. Parts(ifs') \subseteq Parts(Inventories[nb].ifaces[Current.id])
      BY <2>1, <3>1, InventoryTypes, PageParts
    <3> QED
      BY <3>1, <3>2 DEF HadIface
  <2>4. SourcedUnits(seen, Current.id, units') /\ Parts(adr') = {}
    BY <2>1, PartsEmpty DEF SourcedUnits
  <2> QED
    BY <1>1, <2>1, <2>2, <2>3, <2>4 DEF Sourcing
<1>9. CASE ListAddresses
  <2> DEFINE x == [kind |-> "iface", iface |-> ifs[1].name, vlan |-> 0, vname |-> NoName, addr |-> NoAddr,
                   routed |-> FALSE]
  <2>0. /\ pc = "addresses" /\ pc' = "addresses" /\ ifs # <<>> /\ cur' = ifs[1] /\ ifs' = Tail(ifs)
        /\ UNCHANGED <<todo, docs, out>>
    BY <1>9 DEF ListAddresses
  <2>1. ifs[1] \in AllIfaces /\ Parts(ifs) = {ifs[1]} \cup Parts(Tail(ifs))
    BY <2>0, PartsTail DEF Types
  <2>2. HadIface(seen, Current.id, ifs[1]) /\ \A i \in Parts(ifs') : HadIface(seen, Current.id, i)
    BY <2>0, <2>1 DEF Sourcing
  <2>3. adr' = <<>> \/ adr' = Page(Inventories[nb].addrs[ifs[1].id])
    BY <1>9 DEF ListAddresses, Inv
  <2>4. \A a \in Parts(adr') : HadAddress(seen, ifs[1], a)
    <3>1. ifs[1].id \in IfaceIds /\ nb \in seen /\ nb \in DOMAIN Inventories
      BY <2>1, RecordTypes DEF Types
    <3>2. Parts(Page(Inventories[nb].addrs[ifs[1].id])) \subseteq Parts(Inventories[nb].addrs[ifs[1].id])
      BY <3>1, InventoryTypes, PageParts
    <3> QED
      BY <2>3, <3>1, <3>2, PartsEmpty DEF HadAddress
  <2>5. Current' = Current
    BY <2>0 DEF Current
  <2>6. SourcedUnits(seen, Current.id, units')
    <3>1. units' = units \/ units' = Append(units, x)
      BY <1>9 DEF ListAddresses
    <3>2. ifs[1].name \in STRING
      BY <2>1, RecordTypes DEF IfaceRecord
    <3>3. x \in Unit /\ x.iface = ifs[1].name /\ x.addr = NoAddr /\ x.kind = "iface"
      BY <3>2 DEF Unit
    <3> HIDE DEF x
    <3>4. SourcedUnit(seen, Current.id, x)
      BY <2>2, <3>3 DEF SourcedUnit, SourcedBy, HadIface
    <3>5. SourcedUnits(seen, Current.id, units) /\ units \in Seq(Unit)
      BY <2>0 DEF Sourcing, Types
    <3> QED
      BY <3>1, <3>3, <3>4, <3>5, SourcedAppend
  <2> HIDE DEF x
  <2> QED
    BY <1>1, <2>0, <2>2, <2>4, <2>5, <2>6 DEF Sourcing
<1>10. CASE ExtractionFails
  BY <1>2, <1>3, <1>10 DEF ExtractionFails
<1>11. CASE RenderAddress
  <2>0. pc = "addresses" /\ adr # <<>>
    BY <1>11 DEF RenderAddress
  <2>1. CASE Ends("panic")
    BY <1>3, <2>1
  <2>2. CASE /\ adr' = Tail(adr)
             /\ UNCHANGED <<pc, exit, ids, todo, ifs, cur, docs, errs, out, refused>>
             /\ units' = units \/ \E x : OfAddress(x) /\ units' = Placed(x)
    <3>1. Parts(Tail(adr)) \subseteq Parts(adr)
      BY <2>0, PartsTail DEF Types
    <3>2. SourcedUnits(seen, Current.id, units')
      BY <2>0, <2>2, PlacedSourced DEF Sourcing
    <3>3. Current' = Current
      BY <2>2 DEF Current
    <3> QED
      BY <1>1, <2>0, <2>2, <3>1, <3>2, <3>3 DEF Sourcing
  <2> QED
    BY <1>11, <2>1, <2>2, RenderAddressCases
<1>12. CASE Finish
  <2>1. CASE Ends("panic")
    BY <1>3, <2>1
  <2>2. ASSUME NEW d \in Document, d.dev = Current.id, d.units = Completed, docs' = Append(docs, d),
               pc' = "device", UNCHANGED out
        PROVE  Sourcing'
    <3>1. docs \in Seq(Document \cup Failed) /\ units \in Seq(Unit)
      BY DEF Types
    <3>2. Parts(docs') = Parts(docs) \cup {d}
      BY <2>2, <3>1, PartsAppend
    <3>3. SourcedUnits(seen, Current.id, units)
      BY <1>12 DEF Finish, Sourcing
    <3>4. SourcedUnits(seen, Current.id, Completed)
      <4> DEFINE x == [kind |-> "iface", iface |-> NoIface, vlan |-> 0, vname |-> NoName, addr |-> NoAddr,
                   routed |-> FALSE]
      <4>1. x \in Unit /\ x.iface = NoIface
        BY DEF Unit
      <4>2. Completed = units \/ Completed = Append(units, x)
        BY DEF Completed
      <4> HIDE DEF x
      <4>3. SourcedUnit(seen, Current.id, x)
        BY <4>1 DEF SourcedUnit
      <4> QED
        BY <3>1, <3>3, <4>1, <4>2, <4>3, SourcedAppend
    <3> QED
      BY <1>1, <2>2, <3>2, <3>4 DEF Sourcing
  <2> QED
    BY <1>12, <2>1, <2>2, FinishCases
<1>13. CASE EndExtraction
  BY <1>2, <1>3, <1>13 DEF EndExtraction, localVars
<1>14. CASE Write
  <2>0. pc = "write" /\ docs # <<>> /\ pc' = pc /\ docs' = Tail(docs)
    BY <1>14 DEF Write
  <2>1. docs[1] \in Named /\ Parts(docs) = {docs[1]} \cup Parts(Tail(docs))
    BY <1>14, PartsTail DEF Write, Types
  <2>2. out' = out \/ out' = [out EXCEPT ![docs[1].name] = Translate(docs[1])]
    BY <1>14 DEF Write
  <2>3. Translate(docs[1]) = NoDoc \/ Translate(docs[1]) = docs[1]
    BY DEF Translate
  <2>4. SourcedUnits(seen, docs[1].dev, docs[1].units)
    <3>1. docs[1].units # NoDoc => SourcedUnits(seen, docs[1].dev, docs[1].units)
      BY <2>1 DEF Sourcing
    <3>2. docs[1].units \in Seq(Unit)
      BY <2>1 DEF Named, Document
    <3>3. NoDoc \notin Seq(Unit)
      BY RenderingAssumption
    <3> QED
      BY <3>1, <3>2, <3>3
  <2>5. ASSUME NEW n \in Names, out'[n] \notin {NoFile, NoDoc}
        PROVE  SourcedUnits(seen, out'[n].dev, out'[n].units)
    <3>1. out'[n] = out[n] \/ out'[n] = docs[1]
      BY <2>2, <2>3, <2>5 DEF Types
    <3> QED
      BY <2>4, <2>5, <3>1 DEF Sourcing
  <2> QED
    BY <1>1, <2>0, <2>1, <2>5 DEF Sourcing
<1>15. CASE Done
  BY <1>3, <1>15 DEF Done
<1> QED
  BY <1>4, <1>5, <1>6, <1>7, <1>8, <1>9, <1>10, <1>11, <1>12, <1>13, <1>14, <1>15 DEF Command

\* An edit only adds to the inventories seen.
LEMMA SourcingEdit ==
    ASSUME Sourcing, NEW n \in EditedNb, Edit(n)
    PROVE  Sourcing'
<1>1. seen \subseteq seen' /\ UNCHANGED <<pc, todo, ifs, cur, adr, units, docs, out>>
  BY DEF Edit, localVars
<1>2. Current' = Current
  BY <1>1 DEF Current
<1>3. \A dev, us : SourcedUnits(seen, dev, us) => SourcedUnits(seen', dev, us)
  BY <1>1, SourcedGrows
<1>4. \A dev, i : HadIface(seen, dev, i) => HadIface(seen', dev, i)
  BY <1>1, SourcedGrows
<1>5. \A i, a : HadAddress(seen, i, a) => HadAddress(seen', i, a)
  BY <1>1, SourcedGrows
<1> QED
  BY <1>1, <1>2, <1>3, <1>4, <1>5 DEF Sourcing

\* Sourcing is an invariant.
LEMMA AlwaysSourcing == Spec => []Sourcing
<1>1. Types /\ Sourcing /\ [Next]_vars => Sourcing'
  <2> SUFFICES ASSUME Types, Sourcing, [Next]_vars PROVE Sourcing'
    OBVIOUS
  <2>1. CASE UNCHANGED vars
    BY <2>1 DEF Sourcing, vars, localVars, Current
  <2> QED
    BY <2>1, SourcingCommand, SourcingEdit DEF Next
<1> QED
  BY <1>1, AlwaysTypes, SourcingInit, PTL DEF Spec

\* What Sourcing says of a unit is what UnitsAreSourced says.
LEMMA SourceFound ==
    ASSUME NEW dev, NEW us, SourcedUnits(seen, dev, us), NEW u \in Parts(us), u.iface # NoIface
    PROVE  \E n \in seen : \E i \in Parts(Inventories[n].ifaces[dev]) :
                /\ i.name = u.iface
                /\ u.addr \notin {NoAddr, Dhcp} => WasOn(u.addr, i)
                /\ u.kind = "vlan" => u.vlan \in i.tagged
                /\ u.kind = "vlan" /\ u.addr # NoAddr =>
                      \E m \in seen : Inventories[m].prefix[u.addr] = u.vlan
                                      /\ Inventories[m].vname[u.addr] = u.vname
<1>1. PICK i : HadIface(seen, dev, i) /\ SourcedBy(seen, u, i)
  BY DEF SourcedUnits, SourcedUnit, HadIface
<1>2. PICK n \in seen : i \in Parts(Inventories[n].ifaces[dev])
  BY <1>1 DEF HadIface
<1>3. u.addr \notin {NoAddr, Dhcp} => WasOn(u.addr, i)
  BY <1>1 DEF SourcedBy, HadAddress, WasOn
<1> QED
  BY <1>1, <1>2, <1>3 DEF SourcedBy

\* Nothing is carried over: every address and every VLAN of a document, the
\* unfinished one included, belonged to that interface of that device at some
\* moment of the command, whatever was edited while it was at work.
THEOREM AddressesAreSourced == Spec => []UnitsAreSourced
<1>1. Types /\ Sourcing => UnitsAreSourced
  <2> SUFFICES ASSUME Types, Sourcing, NEW d \in Documents, NEW u \in Parts(d.units), u.iface # NoIface
               PROVE  SourcedUnits(seen, d.dev, d.units)
    BY SourceFound DEF UnitsAreSourced
  <2> DEFINE current == [dev |-> Current.id, units |-> units]
  <2>1. \/ d \in Parts(docs) /\ d.units # NoDoc
        \/ \E n \in Names : d = out[n] /\ d \notin {NoFile, NoDoc}
        \/ pc = "addresses" /\ d = current
    BY DEF Documents, Parts
  <2>2. current.dev = Current.id /\ current.units = units
    OBVIOUS
  <2> HIDE DEF current
  <2> QED
    BY <2>1, <2>2 DEF Sourcing
<1> QED
  BY <1>1, AlwaysTypes, AlwaysSourcing, PTL

-----------------------------------------------------------------------------
(* Which devices are selected.                                             *)

\* More inventories do no harm here either.
LEMMA PickedGrows ==
    ASSUME NEW S, NEW T, S \subseteq T, NEW o, NEW W, NEW id, NEW name, Picked(S, o, W, id, name)
    PROVE  Picked(T, o, W, id, name)
<1>1. Chosen(T, o, W, id)
  BY DEF Picked, Chosen
<1> QED
  BY <1>1 DEF Picked

\* A rack that is asked for is one of the numbers among the parts.
LEMMA RacksAsked ==
    ASSUME NEW s \in Seq(Nat \cup {Blank, BadRack}), RackIDs(s) # <<>>, 0 \notin Parts(s)
    PROVE  RackIDs(s)[1] # 0
<1> DEFINE A == Nat \cup {Blank, BadRack}
           K == Parts(s) \ {Blank, BadRack}
<1> HIDE DEF A, K
<1>1. Only(s, K) \in Seq(A) /\ Parts(Only(s, K)) = Parts(s) \cap K
  BY OnlyParts DEF A
<1>2. Only(s, K) # <<>>
  BY DEF RackIDs, K
<1>3. Only(s, K)[1] \in Parts(Only(s, K))
  BY <1>1, <1>2, PartsTail
<1> QED
  BY <1>1, <1>3 DEF RackIDs, K

\* The types of the options.
LEMMA OptionTypes ==
    ASSUME Types
    PROVE  /\ args.racks \in Seq(Nat \cup {Blank, BadRack})
           /\ \A f \in TextFilters \cup {"clusters"} :
                 args[f] \in Seq(STRING \cup {Blank}) /\ args[f] # <<>>
BY RenderingAssumption DEF Types

\* A filter without blank part takes part in the request.
LEMMA FilterTakesPart ==
    ASSUME Types, NEW f \in TextFilters \cup {"clusters"}, Blank \notin Parts(args[f])
    PROVE  Wanted(args, f)
<1>1. args[f] \in Seq(STRING \cup {Blank}) /\ args[f] # <<>>
  BY OptionTypes
<1>2. args[f][1] \in Parts(args[f]) /\ Len(args[f]) > 0
  BY <1>1, PartsTail
<1>3. f # "racks"
  BY DEF TextFilters
<1> QED
  BY <1>2, <1>3 DEF Wanted

\* What matches the request was chosen.
LEMMA MatchIsChosen ==
    ASSUME Types, NEW r \in Parts(Inventories[nb].devices), Matches(r, args, WantedStatus, ids),
           Wanted(args, "clusters") => Resolved
    PROVE  Picked(seen, args, WantedStatus, r.id, r.name)
<1>1. r.status \in WantedStatus
  BY DEF Matches
<1>2. ASSUME NEW f \in TextFilters, Blank \notin Parts(args[f]) PROVE r[f] \in Parts(args[f])
  <2>1. Wanted(args, f)
    BY <1>2, FilterTakesPart
  <2> QED
    BY <2>1 DEF Matches
<1>3. ASSUME RackIDs(args.racks) # <<>>, 0 \notin Parts(args.racks) PROVE r.racks \in Parts(args.racks)
  <2>1. Wanted(args, "racks")
    BY <1>3, OptionTypes, RacksAsked DEF Wanted
  <2>2. r["racks"] \in Parts(args["racks"])
    BY <2>1 DEF Matches
  <2> QED
    BY <2>2
<1>4. ASSUME Blank \notin Parts(args.clusters)
      PROVE  \E m \in seen : r.cluster \in ResolveClusterIDs(Inventories[m].clusters, args)
  <2>1. Wanted(args, "clusters")
    BY <1>4, FilterTakesPart
  <2> QED
    BY <2>1 DEF Matches, Resolved
<1>5. nb \in seen
  BY DEF Types
<1>6. Chosen(seen, args, WantedStatus, r.id)
  BY <1>1, <1>2, <1>3, <1>4, <1>5 DEF Chosen
<1> QED
  BY <1>5, <1>6 DEF Picked

\* Nothing is chosen at the beginning.
LEMMA ChoosingInit == Init => Choosing
<1> SUFFICES ASSUME Init PROVE Choosing
  OBVIOUS
<1>1. docs = <<>> /\ todo = <<>> /\ out = [n \in Names |-> NoFile] /\ pc = "args"
  BY DEF Init
<1>2. Parts(docs) = {} /\ Parts(todo) = {} /\ \A n \in Names : out[n] = NoFile
  BY <1>1, PartsEmpty
<1> QED
  BY <1>1, <1>2 DEF Choosing

\* Each step of the command works on what was chosen.
LEMMA ChoosingCommand ==
    ASSUME Types, Choosing, Command
    PROVE  Choosing'
<1>0. Input
  BY DEF Command, ReadArgs, Resolve, ListDevices, ListFails, Refetch, ListInterfaces, ListAddresses,
         ExtractionFails, RenderAddress, Finish, EndExtraction, Write, Done
<1>1. UNCHANGED <<nb, variant, embedded, args, seen, edits>> /\ WantedStatus' = WantedStatus
  BY <1>0 DEF Input, WantedStatus
<1>2. ASSUME \A d \in Parts(todo') : Picked(seen, args, WantedStatus, d.id, d.name),
             UNCHANGED <<docs, out>>, pc' = "list" /\ Wanted(args, "clusters") => Resolved'
      PROVE  Choosing'
  BY <1>1, <1>2 DEF Choosing
<1>3. ASSUME NEW how, Ends(how) PROVE Choosing'
  BY <1>2, <1>3 DEF Ends, Choosing, localVars
<1>4. ASSUME UNCHANGED todo, UNCHANGED <<docs, out>>, pc' # "list" PROVE Choosing'
  BY <1>2, <1>4 DEF Choosing
<1>5. todo # <<>> => /\ Parts(todo) = {todo[1]} \cup Parts(Tail(todo))
  BY PartsTail DEF Types
<1>6. CASE ReadArgs
  BY <1>2, <1>3, <1>6 DEF ReadArgs, localVars, Choosing
<1>7. CASE Resolve
  <2>1. Resolved'
    BY <1>1, <1>7 DEF Resolve, Resolved, Inv, Types
  <2> QED
    BY <1>2, <1>7, <2>1 DEF Resolve, Choosing
<1>8. CASE ListDevices
  <2> DEFINE M == {d \in Parts(Inventories[nb].devices) : Matches(d, args, WantedStatus, ids)}
  <2>1. /\ todo' = Page(Only(Inventories[nb].devices, M))
        /\ UNCHANGED <<docs, out>> /\ pc' = "device" /\ pc = "list"
    BY <1>8 DEF ListDevices, Selected, Inv
  <2>2. ASSUME NEW d \in M PROVE Picked(seen, args, WantedStatus, d.id, d.name)
    BY <2>1, <2>2, MatchIsChosen DEF Choosing
  <2> HIDE DEF M
  <2>3. Inventories[nb].devices \in Seq(AllDevices)
    BY InventoryTypes DEF Types
  <2>4. Parts(todo') \subseteq M
    <3>1. /\ Only(Inventories[nb].devices, M) \in Seq(AllDevices)
          /\ Parts(Only(Inventories[nb].devices, M)) = Parts(Inventories[nb].devices) \cap M
      BY <2>3, OnlyParts
    <3> QED
      BY <2>1, <3>1, PageParts
  <2> QED
    BY <1>2, <2>1, <2>2, <2>4
<1>9. CASE ListFails
  BY <1>3, <1>9 DEF ListFails
<1>10. CASE Refetch
  <2>0. pc = "device" /\ todo # <<>>
    BY <1>10 DEF Refetch
  <2>1. CASE Ends("panic")
    BY <1>3, <2>1
  <2>2. ASSUME NEW i \in Live(Current), todo' = [todo EXCEPT ![1] = Inv.devices[i]], pc' = "refetched",
               UNCHANGED <<docs, out>>
        PROVE  Choosing'
    <3>1. todo \in Seq(AllDevices)
      BY DEF Types
    <3>2. Inv.devices[i].id = Current.id
      BY <2>2 DEF Live
    <3>3. Picked(seen, args, WantedStatus, Inv.devices[i].id, Inv.devices[i].name)
      <4>1. Inv.devices[i] \in Parts(Inventories[nb].devices) /\ nb \in seen
        BY <2>2 DEF Live, Parts, Inv, Types
      <4>2. Chosen(seen, args, WantedStatus, Inv.devices[i].id)
        BY <1>5, <2>0, <3>2 DEF Choosing, Current, Picked
      <4> QED
        BY <4>1, <4>2 DEF Picked
    <3> DEFINE z == Inv.devices[i]
    <3>4. Picked(seen, args, WantedStatus, z.id, z.name) /\ todo' = [todo EXCEPT ![1] = z]
      BY <2>2, <3>3
    <3> HIDE DEF z
    <3>5. Len(todo') = Len(todo) /\ \A j \in 1..Len(todo) : todo'[j] = todo[j] \/ todo'[j] = z
      BY <3>1, <3>4
    <3>6. \A d \in Parts(todo') : d \in Parts(todo) \/ d = z
      BY <3>5 DEF Parts
    <3> QED
      BY <1>2, <2>2, <3>4, <3>6 DEF Choosing
  <2>3. ASSUME NEW d, d \in Failed, d.dev = Current.id, d.name = Current.name,
               docs' = Append(docs, d), todo' = Tail(todo),
               UNCHANGED <<pc, out>>
        PROVE  Choosing'
    <3>1. docs \in Seq(Document \cup Failed)
      BY DEF Types
    <3>2. Parts(docs') = Parts(docs) \cup {d}
      BY <2>3, <3>1, PartsAppend
    <3>3. \A e \in Parts(docs') : Picked(seen, args, WantedStatus, e.dev, e.name)
      BY <1>5, <2>0, <2>3, <3>2 DEF Choosing, Current
    <3> QED
      BY <1>1, <1>5, <2>0, <2>3, <3>3 DEF Choosing
  <2>4. CASE /\ Current.name # NoName
             /\ docs' = Append(docs, [dev |-> Current.id, name |-> Current.name, host |-> "", units |-> NoDoc])
             /\ todo' = Tail(todo) /\ UNCHANGED <<pc, out>>
    <3> DEFINE d == [dev |-> Current.id, name |-> Current.name, host |-> "", units |-> NoDoc]
    <3>1. Current \in DeviceRecord
      <4>1. todo \in Seq(AllDevices)
        BY DEF Types
      <4> QED
        BY <2>0, <4>1, PartsTail, RecordTypes DEF Current
    <3>2. d \in Failed /\ d.dev = Current.id /\ d.name = Current.name
      BY <2>4, <3>1 DEF DeviceRecord, Failed
    <3> QED
      BY <2>3, <2>4, <3>2
  <2> QED
    BY <1>10, <2>1, <2>2, <2>4 DEF Refetch
<1>11. CASE ListInterfaces
  BY <1>4, <1>11 DEF ListInterfaces
<1>12. CASE ListAddresses
  BY <1>4, <1>12 DEF ListAddresses
<1>13. CASE ExtractionFails
  <2>1. CASE Ends("panic")
    BY <1>3, <2>1
  <2>2. CASE todo' = Tail(todo) /\ UNCHANGED <<docs, out>> /\ pc' = "device"
    <3>1. todo # <<>>
      BY <1>13 DEF ExtractionFails, Types
    <3> QED
      BY <1>2, <1>5, <2>2, <3>1 DEF Choosing
  <2> QED
    BY <1>13, <2>1, <2>2 DEF ExtractionFails
<1>14. CASE RenderAddress
  <2>1. CASE Ends("panic")
    BY <1>3, <2>1
  <2>2. CASE UNCHANGED <<pc, exit, ids, todo, ifs, cur, docs, errs, out, refused>>
    BY <1>4, <1>14, <2>2 DEF RenderAddress
  <2> QED
    BY <1>14, <2>1, <2>2, RenderAddressCases
<1>15. CASE Finish
  <2>1. CASE Ends("panic")
    BY <1>3, <2>1
  <2>2. ASSUME NEW d \in Document, d.dev = Current.id, d.name = Current.name,
               docs' = Append(docs, d), todo' = Tail(todo), pc' = "device", UNCHANGED out
        PROVE  Choosing'
    <3>1. docs \in Seq(Document \cup Failed) /\ todo # <<>>
      BY <1>15 DEF Types, Finish
    <3>2. Parts(docs') = Parts(docs) \cup {d}
      BY <2>2, <3>1, PartsAppend
    <3>3. \A e \in Parts(docs') : Picked(seen, args, WantedStatus, e.dev, e.name)
      BY <1>5, <2>2, <3>1, <3>2 DEF Choosing, Current
    <3> QED
      BY <1>1, <1>5, <2>2, <3>1, <3>3 DEF Choosing
  <2> QED
    BY <1>15, <2>1, <2>2, FinishCases
<1>16. CASE EndExtraction
  BY <1>3, <1>4, <1>16 DEF EndExtraction, localVars
<1>17. CASE Write
  <2>0. pc = "write" /\ docs # <<>> /\ pc' = pc /\ docs' = Tail(docs) /\ UNCHANGED <<todo, ids>>
    BY <1>17 DEF Write
  <2>1. docs[1] \in Named /\ Parts(docs) = {docs[1]} \cup Parts(Tail(docs))
    BY <1>17, PartsTail DEF Write, Types
  <2>2. out' = out \/ out' = [out EXCEPT ![docs[1].name] = Translate(docs[1])]
    BY <1>17 DEF Write
  <2>3. Translate(docs[1]) = NoDoc \/ Translate(docs[1]) = docs[1]
    BY DEF Translate
  <2>4. ASSUME NEW n \in Names, out'[n] \notin {NoFile, NoDoc}
        PROVE  Picked(seen, args, WantedStatus, out'[n].dev, n)
    <3>1. out'[n] = out[n] \/ (out'[n] = docs[1] /\ n = docs[1].name)
      BY <2>2, <2>3, <2>4 DEF Types
    <3> QED
      BY <2>1, <2>4, <3>1 DEF Choosing
  <2> QED
    BY <1>1, <2>0, <2>1, <2>4 DEF Choosing
<1>18. CASE Done
  BY <1>3, <1>18 DEF Done
<1> QED
  BY <1>6, <1>7, <1>8, <1>9, <1>10, <1>11, <1>12, <1>13, <1>14, <1>15, <1>16, <1>17, <1>18 DEF Command

\* An edit only adds to the inventories in which a device was chosen.
LEMMA ChoosingEdit ==
    ASSUME Choosing, NEW n \in EditedNb, Edit(n)
    PROVE  Choosing'
<1>1. seen \subseteq seen' /\ UNCHANGED <<pc, args, variant, ids, todo, docs, out>>
  BY DEF Edit, localVars
<1>2. WantedStatus' = WantedStatus
  BY <1>1 DEF WantedStatus
<1>3. \A id, name : Picked(seen, args, WantedStatus, id, name) => Picked(seen', args', WantedStatus', id, name)
  BY <1>1, <1>2, PickedGrows
<1>4. Resolved => Resolved'
  BY <1>1 DEF Resolved
<1> QED
  BY <1>1, <1>3, <1>4 DEF Choosing

\* Choosing is an invariant.
LEMMA AlwaysChoosing == Spec => []Choosing
<1>1. Types /\ Choosing /\ [Next]_vars => Choosing'
  <2> SUFFICES ASSUME Types, Choosing, [Next]_vars PROVE Choosing'
    OBVIOUS
  <2>1. CASE UNCHANGED vars
    BY <2>1 DEF Choosing, Resolved, WantedStatus, vars, localVars
  <2> QED
    BY <2>1, ChoosingCommand, ChoosingEdit DEF Next
<1> QED
  BY <1>1, AlwaysTypes, ChoosingInit, PTL DEF Spec

\* The options are respected: a document, the unfinished one included, is for
\* a device that had the status and matched every well-formed option at some
\* moment of the command, in whatever order NetBox was edited and read.
THEOREM OptionsRespected == Spec => []SelectionRespected
<1>1. Types /\ Choosing => SelectionRespected
  <2> SUFFICES ASSUME Types, Choosing, NEW d \in Documents
               PROVE  Chosen(seen, args, WantedStatus, d.dev)
    BY DEF SelectionRespected, Chosen
  <2> DEFINE current == [dev |-> Current.id, units |-> units]
  <2>1. \/ d \in Parts(docs)
        \/ \E n \in Names : d = out[n] /\ d \notin {NoFile, NoDoc}
        \/ pc = "addresses" /\ d = current
    BY DEF Documents, Parts
  <2>2. current.dev = Current.id
    OBVIOUS
  <2>3. pc = "addresses" => Current \in Parts(todo)
    BY PartsTail DEF Types, Current
  <2> HIDE DEF current
  <2> QED
    BY <2>1, <2>2, <2>3 DEF Choosing, Picked
<1> QED
  BY <1>1, AlwaysTypes, AlwaysChoosing, PTL

-----------------------------------------------------------------------------
(* No device is passed over.                                               *)

\* A device that is always selected is on the page, whenever that is read.
LEMMA SelectedIsListed ==
    ASSUME Types, Choosing, pc = "list", NEW r, AlwaysSelected(r)
    PROVE  \E s \in Parts(Page(Selected)) : s.name = r.name
<1>1. PICK m \in seen : Wanted(args, "clusters") => ids = ResolveClusterIDs(Inventories[m].clusters, args)
  BY DEF Choosing, Resolved, Types
<1> DEFINE R == ResolveClusterIDs(Inventories[m].clusters, args)
           M == {d \in Parts(Inventories[nb].devices) : Matches(d, args, WantedStatus, ids)}
<1>2. \A d : Matches(d, args, WantedStatus, ids) <=> Matches(d, args, WantedStatus, R)
  BY <1>1 DEF Matches
<1>3. MatchesOf(nb, m) = M
  BY <1>2 DEF MatchesOf
<1>4. Selected = Only(Inventories[nb].devices, M)
  BY DEF Selected, Inv
<1>5. PICK s \in MatchesOf(nb, m) : s.name = r.name
  BY DEF AlwaysSelected, Types
<1>6. Len(Only(Inventories[nb].devices, MatchesOf(nb, m))) <= PageSize
  BY DEF AlwaysSelected, Types
<1>7. s \in M /\ s \in Parts(Inventories[nb].devices)
  BY <1>3, <1>5
<1> HIDE DEF M
<1>8. Inventories[nb].devices \in Seq(AllDevices)
  BY InventoryTypes DEF Types
<1>9. Selected \in Seq(AllDevices) /\ Parts(Selected) = Parts(Inventories[nb].devices) \cap M
  BY <1>4, <1>8, OnlyParts
<1>10. Page(Selected) = Selected
  BY <1>3, <1>4, <1>6, <1>9, PageParts
<1> QED
  BY <1>5, <1>7, <1>9, <1>10

\* No device is always selected if none of its clusters exists.
LEMMA NoneResolved ==
    ASSUME Types, Wanted(args, "clusters"), ResolveClusterIDs(Inventories[nb].clusters, args) = {}, NEW r
    PROVE  ~AlwaysSelected(r)
BY DEF AlwaysSelected, MatchesOf, Matches, Types

\* Nothing has to be covered at the beginning.
LEMMA CoveringInit == Init => Covering
<1> SUFFICES ASSUME Init PROVE Covering
  OBVIOUS
<1>1. out = [n \in Names |-> NoFile] /\ pc = "args" /\ exit = "running"
  BY DEF Init
<1> QED
  BY <1>1 DEF Covering

\* A step that does not change what covers a device.
LEMMA CoveredStays ==
    ASSUME UNCHANGED <<todo, docs, out, refused, errs>>, NEW name, Covered(name)
    PROVE  Covered(name)'
BY DEF Covered

\* Each step of the command keeps every device covered.
LEMMA CoveringCommand ==
    ASSUME Types, Choosing, Covering, Command
    PROVE  Covering'
<1>0. Input
  BY DEF Command, ReadArgs, Resolve, ListDevices, ListFails, Refetch, ListInterfaces, ListAddresses,
         ExtractionFails, RenderAddress, Finish, EndExtraction, Write, Done
<1>1. UNCHANGED <<nb, variant, embedded, args, seen, edits>>
  BY <1>0 DEF Input
<1>2. \A r : AlwaysSelected(r)' <=> AlwaysSelected(r)
  BY <1>1 DEF AlwaysSelected, MatchesOf, WantedStatus
<1>3. ASSUME NEW how, Ends(how), how # "ok", how = "failed" => pc # "write", pc # "end"
      PROVE  Covering'
  BY <1>3 DEF Ends, Covering
<1>4. CASE ReadArgs
  BY <1>1, <1>3, <1>4 DEF ReadArgs, Covering, Types
<1>5. CASE Resolve
  <2>1. ids' = ResolveClusterIDs(Inventories[nb].clusters, args) /\ pc' = IF ids' = {} THEN "device" ELSE "list"
    BY <1>5 DEF Resolve, Inv
  <2>2. UNCHANGED <<out, exit>> /\ pc = "resolve" /\ exit = "running"
    BY <1>5 DEF Resolve, Types
  <2>3. pc' = "device" => \A r : ~AlwaysSelected(r)
    BY <2>1, <2>2, NoneResolved DEF Covering
  <2> QED
    BY <1>1, <1>2, <2>1, <2>2, <2>3 DEF Covering
<1>6. CASE ListDevices
  <2>1. todo' = Page(Selected) /\ pc' = "device" /\ UNCHANGED <<out, exit>> /\ pc = "list" /\ exit = "running"
    BY <1>6 DEF ListDevices, Types
  <2>2. \A r : AlwaysSelected(r) => \E s \in Parts(todo') : s.name = r.name
    BY <2>1, SelectedIsListed
  <2> QED
    BY <1>1, <1>2, <2>1, <2>2 DEF Covering, Covered
<1>7. CASE ListFails
  BY <1>3, <1>7 DEF ListFails
<1>8. CASE Refetch
  <2>1. CASE Ends("panic")
    BY <1>3, <1>8, <2>1 DEF Refetch
  <2>2. CASE UNCHANGED <<exit, out>> /\ pc' \in {"device", "refetched"}
    <3>1. embedded /\ pc = "device" /\ exit = "running"
      BY <1>8 DEF Refetch, Types
    <3> QED
      BY <1>1, <2>2, <3>1 DEF Covering
  <2> QED
    BY <1>8, <2>1, <2>2 DEF Refetch
<1>9. CASE ListInterfaces \/ ListAddresses
  <2>1. /\ UNCHANGED <<todo, docs, out, refused, errs, exit>> /\ pc' = "addresses" /\ exit = "running"
        /\ pc \in {"device", "addresses"} \/ embedded
        /\ pc \notin {"write", "end"}
    BY <1>9 DEF ListInterfaces, ListAddresses, Types
  <2> QED
    BY <1>1, <1>2, <2>1, CoveredStays DEF Covering
<1>10. CASE ExtractionFails
  <2>0. pc \in {"device", "refetched", "addresses"} /\ exit = "running"
    BY <1>10 DEF ExtractionFails, Types
  <2>1. CASE Ends("panic")
    BY <1>3, <2>0, <2>1
  <2>2. CASE pc' = "device" /\ errs' = (errs \/ variant # "fcos") /\ UNCHANGED <<exit, out>>
    BY <1>1, <2>0, <2>2 DEF Covering, Covered
  <2> QED
    BY <1>10, <2>1, <2>2 DEF ExtractionFails
<1>11. CASE RenderAddress
  <2>0. pc = "addresses" /\ exit = "running"
    BY <1>11 DEF RenderAddress, Types
  <2>1. CASE Ends("panic")
    BY <1>3, <2>0, <2>1
  <2>2. CASE UNCHANGED <<pc, exit, ids, todo, ifs, cur, docs, errs, out, refused>>
    BY <1>1, <1>2, <2>0, <2>2, CoveredStays DEF Covering
  <2> QED
    BY <1>11, <2>1, <2>2, RenderAddressCases
<1>12. CASE Finish
  <2>0. pc = "addresses" /\ exit = "running" /\ todo # <<>>
    BY <1>12 DEF Finish, Types
  <2>1. CASE Ends("panic")
    BY <1>3, <2>0, <2>1
  <2>2. ASSUME NEW d \in Document, d.name = Current.name, docs' = Append(docs, d), todo' = Tail(todo),
               pc' = "device", UNCHANGED <<exit, errs, out, refused>>
        PROVE  Covering'
    <3>1. docs \in Seq(Document \cup Failed)
      BY DEF Types
    <3>2. Parts(docs') = Parts(docs) \cup {d}
      BY <2>2, <3>1, PartsAppend
    <3>3. Parts(todo) = {Current} \cup Parts(todo')
      BY <2>0, <2>2, PartsTail DEF Types, Current
    <3>4. \A name : Covered(name) => Covered(name)'
      BY <2>2, <3>2, <3>3 DEF Covered
    <3> QED
      BY <1>1, <1>2, <2>0, <2>2, <3>4 DEF Covering
  <2> QED
    BY <1>12, <2>1, <2>2, FinishCases
<1>13. CASE EndExtraction
  <2>0. pc = "device" /\ exit = "running" /\ todo = <<>>
    BY <1>13 DEF EndExtraction, Types
  <2>1. CASE Ends("failed")
    BY <1>3, <2>0, <2>1
  <2>2. CASE ~errs /\ embedded /\ Ends("ok")
    BY <1>1, <2>0, <2>2 DEF Covering, Ends, localVars
  <2>3. CASE ~errs /\ pc' = "write" /\ UNCHANGED <<exit, localVars, out, refused>>
    BY <1>1, <1>2, <2>0, <2>3, CoveredStays DEF Covering, localVars
  <2> QED
    BY <1>13, <2>1, <2>2, <2>3 DEF EndExtraction
<1>14. CASE Write
  <2>0. /\ pc = "write" /\ docs # <<>> /\ docs' = Tail(docs) /\ UNCHANGED <<pc, exit, todo, errs>>
        /\ exit = "running" /\ ~embedded
    BY <1>14 DEF Write, Types
  <2>1. docs[1] \in Named /\ Parts(docs) = {docs[1]} \cup Parts(Tail(docs))
    BY <1>14, PartsTail DEF Write, Types
  <2>2. \/ out' = [out EXCEPT ![docs[1].name] = Translate(docs[1])] /\ UNCHANGED refused
        \/ UNCHANGED out /\ refused' = refused \cup {docs[1].name}
    BY <1>14 DEF Write
  <2>3. docs[1].name \in Names /\ Translate(docs[1]) # NoFile
    BY <2>1, RenderingAssumption DEF Translate, Named
  <2>4. ASSUME NEW name, Covered(name) PROVE Covered(name)'
    <3>1. CASE \E d \in Parts(docs) : d.name = name
      <4>1. CASE name = docs[1].name
        BY <2>2, <2>3, <4>1 DEF Covered, Types
      <4>2. CASE name # docs[1].name
        BY <2>0, <2>1, <3>1, <4>2 DEF Covered
      <4> QED
        BY <4>1, <4>2
    <3>2. CASE errs \/ \E d \in Parts(todo) : d.name = name
      BY <2>0, <3>2 DEF Covered
    <3>3. CASE name \in Names /\ out[name] # NoFile
      BY <2>2, <2>3, <3>3 DEF Covered, Types
    <3>4. CASE name \in refused
      BY <2>2, <3>4 DEF Covered
    <3> QED
      BY <2>4, <3>1, <3>2, <3>3, <3>4 DEF Covered
  <2> QED
    BY <1>1, <1>2, <2>0, <2>4 DEF Covering
<1>15. CASE Done
  <2>1. pc = "write" /\ docs = <<>> /\ pc' = "end" /\ exit' = "ok" /\ UNCHANGED <<todo, docs, out, refused, errs>>
    BY <1>15 DEF Done, Ends, localVars
  <2> QED
    BY <1>1, <1>2, <2>1, CoveredStays DEF Covering
<1> QED
  BY <1>4, <1>5, <1>6, <1>7, <1>8, <1>9, <1>10, <1>11, <1>12, <1>13, <1>14, <1>15 DEF Command

\* After an edit fewer devices are always selected.
LEMMA CoveringEdit ==
    ASSUME Covering, NEW n \in EditedNb, Edit(n)
    PROVE  Covering'
<1>1. /\ seen \subseteq seen'
      /\ UNCHANGED <<pc, exit, variant, embedded, args, todo, docs, out, refused, errs>>
  BY DEF Edit, localVars
<1>2. \A r : AlwaysSelected(r)' => AlwaysSelected(r)
  BY <1>1 DEF AlwaysSelected, MatchesOf, WantedStatus
<1> QED
  BY <1>1, <1>2, CoveredStays DEF Covering

\* Covering is an invariant.
LEMMA AlwaysCovering == Spec => []Covering
<1>1. Types /\ Choosing /\ Covering /\ [Next]_vars => Covering'
  <2> SUFFICES ASSUME Types, Choosing, Covering, [Next]_vars PROVE Covering'
    OBVIOUS
  <2>1. CASE UNCHANGED vars
    <3>1. \A r : AlwaysSelected(r)' <=> AlwaysSelected(r)
      BY <2>1 DEF AlwaysSelected, MatchesOf, WantedStatus, vars
    <3> QED
      BY <2>1, <3>1 DEF Covering, Covered, vars, localVars
  <2> QED
    BY <2>1, CoveringCommand, CoveringEdit DEF Next
<1> QED
  BY <1>1, AlwaysTypes, AlwaysChoosing, CoveringInit, PTL DEF Spec

\* "butane flatcar" and "talos machineconfig" that exit with 0 have a file for
\* every device selected throughout, of it or of one with its name, or have
\* logged that it could not be created, if NetBox never had more such devices
\* than fit on a page; and a command that fails has written nothing.
THEOREM FilesAllOrNone == Spec => []AllFilesOrNone
<1>1. Types /\ Choosing /\ Covering => AllFilesOrNone
  <2> SUFFICES ASSUME Types, Choosing, Covering PROVE AllFilesOrNone
    OBVIOUS
  <2>1. ASSUME exit = "ok", ~embedded, variant # "fcos", NEW r \in Parts(Inv.devices), AlwaysSelected(r)
        PROVE  HasFile(r) \/ r.name \in refused
    <3>1. r \in AllDevices
      BY DEF Inv, AllDevices, Types
    <3>2. Covered(r.name)
      BY <2>1, <3>1 DEF Covering
    <3>3. ~errs /\ Parts(todo) = {} /\ Parts(docs) = {}
      BY <2>1, PartsEmpty DEF Covering
    <3>4. (r.name \in Names /\ out[r.name] # NoFile) \/ r.name \in refused
      BY <3>2, <3>3 DEF Covered
    <3>5. ASSUME r.name \in Names, out[r.name] \notin {NoFile, NoDoc} PROVE HasFile(r)
      BY <3>5 DEF Choosing, Picked, HasFile
    <3> QED
      BY <3>4, <3>5 DEF HasFile
  <2> QED
    BY <2>1 DEF AllFilesOrNone, Covering
<1> QED
  BY <1>1, AlwaysTypes, AlwaysChoosing, AlwaysCovering, PTL

-----------------------------------------------------------------------------
(* The documents and their reference.                                      *)

\* What a list of units says, and whether two of its units have one path.
Line(u) == <<u.iface, u.vlan, u.addr, Path(u)>>
Lines(us) == {Line(u) : u \in {x \in Parts(us) : x.kind = "vlan" \/ x.addr # NoAddr}}
Clashing(us) == variant # "talos" /\ \E i, j \in 1..Len(us) : i # j /\ Path(us[i]) = Path(us[j])

\* The same, but for Flatcar of VLANs only: its unit for an interface, and
\* with it a clash, may yet be replaced.
Lasting(v, w) == variant = "fcos" \/ (variant = "flatcar" /\ v # 0 /\ w # 0)
Repeats(us) ==
    \E i, j \in 1..Len(us) : i # j /\ Path(us[i]) = Path(us[j]) /\ Lasting(us[i].vlan, us[j].vlan)
Repeat(dev, P) ==
    \E p, q \in Used(dev, P) :
        p # q /\ FileAt(dev, p) = FileAt(dev, q) /\ Lasting(VlanAt(dev, p), VlanAt(dev, q))

\* The units are what the places P of the device call for, so far and in the
\* end.
Agrees(dev, P, us) ==
    /\ Lines(us) = ExpectedAddresses(dev, P)
    /\ Repeats(us) <=> Repeat(dev, P)

Settled(dev, P, us) ==
    /\ Lines(us) = ExpectedAddresses(dev, P)
    /\ Clashing(us) <=> Clash(dev, P)

\* The units of an unfinished document: a unit for Flatcar and FCOS has an
\* address or a VLAN, and Flatcar has one for an interface at most.
PlainUnits(us) ==
    /\ \A u \in Parts(us) : u.kind = "vlan" <=> u.vlan # 0
    /\ \A u \in Parts(us) : u.kind = "vlan" => u.vname \in STRING
    /\ variant # "talos" => \A u \in Parts(us) : u.kind = "iface" => u.addr # NoAddr
    /\ variant = "flatcar" =>
          \A i, j \in 1..Len(us) : us[i].kind = "iface" /\ us[j].kind = "iface" => i = j

\* Talos: each of the first k interfaces in the list I has a unit.
Prepared(us, I, k) ==
    variant = "talos" => \A j \in 1..k : \E u \in Parts(us) : u.kind = "iface" /\ u.iface = I[j].name

\* The places up to address m of interface k.
Handled(dev, k, m) == {p \in Places(dev) : p[1] < k \/ (p[1] = k /\ p[2] <= m)}

\* s is what is left of the list t after the first k.
Remains(s, t, k) == k + Len(s) = Len(t) /\ \A j \in 1..Len(s) : s[j] = t[k + j]

\* The device has been rendered up to address m of interface k, if its
\* interfaces ii, the addresses aa of interface c and units us are those at
\* hand.
Rendered(dev, ii, c, aa, us, k, m) ==
    /\ Remains(ii, Inv.ifaces[dev], k)
    /\ k = 0 => aa = <<>> /\ m = 0
    /\ k > 0 => c = Inv.ifaces[dev][k] /\ Remains(aa, Inv.addrs[c.id], m)
    /\ variant = "talos" /\ k > 0 => (c.dhcp => aa = <<>>)
    /\ PlainUnits(us)
    /\ Prepared(us, Inv.ifaces[dev], k)
    /\ Agrees(dev, Handled(dev, k, m), us)

\* Neither has anything failed nor has anything been edited.
Quiet == ~embedded /\ faults = 0 /\ seen = {nb}

DocRight(doc, r) ==
    /\ doc.name = r.name /\ doc.dev = r.id
    /\ Fits(r.id) => Settled(r.id, Places(r.id), doc.units)

FileRight(file, r) ==
    /\ file # NoFile
    /\ file # NoDoc => file.dev = r.id
    /\ Fits(r.id) =>
          /\ file = NoDoc <=> Clash(r.id, Places(r.id))
          /\ file # NoDoc => Lines(file.units) = ExpectedAddresses(r.id, Places(r.id))

\* Of the first w devices in the list L, number i is the last of its name.
LastNamed(L, i, w) == \A j \in (i + 1)..w : L[j].name # L[i].name

\* Of the devices L, those of the documents D are done, and T are to come.
Ahead(L, D, T) ==
    /\ Remains(T, L, Len(D))
    /\ \A j \in 1..Len(D) : DocRight(D[j], L[j])

\* Of the devices L, some have their files in F, and the documents D of the
\* others are still to be written.
Behind(L, D, F) ==
    \E w \in Nat :
        /\ w + Len(D) = Len(L)
        /\ \A j \in 1..Len(D) : DocRight(D[j], L[w + j])
        /\ \A i \in 1..w : L[i].name \in Names /\ (LastNamed(L, i, w) => FileRight(F[L[i].name], L[i]))

\* In quiet, the devices are those selected and on the page, in their order.
\* (Bound variables stand for the values of state functions, which a step is
\* compared by.)
Following ==
    Quiet =>
        /\ pc \in {"args", "resolve", "list"} => todo = <<>> /\ docs = <<>>
        /\ pc \in {"device", "addresses"} =>
              \A L \in {Page(Selected)}, D \in {docs}, T \in {todo} : Ahead(L, D, T)
        /\ pc = "addresses" =>
              \A dev \in {Current.id}, ii \in {ifs}, c \in {cur}, aa \in {adr}, us \in {units} :
                  Fits(dev) => \E k, m \in Nat : Rendered(dev, ii, c, aa, us, k, m)
        /\ pc = "write" \/ exit = "ok" =>
              \A L \in {Page(Selected)}, D \in {docs}, F \in {out} : Behind(L, D, F)

\* Place q yields to the later place p.
Yields(dev, q, p) ==
    /\ variant # "fcos" /\ VlanAt(dev, q) = 0 /\ VlanAt(dev, p) = 0
    /\ variant = "flatcar" \/ q[1] = p[1]

\* The last place decides, and only takes from others what they decided on.
LEMMA UsedStep ==
    ASSUME variant \in {"flatcar", "fcos", "talos"}, NEW dev,
           NEW P \in SUBSET (Nat \X Nat), NEW p \in Nat \X Nat,
           \A q \in P : q[1] < p[1] \/ (q[1] = p[1] /\ q[2] < p[2])
    PROVE  Used(dev, P \cup {p}) = {q \in Used(dev, P) : ~Yields(dev, q, p)} \cup {p}
<1> DEFINE Q == P \cup {p}
<1>0. p \notin P /\ \A q \in Q : q[1] \in Nat /\ q[2] \in Nat
  OBVIOUS
<1>1. p \in Used(dev, Q)
  BY <1>0 DEF Used, Deciding, IsLast
<1>2. ASSUME NEW q \in P, VlanAt(dev, q) # 0
      PROVE  (q \in Used(dev, Q) <=> q \in Used(dev, P)) /\ ~Yields(dev, q, p)
  BY <1>2 DEF Used, Yields
<1>3. ASSUME NEW q \in P, VlanAt(dev, q) = 0, variant = "fcos"
      PROVE  q \in Used(dev, Q) /\ q \in Used(dev, P) /\ ~Yields(dev, q, p)
  BY <1>3 DEF Used, Deciding, Yields
<1>4. ASSUME NEW q \in P, VlanAt(dev, q) = 0, variant # "fcos"
      PROVE  q \in Used(dev, Q) <=> q \in Used(dev, P) /\ ~Yields(dev, q, p)
  <2> DEFINE A == {x \in P : VlanAt(dev, x) = 0 /\ (variant = "flatcar" \/ x[1] = q[1])}
             B == {x \in Q : VlanAt(dev, x) = 0 /\ (variant = "flatcar" \/ x[1] = q[1])}
  <2>1. q \in Used(dev, P) <=> IsLast(q, A)
    BY <1>4 DEF Used, Deciding
  <2>2. q \in Used(dev, Q) <=> IsLast(q, B)
    BY <1>4 DEF Used, Deciding
  <2>3. ~(p[1] < q[1] \/ (p[1] = q[1] /\ p[2] <= q[2]))
    BY <1>0
  <2>4. CASE Yields(dev, q, p)
    <3>1. p \in B
      BY <1>4, <2>4 DEF Yields
    <3>2. ~IsLast(q, B)
      BY <2>3, <3>1 DEF IsLast
    <3> QED
      BY <2>2, <2>4, <3>2
  <2>5. CASE ~Yields(dev, q, p)
    <3>1. A = B
      BY <1>4, <2>5 DEF Yields
    <3> QED
      BY <2>1, <2>2, <2>5, <3>1
  <2> QED
    BY <2>4, <2>5
<1>5. \A q \in P : q \in Used(dev, Q) <=> q \in Used(dev, P) /\ ~Yields(dev, q, p)
  BY <1>2, <1>3, <1>4
<1>6. Used(dev, Q) \subseteq P \cup {p} /\ Used(dev, P) \subseteq P
  BY DEF Used
<1> QED
  BY <1>1, <1>5, <1>6

\* What a place of a device is.
LEMMA PlacesTypes ==
    ASSUME Types, NEW dev \in DeviceIds
    PROVE  /\ Inv.ifaces[dev] \in Seq(AllIfaces)
           /\ Places(dev) \subseteq Nat \X Nat
           /\ \A p \in Places(dev) : p[1] \in 1..Len(Inv.ifaces[dev])
<1>1. Inv.ifaces[dev] \in Seq(AllIfaces)
  BY InventoryTypes DEF Types, Inv
<1>2. ASSUME NEW k \in 1..Len(Inv.ifaces[dev])
      PROVE  Inv.addrs[Inv.ifaces[dev][k].id] \in Seq(AllAddresses)
  <2>1. Inv.ifaces[dev][k].id \in IfaceIds
    BY <1>1, RecordTypes
  <2> QED
    BY <2>1, InventoryTypes DEF Types, Inv
<1>3. ASSUME NEW p \in Places(dev) PROVE p \in Nat \X Nat /\ p[1] \in 1..Len(Inv.ifaces[dev])
  <2>1. PICK k \in 1..Len(Inv.ifaces[dev]) : p \in {k} \X (1..Len(Inv.addrs[Inv.ifaces[dev][k].id]))
    BY DEF Places
  <2>2. k \in Nat
    BY <1>1
  <2> DEFINE A == Inv.addrs[Inv.ifaces[dev][k].id]
  <2>3. A \in Seq(AllAddresses)
    BY <1>2
  <2> HIDE DEF A
  <2>4. Len(A) \in Nat
    BY <2>3
  <2> QED
    BY <2>1, <2>2, <2>4 DEF A
<1> QED
  BY <1>1, <1>3

\* One place more: what is expected of a device.
LEMMA ExpectedStep ==
    ASSUME IfacesApart, Types, NEW dev \in DeviceIds,
           NEW P \in SUBSET Places(dev), NEW p \in Places(dev),
           \A q \in P : q[1] < p[1] \/ (q[1] = p[1] /\ q[2] < p[2])
    PROVE  ExpectedAddresses(dev, P \cup {p}) =
              {t \in ExpectedAddresses(dev, P) :
                  ~(/\ variant # "fcos" /\ t[2] = 0 /\ VlanAt(dev, p) = 0
                    /\ variant = "flatcar" \/ t[1] = Inv.ifaces[dev][p[1]].name)}
              \cup {ExpectedAddress(dev, p)}
<1> DEFINE name == Inv.ifaces[dev][p[1]].name
           Lost(t) == /\ variant # "fcos" /\ t[2] = 0 /\ VlanAt(dev, p) = 0
                      /\ variant = "flatcar" \/ t[1] = name
<1>0. P \in SUBSET (Nat \X Nat) /\ p \in Nat \X Nat /\ variant \in {"flatcar", "fcos", "talos"}
  BY PlacesTypes DEF Types
<1>1. Used(dev, P \cup {p}) = {q \in Used(dev, P) : ~Yields(dev, q, p)} \cup {p}
  BY <1>0, UsedStep
<1>2. ASSUME NEW q \in Used(dev, P) PROVE Yields(dev, q, p) <=> Lost(ExpectedAddress(dev, q))
  <2>1. q \in Places(dev)
    BY DEF Used
  <2>2. ExpectedAddress(dev, q)[1] = Inv.ifaces[dev][q[1]].name /\ ExpectedAddress(dev, q)[2] = VlanAt(dev, q)
    BY DEF ExpectedAddress
  <2>3. q[1] \in 1..Len(Inv.ifaces[dev]) /\ p[1] \in 1..Len(Inv.ifaces[dev])
    BY <2>1, PlacesTypes
  <2>4. nb \in DOMAIN Inventories
    BY DEF Types
  <2>5. Inv.ifaces[dev][q[1]].name = name <=> q[1] = p[1]
    BY <2>3, <2>4 DEF IfacesApart, Inv
  <2> QED
    BY <2>2, <2>5 DEF Yields
<1> HIDE DEF Lost
<1>3. ExpectedAddresses(dev, P \cup {p}) =
         {t \in ExpectedAddresses(dev, P) : ~Lost(t)} \cup {ExpectedAddress(dev, p)}
  BY <1>1, <1>2 DEF ExpectedAddresses
<1> QED
  BY <1>3 DEF Lost

\* Flatcar uses one place without VLAN at most.
LEMMA OnePlainPlace ==
    ASSUME variant = "flatcar", NEW dev, NEW P \in SUBSET (Nat \X Nat),
           NEW q \in Used(dev, P), NEW r \in Used(dev, P), VlanAt(dev, q) = 0, VlanAt(dev, r) = 0
    PROVE  q = r
<1>1. q \in P /\ r \in P /\ q \in Nat \X Nat /\ r \in Nat \X Nat
  BY DEF Used
<1>2. IsLast(q, {x \in P : VlanAt(dev, x) = 0}) /\ IsLast(r, {x \in P : VlanAt(dev, x) = 0})
  BY DEF Used, Deciding
<1>3. /\ q[1] < r[1] \/ (q[1] = r[1] /\ q[2] <= r[2])
      /\ r[1] < q[1] \/ (r[1] = q[1] /\ r[2] <= q[2])
  BY <1>1, <1>2 DEF IsLast
<1> QED
  BY <1>1, <1>3

\* One place more: when two places lead to one path that stays.
LEMMA RepeatStep ==
    ASSUME Types, NEW dev \in DeviceIds, variant # "talos",
           NEW P \in SUBSET Places(dev), NEW p \in Places(dev),
           \A q \in P : q[1] < p[1] \/ (q[1] = p[1] /\ q[2] < p[2])
    PROVE  Repeat(dev, P \cup {p}) <=>
              \/ Repeat(dev, P)
              \/ \E t \in ExpectedAddresses(dev, P) :
                    t[4] = FileAt(dev, p) /\ Lasting(t[2], VlanAt(dev, p))
<1> DEFINE U == Used(dev, P)
           Same(q, r) == FileAt(dev, q) = FileAt(dev, r) /\ Lasting(VlanAt(dev, q), VlanAt(dev, r))
<1>0. /\ P \in SUBSET (Nat \X Nat) /\ p \in Nat \X Nat /\ p \notin P
      /\ variant \in {"flatcar", "fcos"} /\ U \subseteq P
  <2>1. P \in SUBSET (Nat \X Nat) /\ p \in Nat \X Nat
    BY PlacesTypes
  <2>2. p[1] \in Nat /\ p[2] \in Nat
    BY <2>1
  <2>3. p \notin P
    BY <2>2
  <2> QED
    BY <2>1, <2>3 DEF Types, Used
<1>1. Used(dev, P \cup {p}) = {q \in U : ~Yields(dev, q, p)} \cup {p}
  BY <1>0, UsedStep
<1>2. (\E t \in ExpectedAddresses(dev, P) : t[4] = FileAt(dev, p) /\ Lasting(t[2], VlanAt(dev, p)))
      <=> \E q \in U : Same(q, p)
  <2>1. \A q \in U : ExpectedAddress(dev, q)[4] = FileAt(dev, q) /\ ExpectedAddress(dev, q)[2] = VlanAt(dev, q)
    BY DEF ExpectedAddress
  <2> HIDE DEF U
  <2>2. ExpectedAddresses(dev, P) = {ExpectedAddress(dev, q) : q \in U}
    BY DEF ExpectedAddresses, U
  <2> QED
    BY <2>1, <2>2
<1>3. \A q, r : Same(q, r) <=> Same(r, q)
  BY DEF Lasting
<1>4. \A q, r : Yields(dev, q, p) => ~Same(q, r) /\ ~Same(q, p)
  BY <1>0 DEF Yields, Lasting
<1>5. Repeat(dev, P \cup {p}) <=> \E q, r \in {q \in U : ~Yields(dev, q, p)} \cup {p} : q # r /\ Same(q, r)
  BY <1>1 DEF Repeat
<1>6. Repeat(dev, P) <=> \E q, r \in U : q # r /\ Same(q, r)
  BY DEF Repeat
<1>7. p \notin U
  BY <1>0
<1> HIDE DEF U, Same
<1>8. (\E q, r \in {q \in U : ~Yields(dev, q, p)} \cup {p} : q # r /\ Same(q, r)) <=>
      (\E q, r \in U : q # r /\ Same(q, r)) \/ \E q \in U : Same(q, p)
  BY <1>3, <1>4, <1>7
<1> QED
  BY <1>2, <1>5, <1>6, <1>8

\* One unit more: whether two units have one path that stays.
LEMMA RepeatAppend ==
    ASSUME NEW us \in Seq(Unit), NEW x \in Unit
    PROVE  Repeats(Append(us, x)) <=>
              Repeats(us) \/ \E u \in Parts(us) : Path(u) = Path(x) /\ Lasting(u.vlan, x.vlan)
<1> DEFINE t == Append(us, x)
           n == Len(us)
           Same(u, v) == Path(u) = Path(v) /\ Lasting(u.vlan, v.vlan)
<1>1. n \in Nat /\ Len(t) = n + 1 /\ t[n + 1] = x /\ \A i \in 1..n : t[i] = us[i]
  OBVIOUS
<1> HIDE DEF t
<1>2. Repeats(t) <=> \E i, j \in 1..(n + 1) : i # j /\ Same(t[i], t[j])
  BY <1>1 DEF Repeats
<1>3. Repeats(us) <=> \E i, j \in 1..n : i # j /\ Same(us[i], us[j])
  BY DEF Repeats
<1>4. (\E u \in Parts(us) : Same(u, x)) <=> \E i \in 1..n : Same(us[i], x)
  BY DEF Parts
<1>5. \A u, v : Same(u, v) <=> Same(v, u)
  BY DEF Lasting
<1> HIDE DEF Same
<1>6. ASSUME Repeats(us) PROVE Repeats(t)
  <2>1. PICK i \in 1..n, j \in 1..n : i # j /\ Same(us[i], us[j])
    BY <1>3, <1>6
  <2>2. i \in 1..(n + 1) /\ j \in 1..(n + 1)
    BY <1>1
  <2> QED
    BY <1>1, <1>2, <2>1, <2>2
<1>7. ASSUME NEW i \in 1..n, Same(us[i], x) PROVE Repeats(t)
  <2>1. i \in 1..(n + 1) /\ n + 1 \in 1..(n + 1) /\ i # n + 1
    BY <1>1
  <2> QED
    BY <1>1, <1>2, <1>7, <2>1
<1>8. ASSUME Repeats(t) PROVE Repeats(us) \/ \E i \in 1..n : Same(us[i], x)
  <2>1. PICK i \in 1..(n + 1), j \in 1..(n + 1) : i # j /\ Same(t[i], t[j])
    BY <1>2, <1>8
  <2>2. (i \in 1..n \/ i = n + 1) /\ (j \in 1..n \/ j = n + 1)
    BY <1>1
  <2>3. CASE i \in 1..n /\ j \in 1..n
    BY <1>1, <1>3, <2>1, <2>3
  <2>4. CASE i \in 1..n /\ j = n + 1
    BY <1>1, <2>1, <2>4
  <2>5. CASE i = n + 1 /\ j \in 1..n
    BY <1>1, <1>5, <2>1, <2>5
  <2> QED
    BY <2>1, <2>2, <2>3, <2>4, <2>5
<1> QED
  BY <1>4, <1>6, <1>7, <1>8 DEF t, Same

\* One unit more: what the units say.
LEMMA LinesAppend ==
    ASSUME NEW us \in Seq(Unit), NEW x \in Unit
    PROVE  Lines(Append(us, x)) =
              Lines(us) \cup (IF x.kind = "vlan" \/ x.addr # NoAddr THEN {Line(x)} ELSE {})
<1>1. Parts(Append(us, x)) = Parts(us) \cup {x}
  BY PartsAppend
<1> QED
  BY <1>1 DEF Lines

\* The unit for an address, as Placed leaves it.
Shaped(u) == IF u.kind = "vlan" /\ variant = "fcos" THEN [u EXCEPT !.addr = NoAddr] ELSE u

\* A unit for an address: it says whether it is in a VLAN.
FromAddress(u) ==
    /\ u \in Unit /\ (u.kind = "vlan" <=> u.vlan # 0) /\ u.addr # NoAddr
    /\ u.kind = "vlan" => u.vname \in STRING

\* What Placed leaves is a unit too.
LEMMA ShapedUnit ==
    ASSUME NEW u, FromAddress(u)
    PROVE  /\ Shaped(u) \in Unit /\ Shaped(u).kind = u.kind
           /\ Shaped(u).iface = u.iface /\ Shaped(u).vlan = u.vlan
           /\ Shaped(u).vname = u.vname /\ Path(Shaped(u)) = Path(u)
           /\ u.kind = "iface" => Shaped(u) = u
           /\ u.kind \in {"iface", "vlan"} /\ u.vlan \in Nat
           /\ Shaped(u).kind = "vlan" \/ Shaped(u).addr # NoAddr
<1> DEFINE x == Shaped(u)
<1>1. /\ x \in Unit /\ x.kind = u.kind /\ x.iface = u.iface /\ x.vlan = u.vlan
      /\ x.vname = u.vname
      /\ u.kind = "iface" => x = u
      /\ u.kind \in {"iface", "vlan"} /\ u.vlan \in Nat
      /\ x.kind = "vlan" \/ x.addr # NoAddr
  BY DEF Shaped, FromAddress, Unit
<1> HIDE DEF x
<1>2. Path(x) = Path(u)
  BY <1>1 DEF Path
<1> QED
  BY <1>1, <1>2 DEF x

\* What a list of units says when its VLAN units are kept.
LEMMA LinesOnly ==
    ASSUME NEW us \in Seq(Unit), PlainUnits(us)
    PROVE  /\ Only(us, {v \in Parts(us) : v.kind = "vlan"}) \in Seq(Unit)
           /\ Parts(Only(us, {v \in Parts(us) : v.kind = "vlan"})) = {v \in Parts(us) : v.kind = "vlan"}
           /\ Lines(Only(us, {v \in Parts(us) : v.kind = "vlan"})) = {t \in Lines(us) : t[2] # 0}
<1> DEFINE V == {v \in Parts(us) : v.kind = "vlan"}
           o == Only(us, V)
<1>1. o \in Seq(Unit) /\ Parts(o) = Parts(us) \cap V
  BY OnlyParts
<1> HIDE DEF o
<1>2. Parts(o) = V
  BY <1>1
<1>3. \A u \in Parts(us) : (u.kind = "vlan" <=> u.vlan # 0) /\ Line(u)[2] = u.vlan
  BY DEF PlainUnits, Line
<1>4. Lines(o) = {Line(u) : u \in V}
  BY <1>2 DEF Lines
<1>5. Lines(o) = {t \in Lines(us) : t[2] # 0}
  BY <1>3, <1>4 DEF Lines
<1> QED
  BY <1>1, <1>2, <1>5 DEF o

\* What the units say after an address.
LEMMA PlacedLines ==
    ASSUME Types, PlainUnits(units), NEW u, FromAddress(u),
           variant = "talos" /\ u.kind = "iface" => \E v \in Parts(units) : v.kind = "iface" /\ v.iface = u.iface
    PROVE  Lines(Placed(u)) =
              {t \in Lines(units) :
                  ~(/\ variant # "fcos" /\ t[2] = 0 /\ u.vlan = 0
                    /\ variant = "flatcar" \/ t[1] = u.iface)}
              \cup {Line(Shaped(u))}
<1> DEFINE x == Shaped(u)
           Lost(t) == /\ variant # "fcos" /\ t[2] = 0 /\ u.vlan = 0
                      /\ variant = "flatcar" \/ t[1] = u.iface
<1>1. /\ units \in Seq(Unit) /\ variant \in {"flatcar", "fcos", "talos"}
      /\ x \in Unit /\ x.kind = u.kind /\ x.iface = u.iface /\ x.vlan = u.vlan
      /\ u.kind \in {"iface", "vlan"} /\ (u.kind = "vlan" <=> u.vlan # 0)
      /\ x.kind = "vlan" \/ x.addr # NoAddr
      /\ u.kind = "iface" => x = u
  BY ShapedUnit DEF Types, FromAddress
<1>2. CASE u.kind = "vlan" \/ variant = "fcos"
  <2>1. Placed(u) = Append(units, x)
    BY <1>1, <1>2 DEF Placed, Shaped
  <2> HIDE DEF x
  <2>2. Lines(Placed(u)) = Lines(units) \cup {Line(x)}
    BY <1>1, <2>1, LinesAppend
  <2>3. \A t \in Lines(units) : ~Lost(t)
    BY <1>1, <1>2
  <2> HIDE DEF Lost
  <2>4. Lines(Placed(u)) = {t \in Lines(units) : ~Lost(t)} \cup {Line(x)}
    BY <2>2, <2>3
  <2> QED
    BY <2>4 DEF Lost, x
<1>3. CASE u.kind = "iface" /\ variant = "flatcar"
  <2> DEFINE o == Only(units, {v \in Parts(units) : v.kind = "vlan"})
  <2>1. o \in Seq(Unit) /\ Lines(o) = {t \in Lines(units) : t[2] # 0}
    BY <1>1, LinesOnly
  <2>2. Placed(u) = Append(o, x)
    BY <1>1, <1>3 DEF Placed
  <2> HIDE DEF o, x
  <2>3. Lines(Placed(u)) = Lines(o) \cup {Line(x)}
    BY <1>1, <2>1, <2>2, LinesAppend
  <2>4. \A t \in Lines(units) : ~Lost(t) <=> t[2] # 0
    BY <1>1, <1>3
  <2> HIDE DEF Lost
  <2>5. Lines(Placed(u)) = {t \in Lines(units) : ~Lost(t)} \cup {Line(x)}
    BY <2>1, <2>3, <2>4
  <2> QED
    BY <2>5 DEF Lost, x
<1>4. CASE u.kind = "iface" /\ variant = "talos"
  <2> DEFINE n == Len(units)
             Hit(v) == v.kind = "iface" /\ v.iface = u.iface
             New(v) == IF Hit(v) THEN [v EXCEPT !.addr = u.addr] ELSE v
             Tells(v) == v.kind = "vlan" \/ v.addr # NoAddr
             s == [i \in 1..n |-> New(units[i])]
  <2>1. Placed(u) = s
    BY <1>1, <1>4 DEF Placed
  <2>2. n \in Nat /\ Len(s) = n /\ \A i \in 1..n : s[i] = New(units[i])
    BY <1>1
  <2>3. Parts(s) = {New(v) : v \in Parts(units)}
    <3> HIDE DEF New, s
    <3> QED
      BY <2>2 DEF Parts
  <2>4. ASSUME NEW v \in Parts(units)
        PROVE  /\ Hit(v) => Line(New(v)) = Line(x) /\ Tells(New(v)) /\ (Tells(v) => Lost(Line(v)))
               /\ ~Hit(v) => New(v) = v /\ (Tells(v) => ~Lost(Line(v)))
    <3>1. v \in Unit /\ (v.kind = "vlan" <=> v.vlan # 0) /\ v.kind \in {"iface", "vlan"}
      <4>1. v \in Unit
        BY <1>1, PartsType
      <4>2. v.kind \in {"iface", "vlan"}
        BY <4>1 DEF Unit
      <4> QED
        BY <4>1, <4>2 DEF PlainUnits
    <3>2. Line(v)[1] = v.iface /\ Line(v)[2] = v.vlan
      BY DEF Line
    <3>3. CASE Hit(v)
      <4>1. New(v).kind = "iface" /\ New(v).iface = u.iface /\ New(v).vlan = 0 /\ New(v).addr = u.addr
        BY <3>1, <3>3 DEF Unit
      <4>2. u.addr # NoAddr /\ x = u /\ u.vlan = 0
        BY <1>1, <1>4 DEF FromAddress
      <4> HIDE DEF New, x
      <4>3. Line(New(v)) = Line(x) /\ Tells(New(v))
        BY <4>1, <4>2 DEF Line, Path, FileName
      <4> QED
        BY <1>4, <3>1, <3>2, <3>3, <4>2, <4>3
    <3>4. CASE ~Hit(v)
      BY <1>1, <1>4, <3>1, <3>2, <3>4
    <3> QED
      BY <3>3, <3>4
  <2>5. PICK v0 \in Parts(units) : Hit(v0)
    BY <1>4
  <2> HIDE DEF s, New, Hit, Lost, x
  <2>6. Lines(s) = {Line(y) : y \in {z \in Parts(s) : Tells(z)}}
    BY DEF Lines
  <2>7. Lines(units) = {Line(y) : y \in {z \in Parts(units) : Tells(z)}}
    BY DEF Lines
  <2> HIDE DEF Tells
  <2>8. ASSUME NEW t \in Lines(s) PROVE t = Line(x) \/ (t \in Lines(units) /\ ~Lost(t))
    <3>1. PICK v \in Parts(units) : t = Line(New(v)) /\ Tells(New(v))
      BY <2>3, <2>6
    <3> QED
      BY <2>4, <2>7, <3>1
  <2>9. Line(x) \in Lines(s)
    BY <2>3, <2>4, <2>5, <2>6
  <2>10. ASSUME NEW t \in Lines(units), ~Lost(t) PROVE t \in Lines(s)
    <3>1. PICK v \in Parts(units) : t = Line(v) /\ Tells(v)
      BY <2>7
    <3>2. New(v) = v
      BY <2>4, <2>10, <3>1
    <3> QED
      BY <2>3, <2>6, <3>1, <3>2
  <2>11. Lines(Placed(u)) = {t \in Lines(units) : ~Lost(t)} \cup {Line(x)}
    BY <2>1, <2>8, <2>9, <2>10
  <2> QED
    BY <2>11 DEF Lost, x
<1> QED
  BY <1>1, <1>2, <1>3, <1>4

\* The units for Flatcar and FCOS all say something.
LEMMA AllTell ==
    ASSUME NEW us \in Seq(Unit), PlainUnits(us), variant \in {"flatcar", "fcos"}
    PROVE  /\ Lines(us) = {Line(u) : u \in Parts(us)}
           /\ \A u \in Parts(us) :
                 u \in Unit /\ u.kind \in {"iface", "vlan"} /\ (u.kind = "vlan" <=> u.vlan # 0)
           /\ \A u : Line(u)[2] = u.vlan /\ Line(u)[4] = Path(u)
<1>1. \A u \in Parts(us) : u \in Unit
  BY PartsType
<1>2. \A u \in Parts(us) : u.kind \in {"iface", "vlan"}
  BY <1>1 DEF Unit
<1>3. variant # "talos"
  OBVIOUS
<1>4. \A u \in Parts(us) : (u.kind = "vlan" <=> u.vlan # 0) /\ (u.kind = "vlan" \/ u.addr # NoAddr)
  BY <1>2, <1>3 DEF PlainUnits
<1>5. Lines(us) = {Line(u) : u \in Parts(us)}
  BY <1>4 DEF Lines
<1>6. \A u : Line(u)[2] = u.vlan /\ Line(u)[4] = Path(u)
  BY DEF Line
<1> QED
  BY <1>1, <1>2, <1>4, <1>5, <1>6

\* Paths that stay are those of the units that are kept.
LEMMA RepeatOnly ==
    ASSUME NEW us \in Seq(Unit), PlainUnits(us), variant = "flatcar"
    PROVE  Repeats(Only(us, {v \in Parts(us) : v.kind = "vlan"})) <=> Repeats(us)
<1> DEFINE V == {v \in Parts(us) : v.kind = "vlan"}
           o == Only(us, V)
           Same(u, v) == Path(u) = Path(v) /\ Lasting(u.vlan, v.vlan)
<1>1. PICK h \in [1..Len(o) -> 1..Len(us)] :
         /\ \A i, j \in 1..Len(o) : h[i] = h[j] => i = j
         /\ \A i \in 1..Len(o) : o[i] = us[h[i]] /\ us[h[i]] \in V
         /\ \A k \in 1..Len(us) : us[k] \in V => \E i \in 1..Len(o) : h[i] = k
  <2> HIDE DEF V
  <2> QED
    BY OnlyPlaces
<1>2. ASSUME NEW i \in 1..Len(us), NEW j \in 1..Len(us), Same(us[i], us[j])
      PROVE  us[i] \in V /\ us[j] \in V
  <2>1. us[i] \in Parts(us) /\ us[j] \in Parts(us)
    BY DEF Parts
  <2>2. us[i].vlan # 0 /\ us[j].vlan # 0
    BY <1>2 DEF Lasting
  <2> QED
    BY <2>1, <2>2 DEF PlainUnits
<1>3. \A t : Repeats(t) <=> \E i, j \in 1..Len(t) : i # j /\ Same(t[i], t[j])
  BY DEF Repeats
<1> HIDE DEF o, V, Same
<1>4. ASSUME Repeats(o) PROVE Repeats(us)
  <2>1. PICK i \in 1..Len(o), j \in 1..Len(o) : i # j /\ Same(o[i], o[j])
    BY <1>3, <1>4
  <2>2. h[i] \in 1..Len(us) /\ h[j] \in 1..Len(us) /\ h[i] # h[j] /\ Same(us[h[i]], us[h[j]])
    BY <1>1, <2>1
  <2> QED
    BY <1>3, <2>2
<1>5. ASSUME Repeats(us) PROVE Repeats(o)
  <2>1. PICK i \in 1..Len(us), j \in 1..Len(us) : i # j /\ Same(us[i], us[j])
    BY <1>3, <1>5
  <2>2. us[i] \in V /\ us[j] \in V
    BY <1>2, <2>1
  <2>3. PICK a \in 1..Len(o), b \in 1..Len(o) : h[a] = i /\ h[b] = j
    BY <1>1, <2>2
  <2>4. a # b /\ Same(o[a], o[b])
    BY <1>1, <2>1, <2>3
  <2> QED
    BY <1>3, <2>4
<1> QED
  BY <1>4, <1>5 DEF o, V

\* Whether two units have one path that stays after an address.
LEMMA PlacedRepeats ==
    ASSUME Types, PlainUnits(units), NEW u, FromAddress(u), variant # "talos"
    PROVE  Repeats(Placed(u)) <=>
              \/ Repeats(units)
              \/ \E t \in Lines(units) : t[4] = Path(u) /\ Lasting(t[2], u.vlan)
<1> DEFINE x == Shaped(u)
<1>1. /\ units \in Seq(Unit) /\ variant \in {"flatcar", "fcos"}
      /\ x \in Unit /\ x.vlan = u.vlan /\ Path(x) = Path(u)
      /\ u.kind \in {"iface", "vlan"} /\ (u.kind = "vlan" <=> u.vlan # 0) /\ u \in Unit
      /\ u.kind = "iface" => x = u
  BY ShapedUnit DEF Types, FromAddress
<1>2. /\ Lines(units) = {Line(v) : v \in Parts(units)}
      /\ \A v : Line(v)[2] = v.vlan /\ Line(v)[4] = Path(v)
  BY <1>1, AllTell
<1>3. (\E t \in Lines(units) : t[4] = Path(u) /\ Lasting(t[2], u.vlan)) <=>
      \E v \in Parts(units) : Path(v) = Path(u) /\ Lasting(v.vlan, u.vlan)
  BY <1>2
<1>4. CASE u.kind = "vlan" \/ variant = "fcos"
  <2>1. Placed(u) = Append(units, x)
    BY <1>1, <1>4 DEF Placed, Shaped
  <2> HIDE DEF x
  <2>2. Repeats(Placed(u)) <=>
           Repeats(units) \/ \E v \in Parts(units) : Path(v) = Path(x) /\ Lasting(v.vlan, x.vlan)
    BY <1>1, <2>1, RepeatAppend
  <2> QED
    BY <1>1, <1>3, <2>2
<1>5. CASE u.kind = "iface" /\ variant = "flatcar"
  <2> DEFINE V == {v \in Parts(units) : v.kind = "vlan"}
             o == Only(units, V)
  <2>1. o \in Seq(Unit)
    BY <1>1, LinesOnly
  <2>2. Repeats(o) <=> Repeats(units)
    BY <1>1, <1>5, RepeatOnly
  <2>3. Placed(u) = Append(o, u)
    BY <1>1, <1>5 DEF Placed
  <2>4. \A v : ~Lasting(v, u.vlan)
    BY <1>1, <1>5 DEF Lasting
  <2> HIDE DEF o
  <2>5. Repeats(Placed(u)) <=> Repeats(units)
    BY <1>1, <2>1, <2>2, <2>3, <2>4, RepeatAppend
  <2> QED
    BY <2>4, <2>5
<1> QED
  BY <1>1, <1>4, <1>5

\* An address leaves the units plain, and no interface without its unit.
LEMMA PlacedPlain ==
    ASSUME Types, PlainUnits(units), NEW u, FromAddress(u)
    PROVE  /\ PlainUnits(Placed(u))
           /\ \A I, k : Prepared(units, I, k) => Prepared(Placed(u), I, k)
<1> DEFINE x == Shaped(u)
<1>1. /\ units \in Seq(Unit) /\ variant \in {"flatcar", "fcos", "talos"}
      /\ x \in Unit /\ x.kind = u.kind /\ x.iface = u.iface /\ x.vlan = u.vlan
      /\ u.kind \in {"iface", "vlan"} /\ (u.kind = "vlan" <=> u.vlan # 0)
      /\ x.kind = "vlan" \/ x.addr # NoAddr
      /\ u.kind = "iface" => x = u
      /\ x.kind = "vlan" => x.vname \in STRING
  BY ShapedUnit DEF Types, FromAddress
<1>2. ASSUME NEW us \in Seq(Unit), PlainUnits(us),
             variant = "flatcar" /\ x.kind = "iface" => \A v \in Parts(us) : v.kind # "iface"
      PROVE  PlainUnits(Append(us, x))
  <2> DEFINE t == Append(us, x)
             n == Len(us)
  <2>1. Parts(t) = Parts(us) \cup {x}
    BY <1>1, PartsAppend
  <2>2. n \in Nat /\ Len(t) = n + 1 /\ t[n + 1] = x /\ \A i \in 1..n : t[i] = us[i] /\ us[i] \in Parts(us)
    BY DEF Parts
  <2> HIDE DEF t, x
  <2>3. \A v \in Parts(t) : v.kind = "vlan" <=> v.vlan # 0
    BY <1>1, <1>2, <2>1 DEF PlainUnits
  <2>4. variant # "talos" => \A v \in Parts(t) : v.kind = "iface" => v.addr # NoAddr
    BY <1>1, <1>2, <2>1 DEF PlainUnits
  <2>5. ASSUME variant = "flatcar", NEW i \in 1..Len(t), NEW j \in 1..Len(t),
               t[i].kind = "iface", t[j].kind = "iface"
        PROVE  i = j
    <3>1. (i \in 1..n \/ i = n + 1) /\ (j \in 1..n \/ j = n + 1)
      BY <2>2
    <3>2. CASE i \in 1..n /\ j \in 1..n
      <4>1. us[i].kind = "iface" /\ us[j].kind = "iface"
        BY <2>2, <2>5, <3>2
      <4> QED
        BY <1>2, <2>5, <3>2, <4>1 DEF PlainUnits
    <3>3. CASE i \in 1..n /\ j = n + 1
      BY <1>2, <2>2, <2>5, <3>3
    <3>4. CASE i = n + 1 /\ j \in 1..n
      BY <1>2, <2>2, <2>5, <3>4
    <3> QED
      BY <3>1, <3>2, <3>3, <3>4
  <2>6. \A v \in Parts(t) : v.kind = "vlan" => v.vname \in STRING
    BY <1>1, <1>2, <2>1 DEF PlainUnits
  <2> QED
    BY <2>3, <2>4, <2>5, <2>6 DEF PlainUnits, t
<1>3. CASE u.kind = "vlan" \/ variant = "fcos"
  <2>1. Placed(u) = Append(units, x)
    BY <1>1, <1>3 DEF Placed, Shaped
  <2> HIDE DEF x
  <2>2. ~(variant = "flatcar" /\ x.kind = "iface")
    BY <1>1, <1>3
  <2>3. PlainUnits(Placed(u))
    BY <1>1, <1>2, <2>1, <2>2
  <2>4. Parts(units) \subseteq Parts(Placed(u))
    BY <1>1, <2>1, PartsAppend
  <2> QED
    BY <2>3, <2>4 DEF Prepared
<1>4. CASE u.kind = "iface" /\ variant = "flatcar"
  <2> DEFINE V == {v \in Parts(units) : v.kind = "vlan"}
             o == Only(units, V)
  <2>1. o \in Seq(Unit) /\ Parts(o) = V
    BY <1>1, LinesOnly
  <2>2. Placed(u) = Append(o, x)
    BY <1>1, <1>4 DEF Placed
  <2> HIDE DEF o, x
  <2>3. \A i \in 1..Len(o) : o[i].kind # "iface"
    <3> SUFFICES ASSUME NEW i \in 1..Len(o) PROVE o[i].kind # "iface"
      OBVIOUS
    <3>1. o[i] \in Parts(o)
      BY DEF Parts
    <3> QED
      BY <2>1, <3>1
  <2>4. PlainUnits(o)
    BY <2>1, <2>3 DEF PlainUnits
  <2>5. PlainUnits(Placed(u))
    BY <1>1, <1>2, <2>1, <2>2, <2>4
  <2> QED
    BY <1>4, <2>5 DEF Prepared
<1>5. CASE u.kind = "iface" /\ variant = "talos"
  <2> DEFINE n == Len(units)
             Hit(v) == v.kind = "iface" /\ v.iface = u.iface
             New(v) == IF Hit(v) THEN [v EXCEPT !.addr = u.addr] ELSE v
             s == [i \in 1..n |-> New(units[i])]
  <2>1. Placed(u) = s
    BY <1>1, <1>5 DEF Placed
  <2>2. n \in Nat /\ Len(s) = n /\ \A i \in 1..n : s[i] = New(units[i])
    BY <1>1
  <2>3. \A v \in Unit : New(v).kind = v.kind /\ New(v).iface = v.iface /\ New(v).vlan = v.vlan
                        /\ New(v).vname = v.vname
    BY DEF Unit
  <2> HIDE DEF New, s
  <2>4. Parts(s) = {New(v) : v \in Parts(units)}
    BY <2>2 DEF Parts
  <2>5. Parts(units) \subseteq Unit
    BY <1>1, PartsType
  <2>6. \A v \in Parts(s) : v.kind = "vlan" <=> v.vlan # 0
    <3> SUFFICES ASSUME NEW v \in Parts(units) PROVE New(v).kind = "vlan" <=> New(v).vlan # 0
      BY <2>4
    <3>1. v.kind = "vlan" <=> v.vlan # 0
      BY DEF PlainUnits
    <3> QED
      BY <2>3, <2>5, <3>1
  <2>7. \A v \in Parts(s) : v.kind = "vlan" => v.vname \in STRING
    BY <2>3, <2>4, <2>5 DEF PlainUnits
  <2>8. PlainUnits(s)
    BY <1>5, <2>6, <2>7 DEF PlainUnits
  <2>9. ASSUME NEW I, NEW k, Prepared(units, I, k) PROVE Prepared(s, I, k)
    <3> SUFFICES ASSUME NEW j \in 1..k PROVE \E v \in Parts(s) : v.kind = "iface" /\ v.iface = I[j].name
      BY DEF Prepared
    <3>1. PICK v \in Parts(units) : v.kind = "iface" /\ v.iface = I[j].name
      BY <1>5, <2>9 DEF Prepared
    <3> QED
      BY <2>3, <2>4, <2>5, <3>1
  <2> QED
    BY <2>1, <2>8, <2>9
<1> QED
  BY <1>1, <1>3, <1>4, <1>5

\* One address more, and the units are still what the places call for.
LEMMA AgreesPlaced ==
    ASSUME IfacesApart, Types, PlainUnits(units), NEW dev \in DeviceIds,
           NEW P \in SUBSET Places(dev), NEW p \in Places(dev),
           \A q \in P : q[1] < p[1] \/ (q[1] = p[1] /\ q[2] < p[2]),
           Prepared(units, Inv.ifaces[dev], p[1]),
           Agrees(dev, P, units),
           NEW u, FromAddress(u), u.vlan = VlanAt(dev, p), u.iface = Inv.ifaces[dev][p[1]].name,
           Path(u) = FileAt(dev, p), Line(Shaped(u)) = ExpectedAddress(dev, p)
    PROVE  Agrees(dev, P \cup {p}, Placed(u))
<1> DEFINE name == Inv.ifaces[dev][p[1]].name
           Lost(t) == /\ variant # "fcos" /\ t[2] = 0 /\ u.vlan = 0
                      /\ variant = "flatcar" \/ t[1] = name
           E == ExpectedAddresses(dev, P)
<1>1. Lines(units) = E /\ (Repeats(units) <=> Repeat(dev, P))
  BY DEF Agrees
<1>2. ExpectedAddresses(dev, P \cup {p}) = {t \in E : ~Lost(t)} \cup {ExpectedAddress(dev, p)}
  <2> DEFINE Gone(t) == /\ variant # "fcos" /\ t[2] = 0 /\ VlanAt(dev, p) = 0
                        /\ variant = "flatcar" \/ t[1] = name
  <2>1. \A t : Lost(t) <=> Gone(t)
    OBVIOUS
  <2>2. ExpectedAddresses(dev, P \cup {p}) = {t \in E : ~Gone(t)} \cup {ExpectedAddress(dev, p)}
    BY ExpectedStep
  <2> HIDE DEF Lost, Gone, E
  <2> QED
    BY <2>1, <2>2
<1>3. variant = "talos" /\ u.kind = "iface" => \E v \in Parts(units) : v.kind = "iface" /\ v.iface = u.iface
  <2>1. p[1] \in 1..p[1]
    <3>1. p[1] \in 1..Len(Inv.ifaces[dev]) /\ Inv.ifaces[dev] \in Seq(AllIfaces)
      BY PlacesTypes
    <3>2. p[1] \in Nat /\ p[1] >= 1
      BY <3>1
    <3> QED
      BY <3>2
  <2> QED
    BY <2>1 DEF Prepared
<1>4. Lines(Placed(u)) = {t \in Lines(units) : ~Lost(t)} \cup {Line(Shaped(u))}
  BY <1>3, PlacedLines
<1>5. Lines(Placed(u)) = ExpectedAddresses(dev, P \cup {p})
  <2> HIDE DEF Lost, E
  <2> QED
    BY <1>1, <1>2, <1>4
<1>6. CASE variant = "talos"
  BY <1>5, <1>6 DEF Agrees, Repeats, Repeat, Lasting
<1>7. CASE variant # "talos"
  <2> DEFINE Taken(T) == \E t \in T : t[4] = Path(u) /\ Lasting(t[2], u.vlan)
  <2>1. Repeat(dev, P \cup {p}) <=> Repeat(dev, P) \/ Taken(E)
    BY <1>7, RepeatStep
  <2>2. Repeats(Placed(u)) <=> Repeats(units) \/ Taken(Lines(units))
    BY <1>7, PlacedRepeats
  <2> HIDE DEF Taken, E
  <2> QED
    BY <1>1, <1>5, <2>1, <2>2 DEF Agrees
<1> QED
  BY <1>6, <1>7

\* In the end: which units have one path, which places.
LEMMA AgreesInTheEnd ==
    ASSUME NEW us \in Seq(Unit), PlainUnits(us), variant \in {"flatcar", "fcos", "talos"},
           NEW dev, NEW P \in SUBSET (Nat \X Nat), Agrees(dev, P, us)
    PROVE  Settled(dev, P, us)
<1>1. CASE variant = "talos"
  BY <1>1 DEF Agrees, Settled, Clashing, Clash
<1>2. CASE variant = "fcos"
  BY <1>2 DEF Agrees, Settled, Clashing, Clash, Repeats, Repeat, Lasting
<1>3. CASE variant = "flatcar"
  <2> DEFINE U == Used(dev, P)
             Mixed(T) == \E s, t \in T : s[2] = 0 /\ t[2] # 0 /\ s[4] = t[4]
  <2>1. Clash(dev, P) <=> Repeat(dev, P) \/ Mixed(ExpectedAddresses(dev, P))
    <3>1. \A q \in U : ExpectedAddress(dev, q)[4] = FileAt(dev, q) /\ ExpectedAddress(dev, q)[2] = VlanAt(dev, q)
      BY DEF ExpectedAddress
    <3>2. Clash(dev, P) <=> \E p, q \in U : p # q /\ FileAt(dev, p) = FileAt(dev, q)
      BY <1>3 DEF Clash
    <3>3. Repeat(dev, P) <=> \E p, q \in U : /\ p # q /\ FileAt(dev, p) = FileAt(dev, q)
                                             /\ VlanAt(dev, p) # 0 /\ VlanAt(dev, q) # 0
      BY <1>3 DEF Repeat, Lasting
    <3>4. \A p, q \in U : VlanAt(dev, p) = 0 /\ VlanAt(dev, q) = 0 => p = q
      BY <1>3, OnePlainPlace
    <3> HIDE DEF U
    <3>5. ExpectedAddresses(dev, P) = {ExpectedAddress(dev, q) : q \in U}
      BY DEF ExpectedAddresses, U
    <3>6. Mixed(ExpectedAddresses(dev, P)) <=>
             \E p, q \in U : VlanAt(dev, p) = 0 /\ VlanAt(dev, q) # 0 /\ FileAt(dev, p) = FileAt(dev, q)
      BY <3>1, <3>5
    <3> QED
      BY <3>2, <3>3, <3>4, <3>6
  <2>2. Clashing(us) <=> Repeats(us) \/ Mixed(Lines(us))
    <3> DEFINE I == 1..Len(us)
    <3>1. /\ Lines(us) = {Line(u) : u \in Parts(us)}
          /\ \A u : Line(u)[2] = u.vlan /\ Line(u)[4] = Path(u)
          /\ \A u \in Parts(us) : u.kind \in {"iface", "vlan"} /\ (u.kind = "vlan" <=> u.vlan # 0)
      BY <1>3, AllTell
    <3>2. Parts(us) = {us[i] : i \in I}
      BY DEF Parts
    <3>3. Clashing(us) <=> \E i, j \in I : i # j /\ Path(us[i]) = Path(us[j])
      BY <1>3 DEF Clashing
    <3>4. Repeats(us) <=> \E i, j \in I : i # j /\ Path(us[i]) = Path(us[j]) /\ us[i].vlan # 0 /\ us[j].vlan # 0
      BY <1>3 DEF Repeats, Lasting
    <3>5. \A i, j \in I : us[i].kind = "iface" /\ us[j].kind = "iface" => i = j
      BY <1>3 DEF PlainUnits
    <3> HIDE DEF I
    <3>6. \A i, j \in I : us[i].vlan = 0 /\ us[j].vlan = 0 => i = j
      BY <3>1, <3>2, <3>5
    <3>7. Mixed(Lines(us)) <=> \E i, j \in I : us[i].vlan = 0 /\ us[j].vlan # 0 /\ Path(us[i]) = Path(us[j])
      <4>1. Mixed(Lines(us)) <=> \E u, v \in Parts(us) : u.vlan = 0 /\ v.vlan # 0 /\ Path(u) = Path(v)
        <5> HIDE DEF I
        <5> QED
          BY <3>1
      <4> QED
        BY <3>2, <4>1
    <3> QED
      BY <3>3, <3>4, <3>6, <3>7
  <2> HIDE DEF Mixed
  <2> QED
    BY <2>1, <2>2 DEF Agrees, Settled
<1> QED
  BY <1>1, <1>2, <1>3

\* The unit Flatcar adds for want of an interface changes nothing of that.
LEMMA SettledCompleted ==
    ASSUME Types, PlainUnits(units), NEW dev, NEW P \in SUBSET (Nat \X Nat), Agrees(dev, P, units)
    PROVE  Settled(dev, P, Completed)
<1> DEFINE x == [kind |-> "iface", iface |-> NoIface, vlan |-> 0, vname |-> NoName, addr |-> NoAddr,
                 routed |-> FALSE]
           n == Len(units)
<1>1. x \in Unit /\ x.kind = "iface" /\ x.addr = NoAddr /\ x.vlan = 0 /\ x.iface = NoIface
  BY DEF Unit
<1>2. units \in Seq(Unit) /\ Settled(dev, P, units)
  BY AgreesInTheEnd DEF Types
<1>3. CASE variant = "flatcar" /\ \A i \in 1..Len(units) : units[i].kind = "vlan"
  <2>1. Completed = Append(units, x)
    BY <1>3 DEF Completed
  <2> HIDE DEF x
  <2>2. Path(x) = NoIface
    BY <1>1 DEF Path, FileName
  <2>3. Lines(Completed) = Lines(units)
    BY <1>1, <1>2, <2>1, LinesAppend
  <2>4. ASSUME NEW i \in 1..n PROVE Path(units[i]) # Path(x)
    <3>1. units[i] \in Unit /\ units[i] \in Parts(units) /\ units[i].kind = "vlan"
      BY <1>2, <1>3 DEF Parts
    <3>2. units[i].vlan # 0 /\ units[i].vname \in STRING
      BY <3>1 DEF PlainUnits
    <3>3. Path(units[i]) = units[i].vname
      BY <1>3, <3>2 DEF Path, FileName
    <3> QED
      BY <2>2, <3>2, <3>3, RenderingAssumption
  <2> DEFINE t == Append(units, x)
  <2>5. n \in Nat /\ Len(t) = n + 1 /\ t[n + 1] = x /\ \A i \in 1..n : t[i] = units[i]
    BY <1>1, <1>2
  <2> HIDE DEF t
  <2>6. ASSUME NEW i \in 1..(n + 1), NEW j \in 1..(n + 1), i # j, Path(t[i]) = Path(t[j])
        PROVE  i \in 1..n /\ j \in 1..n
    <3>1. (i \in 1..n \/ i = n + 1) /\ (j \in 1..n \/ j = n + 1)
      BY <2>5
    <3> QED
      BY <2>4, <2>5, <2>6, <3>1
  <2>7. \A i \in 1..n : i \in 1..(n + 1)
    BY <2>5
  <2>8. Clashing(t) <=> Clashing(units)
    BY <2>5, <2>6, <2>7 DEF Clashing
  <2> QED
    BY <1>2, <2>1, <2>3, <2>8 DEF Settled, t
<1>4. CASE ~(variant = "flatcar" /\ \A i \in 1..Len(units) : units[i].kind = "vlan")
  <2>1. Completed = units
    BY <1>4 DEF Completed
  <2> QED
    BY <1>2, <2>1
<1> QED
  BY <1>3, <1>4

\* The reference of a device depends on the inventory and the variant only.
LEMMA SameReference ==
    ASSUME UNCHANGED <<nb, variant>>
    PROVE  /\ Inv' = Inv
           /\ \A dev : Places(dev)' = Places(dev)
           /\ \A dev : Fits(dev)' <=> Fits(dev)
           /\ \A dev, P : ExpectedAddresses(dev, P)' = ExpectedAddresses(dev, P)
           /\ \A dev, P : Clash(dev, P)' <=> Clash(dev, P)
           /\ \A dev, P : Repeat(dev, P)' <=> Repeat(dev, P)
           /\ \A us : Lines(us)' = Lines(us)
           /\ \A us : Clashing(us)' <=> Clashing(us)
           /\ \A us : Repeats(us)' <=> Repeats(us)
<1>1. Inv' = Inv
  BY DEF Inv
<1>2. \A dev, p : AddrAt(dev, p)' = AddrAt(dev, p)
  BY <1>1 DEF AddrAt
<1>3. \A dev, p : VlanAt(dev, p)' = VlanAt(dev, p)
  BY <1>1, <1>2 DEF VlanAt
<1>4. \A i, v, n : FileName(i, v, n)' = FileName(i, v, n)
  BY DEF FileName
<1>5. \A dev, p : FileAt(dev, p)' = FileAt(dev, p)
  BY <1>1, <1>2, <1>3, <1>4 DEF FileAt
<1>6. \A dev, p : ExpectedAddress(dev, p)' = ExpectedAddress(dev, p)
  BY <1>1, <1>2, <1>3, <1>5 DEF ExpectedAddress
<1>7. \A dev : Places(dev)' = Places(dev)
  BY <1>1, <1>2 DEF Places
<1>8. \A dev, P, p : Deciding(dev, P, p)' <=> Deciding(dev, P, p)
  BY <1>3 DEF Deciding, IsLast
<1>9. \A dev, P : Used(dev, P)' = Used(dev, P)
  BY <1>3, <1>8 DEF Used
<1>10. \A dev, P : ExpectedAddresses(dev, P)' = ExpectedAddresses(dev, P)
  BY <1>6, <1>9 DEF ExpectedAddresses
<1>11. \A v, w : Lasting(v, w)' <=> Lasting(v, w)
  BY DEF Lasting
<1>12. \A dev, P : (Clash(dev, P)' <=> Clash(dev, P)) /\ (Repeat(dev, P)' <=> Repeat(dev, P))
  BY <1>3, <1>5, <1>9, <1>11 DEF Clash, Repeat
<1>13. \A u : Path(u)' = Path(u)
  BY <1>4 DEF Path
<1>14. \A us : Lines(us)' = Lines(us)
  BY <1>13 DEF Lines, Line
<1>15. \A us : (Clashing(us)' <=> Clashing(us)) /\ (Repeats(us)' <=> Repeats(us))
  BY <1>11, <1>13 DEF Clashing, Repeats
<1>16. \A dev : Fits(dev)' <=> Fits(dev)
  BY <1>1 DEF Fits
<1> QED
  BY <1>1, <1>7, <1>10, <1>12, <1>14, <1>15, <1>16

\* So does whether units, documents and files are right.
LEMMA SameAgreement ==
    ASSUME UNCHANGED <<nb, variant>>
    PROVE  /\ \A dev, P, us : Agrees(dev, P, us)' <=> Agrees(dev, P, us)
           /\ \A L, D, T : Ahead(L, D, T)' <=> Ahead(L, D, T)
           /\ \A L, D, F : Behind(L, D, F)' <=> Behind(L, D, F)
           /\ \A dev, ii, c, aa, us, k, m :
                 Rendered(dev, ii, c, aa, us, k, m)' <=> Rendered(dev, ii, c, aa, us, k, m)
<1>1. \A dev, P, us : Agrees(dev, P, us)' <=> Agrees(dev, P, us)
  BY SameReference DEF Agrees
<1>2. \A doc, r : DocRight(doc, r)' <=> DocRight(doc, r)
  <2> SUFFICES ASSUME NEW doc, NEW r PROVE DocRight(doc, r)' <=> DocRight(doc, r)
    OBVIOUS
  <2> DEFINE P == Places(r.id)
  <2>1. Places(r.id)' = P
    BY SameReference
  <2>2. /\ ExpectedAddresses(r.id, Places(r.id))' = ExpectedAddresses(r.id, P)
        /\ Clash(r.id, Places(r.id))' <=> Clash(r.id, P)
    BY <2>1, SameReference
  <2> QED
    BY <2>1, <2>2, SameReference DEF DocRight, Settled
<1>3. \A file, r : FileRight(file, r)' <=> FileRight(file, r)
  BY SameReference DEF FileRight
<1>4. \A L, D, T : Ahead(L, D, T)' <=> Ahead(L, D, T)
  BY <1>2 DEF Ahead
<1>5. \A L, D, F : Behind(L, D, F)' <=> Behind(L, D, F)
  BY <1>2, <1>3 DEF Behind
<1>6. ASSUME NEW dev, NEW ii, NEW c, NEW aa, NEW us, NEW k, NEW m
      PROVE  Rendered(dev, ii, c, aa, us, k, m)' <=> Rendered(dev, ii, c, aa, us, k, m)
  <2>1. Handled(dev, k, m)' = Handled(dev, k, m)
    BY SameReference DEF Handled
  <2>2. Agrees(dev, Handled(dev, k, m), us)' <=> Agrees(dev, Handled(dev, k, m), us)
    BY <1>1, <2>1
  <2>3. PlainUnits(us)' <=> PlainUnits(us)
    BY DEF PlainUnits
  <2>4. Inv' = Inv
    BY SameReference
  <2> QED
    BY <2>2, <2>3, <2>4 DEF Rendered, Prepared
<1> QED
  BY <1>1, <1>4, <1>5, <1>6

\* What an address leads to if nothing fails.
LEMMA RenderQuietly ==
    ASSUME Types, RenderAddress, faults' = faults
    PROVE  \/ Ends("panic")
           \/ /\ adr' = Tail(adr)
              /\ UNCHANGED <<pc, exit, ids, todo, ifs, cur, docs, errs, out, refused>>
              /\ \/ Inv.prefix[adr[1].addr] = -1 /\ units' = units
                 \/ /\ Inv.prefix[adr[1].addr] \in Nat
                    /\ \E u :
                          /\ FromAddress(u) /\ u.iface = cur.name
                          /\ u.vlan = IF Inv.prefix[adr[1].addr] \in cur.tagged THEN Inv.prefix[adr[1].addr] ELSE 0
                          /\ u.addr = IF variant # "talos" /\ u.vlan = 0 /\ adr[1].dhcp THEN Dhcp ELSE adr[1].addr
                          /\ Path(u) = FileName(cur.name, u.vlan, Inv.vname[adr[1].addr])
                          /\ units' = Placed(u)
<1> DEFINE a    == adr[1]
           v    == Inv.prefix[a.addr]
           vlan == v > 0 /\ IsTagged(v)
           u    == [kind |-> IF vlan THEN "vlan" ELSE "iface", iface |-> cur.name,
                    vlan |-> IF vlan THEN v ELSE 0,
                    vname |-> IF vlan THEN Inv.vname[a.addr] ELSE NoName,
                    addr |-> IF ~vlan /\ variant # "talos" /\ a.dhcp THEN Dhcp ELSE a.addr,
                    routed |-> FALSE]
           u2   == [u EXCEPT !.routed = LooksUp(u)]
           Suits(x) == /\ FromAddress(x) /\ x.iface = cur.name
                       /\ x.vlan = IF v \in cur.tagged THEN v ELSE 0
                       /\ x.addr = IF variant # "talos" /\ x.vlan = 0 /\ a.dhcp THEN Dhcp ELSE a.addr
                       /\ Path(x) = FileName(cur.name, x.vlan, Inv.vname[a.addr])
<1>1. ~SpendFault
  BY DEF SpendFault, Types
<1>2. a \in AllAddresses /\ a \in AddressRecord
  <2>1. adr \in Seq(AllAddresses) /\ adr # <<>>
    BY DEF Types, RenderAddress
  <2> QED
    BY <2>1, PartsTail, RecordTypes
<1>3. v \in Nat \cup {-1} /\ Inv.vname[a.addr] \in STRING
  BY <1>2, RenderingAssumption DEF Types, Inv
<1>4. cur \in IfaceRecord
  BY RecordTypes DEF Types, RenderAddress
<1>5. /\ u.kind = (IF vlan THEN "vlan" ELSE "iface") /\ u.iface = cur.name
      /\ u.vlan = (IF vlan THEN v ELSE 0) /\ u.vname = (IF vlan THEN Inv.vname[a.addr] ELSE NoName)
      /\ u.addr = (IF ~vlan /\ variant # "talos" /\ a.dhcp THEN Dhcp ELSE a.addr)
      /\ u.routed = FALSE
  OBVIOUS
<1>6. u = [kind |-> u.kind, iface |-> u.iface, vlan |-> u.vlan, vname |-> u.vname, addr |-> u.addr,
           routed |-> u.routed]
  OBVIOUS
<1>7. cur.name \in STRING /\ a.addr \in STRING
  BY <1>2, <1>4 DEF IfaceRecord, AddressRecord
<1>8. vlan <=> v > 0 /\ v \in cur.tagged
  BY DEF IsTagged
<1> HIDE DEF u, vlan, v, a
<1>9. u \in Unit
  <2>1. u.routed \in BOOLEAN
    BY <1>5, Zenon
  <2>2. u.vlan \in Nat
    BY <1>3, <1>5, <1>8
  <2>3. u.addr \in STRING \cup {NoAddr, Dhcp}
    BY <1>5, <1>7
  <2>4. u.kind \in {"iface", "vlan"} /\ u.iface \in STRING \cup {NoIface}
    BY <1>5, <1>7
  <2>5. u.vname \in STRING \cup {NoName}
    BY <1>3, <1>5
  <2> QED
    BY <1>6, <2>1, <2>2, <2>3, <2>4, <2>5 DEF Unit
<1>10. v >= 0 => Suits(u)
  <2> SUFFICES ASSUME v >= 0 PROVE Suits(u)
    OBVIOUS
  <2>1. v \in Nat
    BY <1>3
  <2>2. (u.vlan = IF v \in cur.tagged THEN v ELSE 0) /\ (vlan <=> u.vlan # 0)
    BY <1>5, <1>8, <2>1
  <2>3. u.kind = "vlan" <=> u.vlan # 0
    BY <1>5, <2>2
  <2>4. u.addr = IF variant # "talos" /\ u.vlan = 0 /\ a.dhcp THEN Dhcp ELSE a.addr
    BY <1>5, <2>2
  <2>5. u.addr # NoAddr
    BY <1>5, <1>7, RenderingAssumption
  <2>6. vlan => u.vname \in STRING
    BY <1>3, <1>5
  <2>7. Path(u) = FileName(cur.name, u.vlan, Inv.vname[a.addr])
    BY <1>5, <2>2 DEF Path, FileName
  <2> QED
    BY <1>5, <1>9, <2>2, <2>3, <2>4, <2>5, <2>6, <2>7 DEF FromAddress
<1>11. v >= 0 => Suits(u2)
  <2>1. LooksUp(u) \in BOOLEAN
    BY Zenon DEF LooksUp
  <2>2. u2 \in Unit /\ u2.iface = u.iface /\ u2.kind = u.kind /\ u2.addr = u.addr /\ u2.vlan = u.vlan
        /\ u2.vname = u.vname
    BY <1>9, <2>1 DEF Unit
  <2> HIDE DEF u2
  <2>3. Path(u2) = Path(u)
    BY <2>2 DEF Path
  <2> QED
    BY <1>10, <2>2, <2>3 DEF FromAddress
<1>12. \/ Ends("panic")
       \/ /\ adr' = Tail(adr)
          /\ UNCHANGED <<pc, exit, ids, todo, ifs, cur, docs, errs, out, refused>>
          /\ \/ v = -1 /\ units' = units
             \/ v >= 0 /\ units' = Placed(u2)
  <2> HIDE DEF u2, Suits
  <2> QED
    BY <1>1 DEF RenderAddress, u, u2, v, a, vlan
<1>13. v >= 0 => v \in Nat
  BY <1>3
<1> HIDE DEF u2
<1> QED
  BY <1>11, <1>12, <1>13 DEF v, a

\* The current device.
LEMMA CurrentType ==
    ASSUME Types, todo # <<>>
    PROVE  Current \in AllDevices /\ Current.id \in DeviceIds
<1>1. todo[1] \in AllDevices
  BY PartsTail DEF Types
<1> QED
  BY <1>1, RecordTypes DEF Current

\* Nothing is rendered yet.
LEMMA RenderedFirst ==
    ASSUME Types, NEW dev \in DeviceIds
    PROVE  Rendered(dev, Inv.ifaces[dev], NoIface, <<>>, <<>>, 0, 0)
<1> DEFINE I == Inv.ifaces[dev]
<1>1. I \in Seq(AllIfaces) /\ Places(dev) \subseteq Nat \X Nat
  BY PlacesTypes
<1>2. \A p \in Places(dev) : p[1] \in Nat /\ p[1] >= 1
  BY <1>1, PlacesTypes
<1> HIDE DEF I
<1>3. Remains(I, I, 0)
  BY <1>1 DEF Remains
<1>4. Handled(dev, 0, 0) = {}
  BY <1>1, <1>2 DEF Handled
<1>5. Parts(<<>>) = {} /\ Len(<<>>) = 0
  BY PartsEmpty
<1>6. PlainUnits(<<>>)
  BY <1>5 DEF PlainUnits
<1>7. Prepared(<<>>, I, 0)
  BY DEF Prepared
<1>8. Used(dev, {}) = {}
  BY DEF Used
<1>9. Agrees(dev, {}, <<>>)
  BY <1>5, <1>8 DEF Agrees, Lines, ExpectedAddresses, Repeats, Repeat
<1> QED
  BY <1>3, <1>4, <1>6, <1>7, <1>9 DEF Rendered, I

\* One interface more: its addresses are still to come, except that Talos
\* ignores those of an interface that is tagged for DHCP.
LEMMA RenderedIface ==
    ASSUME Types, NEW dev \in DeviceIds, Fits(dev), NEW k \in Nat, NEW m \in Nat,
           Rendered(dev, ifs, cur, <<>>, units, k, m), ifs # <<>>,
           NEW aa, aa = IF variant = "talos" /\ ifs[1].dhcp THEN <<>> ELSE Page(Inv.addrs[ifs[1].id]),
           NEW us, us = IF variant # "talos" THEN units
                        ELSE Append(units, [kind |-> "iface", iface |-> ifs[1].name, vlan |-> 0, vname |-> NoName,
                                            addr |-> NoAddr, routed |-> FALSE])
    PROVE  \E l \in Nat : Rendered(dev, Tail(ifs), ifs[1], aa, us, k + 1, l)
<1> DEFINE I == Inv.ifaces[dev]
           c == ifs[1]
           A == Inv.addrs[c.id]
           l == IF variant = "talos" /\ c.dhcp THEN Len(A) ELSE 0
<1>1. I \in Seq(AllIfaces) /\ Places(dev) \subseteq Nat \X Nat
  BY PlacesTypes
<1>2. ifs \in Seq(AllIfaces) /\ c \in AllIfaces /\ c.id \in IfaceIds /\ units \in Seq(Unit) /\ c.name \in STRING
  <2>1. ifs \in Seq(AllIfaces) /\ units \in Seq(Unit)
    BY DEF Types
  <2>2. c \in AllIfaces
    BY <2>1, PartsTail
  <2>3. c.id \in IfaceIds /\ c \in IfaceRecord
    BY <2>2, RecordTypes
  <2> QED
    BY <2>1, <2>2, <2>3 DEF IfaceRecord
<1>3. A \in Seq(AllAddresses)
  BY <1>2, InventoryTypes DEF Types, Inv
<1>4. l \in Nat
  BY <1>3
<1>5. Remains(ifs, I, k)
  BY DEF Rendered
<1> HIDE DEF I
<1>6. k + 1 \in 1..Len(I) /\ c = I[k + 1] /\ Remains(Tail(ifs), I, k + 1)
  <2> DEFINE n == Len(Tail(ifs))
  <2>1. n \in Nat /\ Len(ifs) = n + 1 /\ \A j \in 1..n : Tail(ifs)[j] = ifs[j + 1]
    BY <1>2
  <2>2. k + (n + 1) = Len(I) /\ \A j \in 1..(n + 1) : ifs[j] = I[k + j]
    BY <1>5, <2>1 DEF Remains
  <2> HIDE DEF n
  <2>3. k + 1 \in 1..Len(I) /\ c = I[k + 1]
    BY <2>1, <2>2
  <2>4. ASSUME NEW j \in 1..n PROVE Tail(ifs)[j] = I[(k + 1) + j]
    <3>1. j + 1 \in 1..(n + 1) /\ k + (j + 1) = (k + 1) + j
      BY <2>1
    <3> QED
      BY <2>1, <2>2, <3>1
  <2>5. (k + 1) + n = Len(I)
    BY <2>1, <2>2
  <2>6. Remains(Tail(ifs), I, k + 1)
    BY <2>4, <2>5 DEF Remains, n
  <2> QED
    BY <2>3, <2>6
<1>7. Remains(aa, A, l) /\ (variant = "talos" => (c.dhcp => aa = <<>>))
  <2>1. CASE variant = "talos" /\ c.dhcp
    <3>1. aa = <<>> /\ l = Len(A) /\ Len(aa) = 0
      BY <2>1
    <3> HIDE DEF A, l
    <3> QED
      BY <1>3, <3>1 DEF Remains
  <2>2. CASE ~(variant = "talos" /\ c.dhcp)
    <3>1. aa = A /\ l = 0
      <4>1. Len(A) <= PageSize
        BY <1>6 DEF Fits, I
      <4>2. Page(A) = A
        <5> HIDE DEF A
        <5> QED
          BY <1>3, <4>1, PageParts
      <4>3. aa = Page(A) /\ l = 0
        BY <2>2
      <4> HIDE DEF A, l
      <4> QED
        BY <4>2, <4>3
    <3> HIDE DEF A, l
    <3>2. Remains(aa, A, l)
      BY <1>3, <3>1 DEF Remains
    <3> QED
      BY <2>2, <3>2
  <2> QED
    BY <2>1, <2>2
<1>8. Handled(dev, k + 1, l) = Handled(dev, k, m)
  <2>1. ASSUME NEW p \in Places(dev)
        PROVE  (p[1] < k + 1 \/ (p[1] = k + 1 /\ p[2] <= l)) <=> (p[1] < k \/ (p[1] = k /\ p[2] <= m))
    <3>1. p[1] \in Nat /\ p[2] \in Nat /\ p[1] >= 1
      <4>1. p \in Nat \X Nat /\ p[1] \in 1..Len(I)
        BY <1>1, PlacesTypes DEF I
      <4> QED
        BY <1>1, <4>1
    <3>2. p[2] \in 1..Len(Inv.addrs[I[p[1]].id]) /\ ~(variant = "talos" /\ I[p[1]].dhcp)
      BY DEF Places, I
    <3>3. p[1] = k => p[2] <= m
      <4> SUFFICES ASSUME p[1] = k PROVE p[2] <= m
        OBVIOUS
      <4>1. k > 0 /\ cur = I[k] /\ Remains(<<>>, Inv.addrs[cur.id], m)
        BY <3>1 DEF Rendered, I
      <4>2. Len(Inv.addrs[I[k].id]) = m
        BY <4>1 DEF Remains
      <4> QED
        BY <3>1, <3>2, <4>2
    <3>4. p[1] = k + 1 => ~(p[2] <= l)
      <4> SUFFICES ASSUME p[1] = k + 1 PROVE ~(p[2] <= l)
        OBVIOUS
      <4>1. l = 0
        BY <1>6, <3>2
      <4>2. p[2] >= 1
        <5> HIDE DEF A, c
        <5>1. p[2] \in 1..Len(A)
          BY <1>6, <3>2 DEF A
        <5> QED
          BY <1>3, <3>1, <5>1
      <4> QED
        BY <3>1, <4>1, <4>2
    <3> HIDE DEF l
    <3> QED
      BY <1>4, <3>1, <3>3, <3>4
  <2> HIDE DEF l
  <2> QED
    BY <2>1 DEF Handled
<1>9. PlainUnits(units) /\ Prepared(units, I, k) /\ Agrees(dev, Handled(dev, k, m), units)
  BY DEF Rendered, I
<1>10. PlainUnits(us) /\ Prepared(us, I, k + 1) /\ Agrees(dev, Handled(dev, k, m), us)
  <2>1. CASE variant # "talos"
    BY <1>9, <2>1 DEF Prepared
  <2>2. CASE variant = "talos"
    <3> DEFINE x == [kind |-> "iface", iface |-> c.name, vlan |-> 0, vname |-> NoName, addr |-> NoAddr,
                   routed |-> FALSE]
    <3>1. x \in Unit /\ x.kind = "iface" /\ x.iface = c.name /\ x.vlan = 0 /\ x.addr = NoAddr
      BY <1>2 DEF Unit
    <3>2. us = Append(units, x)
      BY <2>2
    <3> HIDE DEF x, c
    <3>3. Parts(us) = Parts(units) \cup {x}
      BY <1>2, <3>1, <3>2, PartsAppend
    <3>4. PlainUnits(us)
      BY <1>9, <2>2, <3>1, <3>3 DEF PlainUnits
    <3>5. Prepared(us, I, k + 1)
      <4> SUFFICES ASSUME NEW j \in 1..(k + 1) PROVE \E v \in Parts(us) : v.kind = "iface" /\ v.iface = I[j].name
        BY DEF Prepared
      <4>1. CASE j = k + 1
        BY <1>6, <3>1, <3>3, <4>1
      <4>2. CASE j \in 1..k
        BY <1>9, <2>2, <3>3, <4>2 DEF Prepared
      <4>3. j = k + 1 \/ j \in 1..k
        OBVIOUS
      <4> QED
        BY <4>1, <4>2, <4>3
    <3>6. Lines(us) = Lines(units)
      BY <1>2, <3>1, <3>2, LinesAppend
    <3>7. Agrees(dev, Handled(dev, k, m), us)
      BY <1>9, <2>2, <3>6 DEF Agrees, Repeats, Lasting
    <3> QED
      BY <3>4, <3>5, <3>7
  <2> QED
    BY <2>1, <2>2
<1>11. Rendered(dev, Tail(ifs), c, aa, us, k + 1, l)
  <2> HIDE DEF l, c, A
  <2>1. k + 1 > 0 /\ k + 1 # 0
    OBVIOUS
  <2> QED
    BY <1>6, <1>7, <1>8, <1>10, <2>1 DEF Rendered, I, A
<1> QED
  BY <1>4, <1>11

\* One address more.
LEMMA RenderedAddress ==
    ASSUME IfacesApart, Types, NEW dev \in DeviceIds, NEW k \in Nat, NEW m \in Nat,
           Rendered(dev, ifs, cur, adr, units, k, m), adr # <<>>, NEW us,
           \/ Inv.prefix[adr[1].addr] = -1 /\ us = units
           \/ /\ Inv.prefix[adr[1].addr] \in Nat
              /\ \E u :
                    /\ FromAddress(u) /\ u.iface = cur.name
                    /\ u.vlan = IF Inv.prefix[adr[1].addr] \in cur.tagged THEN Inv.prefix[adr[1].addr] ELSE 0
                    /\ u.addr = IF variant # "talos" /\ u.vlan = 0 /\ adr[1].dhcp THEN Dhcp ELSE adr[1].addr
                    /\ Path(u) = FileName(cur.name, u.vlan, Inv.vname[adr[1].addr])
                    /\ us = Placed(u)
    PROVE  Rendered(dev, ifs, cur, Tail(adr), us, k, m + 1)
<1> DEFINE I == Inv.ifaces[dev]
           A == Inv.addrs[cur.id]
           a == adr[1]
           v == Inv.prefix[a.addr]
           p == <<k, m + 1>>
<1>1. I \in Seq(AllIfaces) /\ Places(dev) \subseteq Nat \X Nat
  BY PlacesTypes
<1>2. k > 0 /\ cur = I[k] /\ Remains(adr, A, m) /\ Remains(ifs, I, k) /\ ~(variant = "talos" /\ cur.dhcp)
  <2>1. k # 0
    BY DEF Rendered
  <2>2. k > 0
    BY <2>1
  <2> QED
    BY <2>2 DEF Rendered
<1>3. k \in 1..Len(I)
  <2> HIDE DEF I
  <2>1. Len(ifs) \in Nat /\ Len(I) \in Nat /\ k + Len(ifs) = Len(I)
    BY <1>1, <1>2 DEF Types, Remains
  <2> QED
    BY <1>2, <2>1
<1>4. A \in Seq(AllAddresses) /\ adr \in Seq(AllAddresses)
  <2>1. cur \in AllIfaces
    BY <1>1, <1>2, <1>3
  <2>2. cur.id \in IfaceIds
    BY <2>1, RecordTypes
  <2> QED
    BY <2>2, InventoryTypes DEF Types, Inv
<1> HIDE DEF I, A
<1>5. m + 1 \in 1..Len(A) /\ a = A[m + 1] /\ Remains(Tail(adr), A, m + 1)
  <2> DEFINE n == Len(Tail(adr))
  <2>1. n \in Nat /\ Len(adr) = n + 1 /\ \A j \in 1..n : Tail(adr)[j] = adr[j + 1]
    BY <1>4
  <2>2. m + (n + 1) = Len(A) /\ \A j \in 1..(n + 1) : adr[j] = A[m + j]
    BY <1>2, <2>1 DEF Remains
  <2> HIDE DEF n
  <2>3. m + 1 \in 1..Len(A) /\ a = A[m + 1]
    BY <2>1, <2>2
  <2>4. ASSUME NEW j \in 1..n PROVE Tail(adr)[j] = A[(m + 1) + j]
    <3>1. j + 1 \in 1..(n + 1) /\ m + (j + 1) = (m + 1) + j
      BY <2>1
    <3> QED
      BY <2>1, <2>2, <3>1
  <2>5. (m + 1) + n = Len(A)
    BY <2>1, <2>2
  <2>6. Remains(Tail(adr), A, m + 1)
    BY <2>4, <2>5 DEF Remains, n
  <2> QED
    BY <2>3, <2>6
<1>6. p[1] = k /\ p[2] = m + 1 /\ AddrAt(dev, p) = a
  BY <1>2, <1>5 DEF AddrAt, I, A
<1> HIDE DEF p
<1>7. p \in Places(dev) <=> v # -1
  <2>1. p \in {k} \X (1..Len(Inv.addrs[I[k].id]))
    BY <1>2, <1>5 DEF A, p
  <2>2. p \in UNION {{j} \X (1..Len(Inv.addrs[I[j].id])) : j \in 1..Len(I)}
    BY <1>3, <2>1
  <2>3. ~(variant = "talos" /\ I[p[1]].dhcp)
    BY <1>2, <1>6
  <2> QED
    BY <1>6, <2>2, <2>3 DEF Places, I
<1>8. \A q \in Places(dev) : q[1] \in Nat /\ q[2] \in Nat /\ q = <<q[1], q[2]>>
  BY <1>1
<1> DEFINE H == Handled(dev, k, m)
<1>9. Handled(dev, k, m + 1) = IF p \in Places(dev) THEN H \cup {p} ELSE H
  <2>1. ASSUME NEW q \in Places(dev)
        PROVE  (q[1] < k \/ (q[1] = k /\ q[2] <= m + 1)) <=> (q[1] < k \/ (q[1] = k /\ q[2] <= m)) \/ q = p
    <3>1. q[1] \in Nat /\ q[2] \in Nat /\ q = <<q[1], q[2]>>
      BY <1>8
    <3>2. q = p <=> q[1] = k /\ q[2] = m + 1
      BY <1>6, <3>1 DEF p
    <3> QED
      BY <3>1, <3>2
  <2> QED
    BY <2>1 DEF Handled
<1>10. H \subseteq Places(dev) /\ \A q \in H : q[1] < p[1] \/ (q[1] = p[1] /\ q[2] < p[2])
  <2>1. H \subseteq Places(dev) /\ \A q \in H : q[1] < k \/ (q[1] = k /\ q[2] <= m)
    BY DEF Handled
  <2> QED
    BY <1>6, <1>8, <2>1
<1>11. PlainUnits(units) /\ Prepared(units, I, k) /\ Agrees(dev, H, units)
  BY DEF Rendered, I
<1> HIDE DEF H
<1>12. PlainUnits(us) /\ Prepared(us, I, k) /\ Agrees(dev, Handled(dev, k, m + 1), us)
  <2>1. CASE v = -1 /\ us = units
    BY <1>7, <1>9, <1>11, <2>1
  <2>2. CASE v \in Nat /\ ~(v = -1 /\ us = units)
    <3>1. PICK u : /\ FromAddress(u) /\ u.iface = cur.name
                   /\ u.vlan = IF v \in cur.tagged THEN v ELSE 0
                   /\ u.addr = IF variant # "talos" /\ u.vlan = 0 /\ a.dhcp THEN Dhcp ELSE a.addr
                   /\ Path(u) = FileName(cur.name, u.vlan, Inv.vname[a.addr])
                   /\ us = Placed(u)
      BY <2>2
    <3> HIDE DEF v, a
    <3>2. p \in Places(dev)
      BY <1>7, <2>2
    <3>3. VlanAt(dev, p) = u.vlan
      BY <1>2, <1>6, <3>1 DEF VlanAt, v, I
    <3>4. Inv.ifaces[dev][p[1]].name = u.iface /\ Prepared(units, Inv.ifaces[dev], p[1])
      BY <1>2, <1>6, <1>11, <3>1 DEF I
    <3>5. Path(u) = FileAt(dev, p)
      BY <1>6, <3>1, <3>3, <3>4 DEF FileAt
    <3>6. Line(Shaped(u)) = ExpectedAddress(dev, p)
      <4>1. u \in Unit /\ (u.kind = "vlan" <=> u.vlan # 0)
        BY <3>1 DEF FromAddress
      <4>2. Shaped(u).iface = u.iface /\ Shaped(u).vlan = u.vlan
            /\ Shaped(u).addr = IF u.vlan # 0 /\ variant = "fcos" THEN NoAddr ELSE u.addr
        BY <4>1 DEF Shaped, Unit
      <4>3. Path(Shaped(u)) = FileAt(dev, p)
        BY <3>1, <3>5, ShapedUnit
      <4>4. Line(Shaped(u)) = <<u.iface, u.vlan, IF u.vlan # 0 /\ variant = "fcos" THEN NoAddr ELSE u.addr,
                               FileAt(dev, p)>>
        BY <4>2, <4>3 DEF Line
      <4>5. ExpectedAddress(dev, p) =
               <<u.iface, u.vlan, IF variant # "talos" /\ u.vlan = 0 /\ a.dhcp THEN Dhcp
                                  ELSE IF variant = "fcos" /\ u.vlan # 0 THEN NoAddr ELSE a.addr,
                 FileAt(dev, p)>>
        BY <1>6, <3>3, <3>4 DEF ExpectedAddress
      <4> QED
        BY <3>1, <4>4, <4>5
    <3>7. Agrees(dev, H \cup {p}, Placed(u))
      BY <1>10, <1>11, <3>1, <3>2, <3>3, <3>4, <3>6, <3>5, AgreesPlaced
    <3>8. PlainUnits(Placed(u)) /\ Prepared(Placed(u), I, k)
      BY <1>11, <3>1, PlacedPlain
    <3> QED
      BY <1>9, <3>1, <3>2, <3>7, <3>8
  <2> QED
    BY <2>1, <2>2
<1> QED
  BY <1>2, <1>5, <1>12 DEF Rendered, I, A

\* All interfaces and addresses have been rendered.
LEMMA RenderedAll ==
    ASSUME Types, NEW dev \in DeviceIds, NEW k \in Nat, NEW m \in Nat,
           Rendered(dev, <<>>, cur, <<>>, units, k, m)
    PROVE  Settled(dev, Places(dev), Completed)
<1> DEFINE I == Inv.ifaces[dev]
<1>1. I \in Seq(AllIfaces) /\ Places(dev) \subseteq Nat \X Nat
  BY PlacesTypes
<1>2. k = Len(I)
  <2>1. k + Len(<<>>) = Len(I)
    BY DEF Rendered, Remains
  <2> QED
    BY <2>1
<1>3. ASSUME NEW p \in Places(dev) PROVE p[1] < k \/ (p[1] = k /\ p[2] <= m)
  <2>1. p \in Nat \X Nat /\ p[1] \in 1..k
    BY <1>1, <1>2, PlacesTypes
  <2>2. p[1] \in Nat /\ p[2] \in Nat /\ p[1] >= 1 /\ p[1] <= k
    BY <2>1
  <2>3. CASE p[1] = k
    <3>1. p[2] \in 1..Len(Inv.addrs[I[k].id])
      BY <2>3 DEF Places
    <3>2. k > 0
      BY <2>2
    <3>3. cur = I[k] /\ Remains(<<>>, Inv.addrs[cur.id], m)
      BY <3>2 DEF Rendered
    <3>4. Len(Inv.addrs[I[k].id]) = m
      BY <3>3 DEF Remains
    <3> QED
      BY <2>2, <2>3, <3>1, <3>4
  <2> QED
    BY <2>2, <2>3
<1>4. Handled(dev, k, m) = Places(dev)
  BY <1>3 DEF Handled
<1>5. PlainUnits(units) /\ Agrees(dev, Places(dev), units)
  BY <1>4 DEF Rendered
<1> QED
  BY <1>1, <1>5, SettledCompleted

\* The devices selected.
LEMMA SelectedType ==
    ASSUME Types
    PROVE  Selected \in Seq(AllDevices)
<1>1. Inv.devices \in Seq(AllDevices)
  BY InventoryTypes DEF Types, Inv
<1> QED
  BY <1>1, OnlyParts DEF Selected

\* A document goes from the devices to come to those that are done.
LEMMA AheadStep ==
    ASSUME NEW L \in Seq(AllDevices), NEW D \in Seq(Named), NEW T \in Seq(AllDevices), T # <<>>,
           Ahead(L, D, T), NEW d \in Named, DocRight(d, T[1])
    PROVE  Ahead(L, Append(D, d), Tail(T))
<1> DEFINE n == Len(D)
           E == Append(D, d)
           t == Len(Tail(T))
<1>1. n \in Nat /\ Len(E) = n + 1 /\ E[n + 1] = d /\ \A j \in 1..n : E[j] = D[j]
  OBVIOUS
<1>2. t \in Nat /\ Len(T) = t + 1 /\ \A j \in 1..t : Tail(T)[j] = T[j + 1]
  OBVIOUS
<1>3. n + (t + 1) = Len(L) /\ (\A j \in 1..(t + 1) : T[j] = L[n + j]) /\ \A j \in 1..n : DocRight(D[j], L[j])
  BY <1>2 DEF Ahead, Remains
<1> HIDE DEF E, n, t
<1>4. ASSUME NEW j \in 1..t PROVE Tail(T)[j] = L[(n + 1) + j]
  <2>1. j + 1 \in 1..(t + 1) /\ n + (j + 1) = (n + 1) + j
    BY <1>1, <1>2
  <2> QED
    BY <1>2, <1>3, <2>1
<1>5. (n + 1) + t = Len(L)
  BY <1>1, <1>2, <1>3
<1>6. Remains(Tail(T), L, Len(E))
  BY <1>1, <1>4, <1>5 DEF Remains, t
<1>7. 1 \in 1..(t + 1) /\ T[1] = L[n + 1]
  BY <1>2, <1>3
<1>8. ASSUME NEW j \in 1..(n + 1) PROVE DocRight(E[j], L[j])
  <2>1. j \in 1..n \/ j = n + 1
    BY <1>1
  <2> QED
    BY <1>1, <1>3, <1>7, <2>1
<1> QED
  BY <1>1, <1>6, <1>8 DEF Ahead, E

\* A file is what the document was, unless two units have one path.
LEMMA TranslatedRight ==
    ASSUME NEW d \in Named, NEW r, DocRight(d, r)
    PROVE  FileRight(Translate(d), r)
<1>1. /\ d.dev = r.id
      /\ Fits(r.id) => /\ Lines(d.units) = ExpectedAddresses(r.id, Places(r.id))
                       /\ Clashing(d.units) <=> Clash(r.id, Places(r.id))
  BY DEF DocRight, Settled
<1>2. Translate(d) = IF Clashing(d.units) THEN NoDoc ELSE d
  BY DEF Translate, Clashing
<1>3. d \in Document /\ d # NoDoc /\ d # NoFile /\ NoDoc # NoFile
  BY RenderingAssumption DEF Named
<1> QED
  BY <1>1, <1>2, <1>3 DEF FileRight

\* A document goes from those still to be written to the files.
LEMMA BehindStep ==
    ASSUME NEW L \in Seq(AllDevices), NEW D \in Seq(Named), D # <<>>,
           NEW F \in [Names -> Named \cup {NoFile, NoDoc}], Behind(L, D, F)
    PROVE  Behind(L, Tail(D), [F EXCEPT ![D[1].name] = Translate(D[1])])
<1> DEFINE t == Len(Tail(D))
           d == D[1]
           G == [F EXCEPT ![d.name] = Translate(d)]
<1>1. t \in Nat /\ Len(D) = t + 1 /\ d \in Named /\ \A j \in 1..t : Tail(D)[j] = D[j + 1]
  OBVIOUS
<1>2. PICK w \in Nat :
        /\ w + Len(D) = Len(L)
        /\ \A j \in 1..Len(D) : DocRight(D[j], L[w + j])
        /\ \A i \in 1..w : L[i].name \in Names /\ (LastNamed(L, i, w) => FileRight(F[L[i].name], L[i]))
  BY DEF Behind
<1>3. DocRight(d, L[w + 1]) /\ d.name = L[w + 1].name /\ d.name \in Names
  <2>1. 1 \in 1..Len(D)
    BY <1>1
  <2>2. DocRight(d, L[w + 1])
    BY <1>2, <2>1
  <2> QED
    BY <1>1, <2>2 DEF DocRight, Named
<1>4. G[d.name] = Translate(d) /\ \A x \in Names : x # d.name => G[x] = F[x]
  BY <1>3
<1> HIDE DEF t, d, G
<1>5. (w + 1) + t = Len(L)
  BY <1>1, <1>2
<1>6. ASSUME NEW j \in 1..t PROVE DocRight(Tail(D)[j], L[(w + 1) + j])
  <2>1. j + 1 \in 1..Len(D) /\ w + (j + 1) = (w + 1) + j
    BY <1>1
  <2>2. DocRight(D[j + 1], L[w + (j + 1)])
    BY <1>2, <2>1
  <2> QED
    BY <1>1, <2>1, <2>2
<1>7. ASSUME NEW i \in 1..(w + 1)
      PROVE  L[i].name \in Names /\ (LastNamed(L, i, w + 1) => FileRight(G[L[i].name], L[i]))
  <2>1. CASE i = w + 1
    <3>1. FileRight(Translate(d), L[w + 1])
      BY <1>1, <1>3, TranslatedRight
    <3> QED
      BY <1>3, <1>4, <2>1, <3>1
  <2>2. CASE i \in 1..w
    <3>1. ASSUME LastNamed(L, i, w + 1) PROVE FileRight(G[L[i].name], L[i])
      <4>1. w + 1 \in (i + 1)..(w + 1) /\ \A j \in (i + 1)..w : j \in (i + 1)..(w + 1)
        BY <2>2
      <4>2. L[i].name # d.name /\ LastNamed(L, i, w)
        BY <1>3, <3>1, <4>1 DEF LastNamed
      <4> QED
        BY <1>2, <1>4, <2>2, <4>2
    <3> QED
      BY <1>2, <2>2, <3>1
  <2>3. i = w + 1 \/ i \in 1..w
    OBVIOUS
  <2> QED
    BY <2>1, <2>2, <2>3
<1>8. w + 1 \in Nat
  OBVIOUS
<1> QED
  BY <1>5, <1>6, <1>7, <1>8 DEF Behind, t, d, G

\* At the beginning there is nothing to compare.
LEMMA FollowingInit == Init => Following
BY DEF Init, Following

\* Each step of the command follows the devices selected.
LEMMA FollowingCommand ==
    ASSUME IfacesApart, Types, Covering, Following, Command
    PROVE  Following'
<1> SUFFICES ASSUME Quiet' PROVE Following'
  BY DEF Following
<1>0. Input
  BY DEF Command, ReadArgs, Resolve, ListDevices, ListFails, Refetch, ListInterfaces, ListAddresses,
         ExtractionFails, RenderAddress, Finish, EndExtraction, Write, Done
<1>1. UNCHANGED <<nb, variant, embedded, args, seen, edits>>
  BY <1>0 DEF Input
<1>2. SpendFault \/ UNCHANGED faults
  BY RenderAddressCases, FinishCases
     DEF Command, ReadArgs, Resolve, ListDevices, ListFails, Refetch, ListInterfaces, ListAddresses,
         ExtractionFails, EndExtraction, Write, Done
<1>3. ~SpendFault /\ faults' = faults /\ Quiet /\ ~embedded
  <2>1. faults' = 0 /\ faults \in Nat
    BY DEF Quiet, Types
  <2>2. ~SpendFault
    BY <2>1 DEF SpendFault
  <2> QED
    BY <1>1, <1>2, <2>1, <2>2 DEF Quiet
<1>4. /\ todo \in Seq(AllDevices) /\ docs \in Seq(Named) /\ out \in [Names -> Named \cup {NoFile, NoDoc}]
      /\ pc # "end" => exit = "running"
  BY <1>3 DEF Types
<1>5. Selected \in Seq(AllDevices) /\ Page(Selected) \in Seq(AllDevices)
  BY SelectedType, PageParts
<1>6. ids' = ids => Page(Selected)' = Page(Selected)
  BY <1>1 DEF Page, Selected, Inv, WantedStatus
<1>7. ASSUME NEW how, Ends(how), how # "ok" PROVE Following'
  BY <1>7 DEF Ends, Following
<1>8. CASE ReadArgs
  <2>1. CASE Ends("failed")
    BY <1>7, <2>1
  <2>2. CASE pc' \in {"resolve", "list"} /\ UNCHANGED <<exit, localVars, out, refused>>
    BY <1>3, <1>4, <1>8, <2>2 DEF ReadArgs, Following, localVars
  <2> QED
    BY <1>8, <2>1, <2>2 DEF ReadArgs
<1>9. CASE Resolve
  <2>1. /\ pc = "resolve" /\ pc' = (IF ids' = {} THEN "device" ELSE "list")
        /\ UNCHANGED <<exit, todo, docs>> /\ exit = "running" /\ Wanted(args, "clusters")
    BY <1>4, <1>9 DEF Resolve, Covering
  <2>2. todo = <<>> /\ docs = <<>>
    BY <1>3, <2>1 DEF Following
  <2>3. CASE pc' = "list"
    BY <2>1, <2>2, <2>3 DEF Following
  <2>4. CASE pc' = "device" /\ ids' = {}
    <3> DEFINE M == {d \in Parts(Inv.devices) : Matches(d, args, WantedStatus, ids')}
    <3>1. Selected' = Only(Inv.devices, M)
      BY <1>1 DEF Selected, Inv, WantedStatus
    <3>2. M = {}
      BY <2>1, <2>4 DEF Matches
    <3>3. Inv.devices \in Seq(AllDevices)
      BY InventoryTypes DEF Types, Inv
    <3> HIDE DEF M
    <3>4. Selected' \in Seq(AllDevices) /\ Parts(Selected') = {}
      BY <3>1, <3>2, <3>3, OnlyParts
    <3>5. ASSUME NEW s \in Seq(AllDevices), Parts(s) = {} PROVE Len(s) = 0
      <4>1. CASE Len(s) # 0
        <5>1. 1 \in 1..Len(s)
          BY <4>1
        <5>2. s[1] \in Parts(s)
          BY <5>1 DEF Parts
        <5> QED
          BY <3>5, <5>2
      <4> QED
        BY <4>1
    <3>6. Len(Page(Selected')) = 0
      <4>1. Page(Selected') \in Seq(AllDevices) /\ Parts(Page(Selected')) = {}
        BY <3>4, PageParts
      <4> QED
        BY <3>5, <4>1
    <3>7. Len(<<>>) = 0
      OBVIOUS
    <3>8. ASSUME NEW L, L = Page(Selected') PROVE Ahead(L, <<>>, <<>>)
      BY <3>6, <3>7, <3>8 DEF Ahead, Remains
    <3>9. \A L \in {Page(Selected')}, D \in {docs'}, T \in {todo'} : Ahead(L, D, T)'
      BY <1>1, <2>1, <2>2, <3>8, SameAgreement
    <3> QED
      BY <2>1, <2>4, <3>9 DEF Following
  <2> QED
    BY <2>1, <2>3, <2>4
<1>10. CASE ListDevices
  <2>1. /\ pc = "list" /\ pc' = "device" /\ todo' = Page(Selected) /\ UNCHANGED <<exit, docs>> /\ exit = "running"
        /\ Page(Selected') = Page(Selected)
    BY <1>4, <1>6, <1>10 DEF ListDevices
  <2>2. docs = <<>> /\ Len(<<>>) = 0
    BY <1>3, <2>1 DEF Following
  <2>3. ASSUME NEW L \in Seq(AllDevices) PROVE Ahead(L, <<>>, L)
    BY <2>2 DEF Ahead, Remains
  <2>4. \A L \in {Page(Selected')}, D \in {docs'}, T \in {todo'} : Ahead(L, D, T)'
    BY <1>1, <1>5, <2>1, <2>2, <2>3, SameAgreement
  <2> QED
    BY <2>1, <2>4 DEF Following
<1>11. CASE ListFails
  BY <1>3, <1>11 DEF ListFails
<1>12. CASE Refetch
  BY <1>3, <1>12 DEF Refetch
<1>13. CASE ExtractionFails
  BY <1>3, <1>13 DEF ExtractionFails
<1>14. ASSUME UNCHANGED <<exit, ids, todo, docs, out>>, pc' = "addresses", pc \in {"device", "addresses"}
       PROVE  /\ \A L \in {Page(Selected')}, D \in {docs'}, T \in {todo'} : Ahead(L, D, T)'
              /\ exit' = "running" /\ Current' = Current
  <2>1. \A L \in {Page(Selected)}, D \in {docs}, T \in {todo} : Ahead(L, D, T)
    BY <1>3, <1>14 DEF Following
  <2>2. Page(Selected') = Page(Selected)
    BY <1>6, <1>14
  <2> QED
    BY <1>1, <1>4, <1>14, <2>1, <2>2, SameAgreement DEF Current
<1>15. CASE ListInterfaces
  <2>1. /\ UNCHANGED <<exit, ids, todo, docs, out>> /\ pc' = "addresses" /\ pc = "device" /\ todo # <<>>
        /\ ifs' = Page(Inv.ifaces[Current.id]) /\ units' = <<>> /\ adr' = <<>> /\ cur' = NoIface
    BY <1>3, <1>15 DEF ListInterfaces
  <2>2. Current.id \in DeviceIds
    BY <2>1, CurrentType
  <2>3. Rendered(Current.id, Inv.ifaces[Current.id], NoIface, <<>>, <<>>, 0, 0)
    BY <2>2, RenderedFirst
  <2>4. ASSUME NEW dev \in {Current'.id}, NEW ii \in {ifs'}, NEW c \in {cur'}, NEW aa \in {adr'}, NEW us \in {units'}
        PROVE  Fits(dev)' => \E k, m \in Nat : Rendered(dev, ii, c, aa, us, k, m)'
    <3> SUFFICES ASSUME Fits(dev)' PROVE \E k, m \in Nat : Rendered(dev, ii, c, aa, us, k, m)'
      OBVIOUS
    <3>1. dev = Current.id /\ Fits(Current.id)
      BY <1>1, <1>14, <2>1, SameReference
    <3>2. Inv.ifaces[Current.id] \in Seq(AllIfaces) /\ Len(Inv.ifaces[Current.id]) <= PageSize
      BY <2>2, <3>1, PlacesTypes DEF Fits
    <3>3. ii = Inv.ifaces[Current.id]
      BY <2>1, <2>4, <3>2, PageParts
    <3>4. Rendered(dev, ii, c, aa, us, 0, 0)
      BY <2>1, <2>3, <3>1, <3>3
    <3> QED
      BY <1>1, <3>4, SameAgreement
  <2> QED
    BY <1>14, <2>1, <2>4 DEF Following
<1>16. CASE ListAddresses
  <2>1. /\ UNCHANGED <<exit, ids, todo, docs, out>> /\ pc' = "addresses" /\ pc = "addresses" /\ todo # <<>>
        /\ adr = <<>> /\ ifs # <<>> /\ cur' = ifs[1] /\ ifs' = Tail(ifs)
        /\ adr' = IF variant = "talos" /\ ifs[1].dhcp THEN <<>> ELSE Page(Inv.addrs[ifs[1].id])
        /\ units' = IF variant # "talos" THEN units
                    ELSE Append(units, [kind |-> "iface", iface |-> ifs[1].name, vlan |-> 0, vname |-> NoName,
                                        addr |-> NoAddr, routed |-> FALSE])
    BY <1>16 DEF ListAddresses, Types
  <2>2. Current.id \in DeviceIds
    BY <2>1, CurrentType
  <2>3. Fits(Current.id) => \E k, m \in Nat : Rendered(Current.id, ifs, cur, <<>>, units, k, m)
    BY <1>3, <2>1 DEF Following
  <2>4. ASSUME NEW dev \in {Current'.id}, NEW ii \in {ifs'}, NEW c \in {cur'}, NEW aa \in {adr'}, NEW us \in {units'}
        PROVE  Fits(dev)' => \E i, j \in Nat : Rendered(dev, ii, c, aa, us, i, j)'
    <3> SUFFICES ASSUME Fits(dev)' PROVE \E i, j \in Nat : Rendered(dev, ii, c, aa, us, i, j)'
      OBVIOUS
    <3>1. dev = Current.id /\ Fits(Current.id)
      BY <1>1, <1>14, <2>1, SameReference
    <3>2. PICK k \in Nat, m \in Nat : Rendered(Current.id, ifs, cur, <<>>, units, k, m)
      BY <2>3, <3>1
    <3>3. PICK l \in Nat : Rendered(Current.id, Tail(ifs), ifs[1], aa, us, k + 1, l)
      BY <2>1, <2>2, <3>1, <3>2, RenderedIface
    <3>4. Rendered(dev, ii, c, aa, us, k + 1, l)
      BY <1>14, <2>1, <3>3
    <3>5. k + 1 \in Nat
      OBVIOUS
    <3> QED
      BY <1>1, <3>4, <3>5, SameAgreement
  <2> QED
    BY <1>14, <2>1, <2>4 DEF Following
<1>17. CASE RenderAddress
  <2>1. CASE Ends("panic")
    BY <1>7, <2>1
  <2>2. CASE ~Ends("panic")
    <3>1. pc = "addresses" /\ adr # <<>> /\ todo # <<>>
      BY <1>17 DEF RenderAddress, Types
    <3>2. /\ adr' = Tail(adr)
          /\ UNCHANGED <<pc, exit, ids, todo, ifs, cur, docs, errs, out, refused>>
          /\ \/ Inv.prefix[adr[1].addr] = -1 /\ units' = units
             \/ /\ Inv.prefix[adr[1].addr] \in Nat
                /\ \E u :
                      /\ FromAddress(u) /\ u.iface = cur.name
                      /\ u.vlan = IF Inv.prefix[adr[1].addr] \in cur.tagged THEN Inv.prefix[adr[1].addr] ELSE 0
                      /\ u.addr = IF variant # "talos" /\ u.vlan = 0 /\ adr[1].dhcp THEN Dhcp ELSE adr[1].addr
                      /\ Path(u) = FileName(cur.name, u.vlan, Inv.vname[adr[1].addr])
                      /\ units' = Placed(u)
      BY <1>3, <1>17, <2>2, RenderQuietly
    <3>3. Current.id \in DeviceIds
      BY <3>1, CurrentType
    <3>4. Fits(Current.id) => \E k, m \in Nat : Rendered(Current.id, ifs, cur, adr, units, k, m)
      BY <1>3, <3>1 DEF Following
    <3>5. ASSUME NEW dev \in {Current'.id}, NEW ii \in {ifs'}, NEW c \in {cur'}, NEW aa \in {adr'}, NEW us \in {units'}
          PROVE  Fits(dev)' => \E i, j \in Nat : Rendered(dev, ii, c, aa, us, i, j)'
      <4> SUFFICES ASSUME Fits(dev)' PROVE \E i, j \in Nat : Rendered(dev, ii, c, aa, us, i, j)'
        OBVIOUS
      <4>1. dev = Current.id /\ Fits(Current.id)
        BY <1>1, <1>14, <3>1, <3>2, SameReference
      <4>2. PICK k \in Nat, m \in Nat : Rendered(Current.id, ifs, cur, adr, units, k, m)
        BY <3>4, <4>1
      <4>3. Rendered(Current.id, ifs, cur, Tail(adr), us, k, m + 1)
        BY <3>1, <3>2, <3>3, <4>2, RenderedAddress
      <4>4. Rendered(dev, ii, c, aa, us, k, m + 1)
        BY <1>14, <3>1, <3>2, <4>3
      <4>5. m + 1 \in Nat
        OBVIOUS
      <4> QED
        BY <1>1, <4>4, <4>5, SameAgreement
    <3> QED
      BY <1>14, <3>1, <3>2, <3>5 DEF Following
  <2> QED
    BY <2>1, <2>2
<1>18. CASE Finish
  <2>1. CASE Ends("panic")
    BY <1>7, <2>1
  <2>2. CASE ~Ends("panic")
    <3>1. pc = "addresses" /\ adr = <<>> /\ ifs = <<>> /\ todo # <<>> /\ exit = "running"
      BY <1>4, <1>18 DEF Finish, Types
    <3>2. PICK d \in Named :
             /\ d.dev = Current.id /\ d.name = Current.name /\ d.units = Completed
             /\ docs' = Append(docs, d) /\ pc' = "device" /\ todo' = Tail(todo)
             /\ UNCHANGED <<exit, ids, out>>
      BY <1>3, <1>18, <2>2, FinishCases
    <3>3. Current.id \in DeviceIds
      BY <3>1, CurrentType
    <3>4. Fits(Current.id) => \E k, m \in Nat : Rendered(Current.id, <<>>, cur, <<>>, units, k, m)
      BY <1>3, <3>1 DEF Following
    <3>5. Fits(Current.id) => Settled(Current.id, Places(Current.id), Completed)
      BY <3>3, <3>4, RenderedAll
    <3>6. DocRight(d, Current)
      BY <3>2, <3>5 DEF DocRight
    <3>7. Ahead(Page(Selected), docs, todo)
      BY <1>3, <3>1 DEF Following
    <3>8. Ahead(Page(Selected), docs', todo')
      BY <1>4, <1>5, <3>1, <3>2, <3>6, <3>7, AheadStep DEF Current
    <3>9. \A L \in {Page(Selected')}, D \in {docs'}, T \in {todo'} : Ahead(L, D, T)'
      BY <1>1, <1>6, <3>2, <3>8, SameAgreement
    <3> QED
      BY <3>1, <3>2, <3>9 DEF Following
  <2> QED
    BY <2>1, <2>2
<1>19. CASE EndExtraction
  <2>1. CASE Ends("failed")
    BY <1>7, <2>1
  <2>2. CASE pc' = "write" /\ UNCHANGED <<exit, localVars, out, refused>>
    <3>1. pc = "device" /\ todo = <<>> /\ exit = "running" /\ UNCHANGED <<ids, docs, out>>
      BY <1>4, <1>19, <2>2 DEF EndExtraction, localVars
    <3>2. Ahead(Page(Selected), docs, <<>>)
      BY <1>3, <3>1 DEF Following
    <3>3. ASSUME NEW L \in Seq(AllDevices), NEW D \in Seq(Named), NEW F, Ahead(L, D, <<>>)
          PROVE  Behind(L, D, F)
      <4>1. 0 + Len(D) = Len(L) /\ Len(D) \in Nat
        BY <3>3 DEF Ahead, Remains
      <4>2. \A j \in 1..Len(D) : DocRight(D[j], L[0 + j])
        BY <3>3, <4>1 DEF Ahead
      <4>3. 0 \in Nat /\ 1..0 = {}
        OBVIOUS
      <4> QED
        BY <4>1, <4>2, <4>3 DEF Behind
    <3>4. Behind(Page(Selected), docs, out)
      BY <1>4, <1>5, <3>2, <3>3
    <3>5. \A L \in {Page(Selected')}, D \in {docs'}, F \in {out'} : Behind(L, D, F)'
      BY <1>1, <1>6, <3>1, <3>4, SameAgreement
    <3> QED
      BY <2>2, <3>5 DEF Following
  <2> QED
    BY <1>3, <1>19, <2>1, <2>2 DEF EndExtraction
<1>20. CASE Write
  <2>1. /\ pc = "write" /\ docs # <<>> /\ docs' = Tail(docs) /\ UNCHANGED <<pc, exit, ids>>
        /\ out' = [out EXCEPT ![docs[1].name] = Translate(docs[1])]
    BY <1>3, <1>20 DEF Write
  <2>2. Behind(Page(Selected), docs, out)
    BY <1>3, <2>1 DEF Following
  <2>3. Behind(Page(Selected), docs', out')
    BY <1>4, <1>5, <2>1, <2>2, BehindStep
  <2>4. \A L \in {Page(Selected')}, D \in {docs'}, F \in {out'} : Behind(L, D, F)'
    BY <1>1, <1>6, <2>1, <2>3, SameAgreement
  <2> QED
    BY <2>1, <2>4 DEF Following
<1>21. CASE Done
  <2>1. pc = "write" /\ pc' = "end" /\ UNCHANGED <<docs, out, ids>>
    BY <1>21 DEF Done, Ends, localVars
  <2>2. Behind(Page(Selected), docs, out)
    BY <1>3, <2>1 DEF Following
  <2>3. \A L \in {Page(Selected')}, D \in {docs'}, F \in {out'} : Behind(L, D, F)'
    BY <1>1, <1>6, <2>1, <2>2, SameAgreement
  <2> QED
    BY <2>1, <2>3 DEF Following
<1> QED
  BY <1>8, <1>9, <1>10, <1>11, <1>12, <1>13, <1>15, <1>16, <1>17, <1>18, <1>19, <1>20, <1>21 DEF Command

\* After an edit it is not quiet.
LEMMA FollowingEdit ==
    ASSUME Types, NEW n \in EditedNb, Edit(n)
    PROVE  Following'
<1>1. nb \in seen' /\ nb' # nb
  BY DEF Edit, Types
<1>2. ~Quiet'
  BY <1>1 DEF Quiet
<1> QED
  BY <1>2 DEF Following

\* Documents and files are what the records call for: if nothing fails and
\* nothing is edited, and no more devices are selected than fit on a page, a
\* command that exits with 0 has written a file for each of them (the last one
\* of its name): with the units its interfaces and addresses ask for, if these
\* fit on their pages, and empty exactly if two of them ask for one path.
THEOREM DocumentsFollowRecords ==
    ASSUME IfacesApart
    PROVE  Spec => []DocumentIsReference
<1>1. Types /\ Covering /\ Following /\ [Next]_vars => Following'
  <2> SUFFICES ASSUME Types, Covering, Following, [Next]_vars PROVE Following'
    OBVIOUS
  <2>1. CASE UNCHANGED vars
    <3>1. UNCHANGED <<nb, variant, embedded, args, pc, exit, ids, todo, ifs, cur, adr, units, docs, out, seen, faults>>
      BY <2>1 DEF vars, localVars
    <3>2. Page(Selected)' = Page(Selected) /\ Current' = Current /\ (Quiet' <=> Quiet)
      BY <3>1 DEF Page, Selected, Inv, WantedStatus, Current, Quiet
    <3>3. UNCHANGED <<nb, variant>>
      BY <3>1
    <3> QED
      BY <3>1, <3>2, <3>3, SameAgreement, SameReference DEF Following
  <2> QED
    BY <2>1, FollowingCommand, FollowingEdit DEF Next
<1>2. Types /\ Covering /\ Following => DocumentIsReference
  <2> SUFFICES ASSUME Types, Covering, Following, exit = "ok", ~embedded, faults = 0, seen = {nb},
                      Len(Selected) <= PageSize, NEW i \in 1..Len(Selected),
                      \A j \in (i + 1)..Len(Selected) : Selected[j].name # Selected[i].name
               PROVE  FileRight(out[Selected[i].name], Selected[i])
    BY DEF DocumentIsReference, FileRight, Lines, Line
  <2>1. Behind(Selected, docs, out)
    <3>1. Page(Selected) = Selected
      BY SelectedType, PageParts
    <3>2. Behind(Page(Selected), docs, out)
      BY DEF Following, Quiet
    <3> QED
      BY <3>1, <3>2
  <2>2. docs = <<>>
    BY DEF Covering
  <2>3. PICK w \in Nat :
           /\ w + Len(docs) = Len(Selected)
           /\ \A j \in 1..w : LastNamed(Selected, j, w) => FileRight(out[Selected[j].name], Selected[j])
    BY <2>1 DEF Behind
  <2>4. w = Len(Selected)
    BY <2>2, <2>3
  <2> QED
    BY <2>3, <2>4 DEF LastNamed
<1> QED
  BY <1>1, <1>2, AlwaysTypes, AlwaysCovering, FollowingInit, PTL DEF Spec
=============================================================================
