----------------------- MODULE HardwareFields_proofs -----------------------
(***************************************************************************)
(* Proofs about HardwareFields, for every set of objects, commands and     *)
(* owners and every bound.                                                 *)
(***************************************************************************)
EXTENDS HardwareFields, TLAPS

-----------------------------------------------------------------------------
(* The operators of the model.                                             *)

Fields == {"user", "vendor", "ifs", "owner"}
Kinds == {"clean-userdata", "clean-vendordata", "pxe-allow", "pxe-deny", "show"}
Patching == {"clean-userdata", "clean-vendordata", "pxe-allow"}

\* A merge patch leaves every field alone that the command did not change
\* in the copy it has read, whatever the object has become.
LEMMA MergedFields ==
    ASSUME NEW s \in Object, NEW t \in Object, NEW o \in Object
    PROVE  Merged(MergeFrom(s, t), o) =
               [user   |-> IF s.user # t.user THEN t.user ELSE o.user,
                vendor |-> IF s.vendor # t.vendor THEN t.vendor ELSE o.vendor,
                ifs    |-> IF s.ifs # t.ifs THEN t.ifs ELSE o.ifs,
                owner  |-> IF s.owner # t.owner THEN t.owner ELSE o.owner]
<1> DEFINE p == MergeFrom(s, t)
           q == Merged(p, o)
           r == [user   |-> IF s.user # t.user THEN t.user ELSE o.user,
                 vendor |-> IF s.vendor # t.vendor THEN t.vendor ELSE o.vendor,
                 ifs    |-> IF s.ifs # t.ifs THEN t.ifs ELSE o.ifs,
                 owner  |-> IF s.owner # t.owner THEN t.owner ELSE o.owner]
<1>1. DOMAIN o = Fields /\ DOMAIN s = Fields
  BY DEF Object, Fields
<1>2. \A f \in Fields : f \in DOMAIN p <=> s[f] # t[f]
  BY <1>1 DEF MergeFrom
<1>3. \A f \in DOMAIN p : p[f] = t[f]
  BY DEF MergeFrom
<1>4. q = [f \in Fields |-> IF s[f] # t[f] THEN t[f] ELSE o[f]]
  BY <1>1, <1>2, <1>3 DEF Merged
<1>5. r = [f \in Fields |-> r[f]]
  BY DEF Fields
<1>6. \A f \in Fields : r[f] = IF s[f] # t[f] THEN t[f] ELSE o[f]
  BY DEF Fields
<1>7. q = r
  <2> HIDE DEF q, r
  <2> QED
    BY <1>4, <1>5, <1>6
<1> QED
  BY <1>7

\* The interfaces pxe-allow asks for: as they were read, with PXE allowed.
Allowed(o) == [i \in DOMAIN o.ifs |-> [o.ifs[i] EXCEPT !.pxe = TRUE]]

\* Allowing PXE keeps the interfaces of an object interfaces.
LEMMA AllowedInterfaces ==
    ASSUME NEW o \in Object
    PROVE  /\ Allowed(o) \in Seq(Iface)
           /\ DOMAIN Allowed(o) = DOMAIN o.ifs
           /\ \A i \in DOMAIN o.ifs : Allowed(o)[i].pxe = TRUE
<1> DEFINE n == Len(o.ifs)
<1>1. o.ifs \in Seq(Iface)
  BY DEF Object
<1>2. n \in Nat /\ DOMAIN o.ifs = 1..n
  BY <1>1
<1>3. \A i \in 1..n : o.ifs[i] \in Iface
  BY <1>1, <1>2
<1>4. \A x \in Iface : [x EXCEPT !.pxe = TRUE] \in Iface /\ [x EXCEPT !.pxe = TRUE].pxe = TRUE
  BY DEF Iface, Flag
<1>5. Allowed(o) \in [1..n -> Iface]
  BY <1>2, <1>3, <1>4 DEF Allowed
<1>6. \A i \in DOMAIN o.ifs : Allowed(o)[i].pxe = TRUE
  BY <1>2, <1>3, <1>4 DEF Allowed
<1> QED
  BY <1>2, <1>5, <1>6 DEF Allowed

\* What a command wants of an object, field by field.
LEMMA MutateFields ==
    ASSUME NEW o \in Object
    PROVE  /\ Mutate("clean-userdata", o) =
                  [user |-> Nil, vendor |-> o.vendor, ifs |-> o.ifs, owner |-> o.owner]
           /\ Mutate("clean-vendordata", o) =
                  [user |-> o.user, vendor |-> Nil, ifs |-> o.ifs, owner |-> o.owner]
           /\ Mutate("pxe-allow", o) =
                  [user |-> o.user, vendor |-> o.vendor, ifs |-> Allowed(o), owner |-> o.owner]
<1>1. Mutate("clean-userdata", o) = [o EXCEPT !.user = Nil]
  BY DEF Mutate
<1>2. Mutate("clean-vendordata", o) = [o EXCEPT !.vendor = Nil]
  BY DEF Mutate
<1>3. Mutate("pxe-allow", o) = [o EXCEPT !.ifs = Allowed(o)]
  BY DEF Mutate, Allowed
<1> QED
  BY <1>1, <1>2, <1>3 DEF Object

\* What a command makes of an object is an object.
LEMMA MutateType ==
    ASSUME NEW kind \in Patching, NEW o \in Object
    PROVE  Mutate(kind, o) \in Object
<1> /\ o.user \in {Nil, "data"} /\ o.vendor \in {Nil, "ignition"}
    /\ o.ifs \in Seq(Iface) /\ o.owner \in Owners \cup {Blank}
  BY DEF Object
<1>1. Allowed(o) \in Seq(Iface)
  BY AllowedInterfaces
<1>2. kind = "clean-userdata" => Mutate(kind, o) \in Object
  BY MutateFields DEF Object
<1>3. kind = "clean-vendordata" => Mutate(kind, o) \in Object
  BY MutateFields DEF Object
<1>4. kind = "pxe-allow" => Mutate(kind, o) \in Object
  BY <1>1, MutateFields DEF Object
<1> QED
  BY <1>2, <1>3, <1>4 DEF Patching

\* What a patch computed from s may make of o.
Narrow(kind, s, o, q) ==
    \/ q = o
    \/ q = Mutate(kind, o)
    \/ kind = "pxe-allow" /\ q = [o EXCEPT !.ifs = Mutate("pxe-allow", s).ifs]

\* A patch as a whole: it leaves an object of the same type, brings about
\* what the command is for unless that was so in the copy it was computed
\* from, and changes nothing but the field of the command.
LEMMA PatchEffect ==
    ASSUME NEW kind \in Patching, NEW s \in Object, NEW o \in Object, NEW q,
           q = Merged(MergeFrom(s, Mutate(kind, s)), o)
    PROVE  /\ q \in Object
           /\ Goal(kind, s) \/ Goal(kind, q)
           /\ Narrow(kind, s, o, q)
<1> DEFINE t == Mutate(kind, s)
<1>1. /\ s.user \in {Nil, "data"} /\ s.vendor \in {Nil, "ignition"}
      /\ s.ifs \in Seq(Iface) /\ s.owner \in Owners \cup {Blank}
  BY DEF Object
<1>2. /\ o.user \in {Nil, "data"} /\ o.vendor \in {Nil, "ignition"}
      /\ o.ifs \in Seq(Iface) /\ o.owner \in Owners \cup {Blank}
  BY DEF Object
<1>3. o = [user |-> o.user, vendor |-> o.vendor, ifs |-> o.ifs, owner |-> o.owner]
  BY DEF Object
<1>4. t \in Object
  BY MutateType
<1>5. q = [user   |-> IF s.user # t.user THEN t.user ELSE o.user,
           vendor |-> IF s.vendor # t.vendor THEN t.vendor ELSE o.vendor,
           ifs    |-> IF s.ifs # t.ifs THEN t.ifs ELSE o.ifs,
           owner  |-> IF s.owner # t.owner THEN t.owner ELSE o.owner]
  BY <1>4, MergedFields
<1>6. q \in Object
  <2> HIDE DEF t
  <2>1. /\ t.user \in {Nil, "data"} /\ t.vendor \in {Nil, "ignition"}
        /\ t.ifs \in Seq(Iface) /\ t.owner \in Owners \cup {Blank}
    BY <1>4 DEF Object
  <2> QED
    BY <1>2, <1>5, <2>1 DEF Object
<1>7. CASE kind = "clean-userdata"
  <2>1. t = [user |-> Nil, vendor |-> s.vendor, ifs |-> s.ifs, owner |-> s.owner]
    BY <1>7, MutateFields
  <2>2. q = [user |-> IF s.user # Nil THEN Nil ELSE o.user, vendor |-> o.vendor, ifs |-> o.ifs, owner |-> o.owner]
    <3> HIDE DEF t
    <3> QED
      BY <1>5, <2>1
  <2>3. CASE s.user = Nil
    BY <1>3, <1>6, <1>7, <2>2, <2>3 DEF Goal, Narrow
  <2>4. CASE s.user # Nil
    BY <1>6, <1>7, <2>2, <2>4, MutateFields DEF Goal, Narrow
  <2> QED
    BY <2>3, <2>4
<1>8. CASE kind = "clean-vendordata"
  <2>1. t = [user |-> s.user, vendor |-> Nil, ifs |-> s.ifs, owner |-> s.owner]
    BY <1>8, MutateFields
  <2>2. q = [user |-> o.user, vendor |-> IF s.vendor # Nil THEN Nil ELSE o.vendor, ifs |-> o.ifs, owner |-> o.owner]
    <3> HIDE DEF t
    <3> QED
      BY <1>5, <2>1
  <2>3. CASE s.vendor = Nil
    BY <1>3, <1>6, <1>8, <2>2, <2>3 DEF Goal, Narrow
  <2>4. CASE s.vendor # Nil
    BY <1>6, <1>8, <2>2, <2>4, MutateFields DEF Goal, Narrow
  <2> QED
    BY <2>3, <2>4
<1>9. CASE kind = "pxe-allow"
  <2>1. t = [user |-> s.user, vendor |-> s.vendor, ifs |-> Allowed(s), owner |-> s.owner]
    BY <1>9, MutateFields
  <2>2. q = [user |-> o.user, vendor |-> o.vendor, ifs |-> IF s.ifs # Allowed(s) THEN Allowed(s) ELSE o.ifs, owner |-> o.owner]
    <3> HIDE DEF t
    <3> QED
      BY <1>5, <2>1
  <2>3. /\ DOMAIN Allowed(s) = DOMAIN s.ifs
        /\ \A i \in DOMAIN s.ifs : Allowed(s)[i].pxe = TRUE
    BY AllowedInterfaces
  <2>4. CASE s.ifs = Allowed(s)
    <3>1. q = o
      BY <1>3, <2>2, <2>4
    <3>2. Goal(kind, s)
      <4>1. \A i \in DOMAIN s.ifs : s.ifs[i].pxe = TRUE
        BY <2>3, <2>4, Zenon
      <4> QED
        BY <1>9, <4>1 DEF Goal
    <3> QED
      BY <1>6, <3>1, <3>2 DEF Narrow
  <2>5. CASE s.ifs # Allowed(s)
    <3>1. q = [user |-> o.user, vendor |-> o.vendor, ifs |-> Allowed(s), owner |-> o.owner]
      BY <2>2, <2>5
    <3>2. q = [o EXCEPT !.ifs = Allowed(s)]
      BY <3>1 DEF Object
    <3>3. Mutate("pxe-allow", s).ifs = Allowed(s)
      BY MutateFields
    <3>4. Goal(kind, q)
      <4>1. q.ifs = Allowed(s)
        BY <3>1
      <4>2. \A i \in DOMAIN q.ifs : q.ifs[i].pxe = TRUE
        BY <2>3, <4>1, Zenon
      <4> QED
        BY <1>9, <4>2 DEF Goal
    <3> QED
      BY <1>6, <1>9, <3>2, <3>3, <3>4 DEF Narrow
  <2> QED
    BY <2>4, <2>5
<1> QED
  BY <1>7, <1>8, <1>9 DEF Patching

Row == [key : Keys, cluster : Clusters \cup {Blank, NoMachine}, pxe : BOOLEAN, workflow : BOOLEAN]

\* The rows of one object are about that object, and flags that are not set
\* are reported as FALSE.
LEMMA RowsOf ==
    ASSUME NEW k \in Keys, NEW o, NEW cluster \in Clusters \cup {Blank, NoMachine},
           NEW r \in Rows(k, o, cluster)
    PROVE  r \in Row /\ r.key = k
<1>1. PICK i \in DOMAIN o.ifs :
          r = [key |-> k, cluster |-> cluster, pxe |-> o.ifs[i].pxe = TRUE, workflow |-> o.ifs[i].workflow = TRUE]
  BY Zenon DEF Rows
<1> DEFINE a == o.ifs[i].pxe = TRUE
           b == o.ifs[i].workflow = TRUE
<1>2. a \in BOOLEAN /\ b \in BOOLEAN
  BY Zenon
<1>3. r = [key |-> k, cluster |-> cluster, pxe |-> a, workflow |-> b]
  BY <1>1
<1> HIDE DEF a, b
<1> QED
  BY <1>2, <1>3 DEF Row

\* The cluster of an object.
LEMMA ClusterNames ==
    ASSUME NEW m \in [Owners -> Clusters \cup {Blank, NoMachine}], NEW o \in Object
    PROVE  GetClusterName(m, o) \in Clusters \cup {Blank, NoMachine}
BY DEF GetClusterName, Object

-----------------------------------------------------------------------------
(* Inductive invariants.                                                   *)

Arguments == {a[p] : a \in Commands, p \in Procs}

Snaps == UNION {[K -> Object] : K \in SUBSET Keys}

Cmd == [kind : Kinds, args : {a.args : a \in Arguments}, hostname : {a.hostname : a \in Arguments},
        pc : {"start", "fetch", "patch", "filter", "rows", "end"}, snap : Snaps, todo : SUBSET Keys,
        rows : SUBSET Row, exit : {"running", "ok", "failed"}]

\* Which kinds of command get to which step.
CmdOK(c) ==
    /\ c.todo \subseteq DOMAIN c.snap
    /\ c.pc = "end" <=> c.exit # "running"
    /\ c.pc = "fetch" => c.kind # "pxe-deny"
    /\ c.pc = "patch" => c.kind \in Patching
    /\ c.pc \in {"filter", "rows"} => c.kind = "show"

WellFormed ==
    /\ hw \in [Keys -> Object \cup {NoObject}]
    /\ machine \in [Owners -> Clusters \cup {Blank, NoMachine}]
    /\ changes \in 0..MaxChanges
    /\ faults \in 0..MaxFaults
    /\ cmd \in [Procs -> Cmd]
    /\ \A p \in Procs : CmdOK(cmd[p])

\* The objects a patching command is through with have been as it wants them
\* since it read them; so have those that were that way when it read them,
\* for which its patch will be empty.
DoneSoFar(c, m) ==
    c.kind \in Patching =>
        /\ c.pc = "patch" => \A k \in DOMAIN c.snap : k \notin c.todo \/ Goal(c.kind, c.snap[k]) => k \in m
        /\ c.exit = "ok" => DOMAIN c.snap \subseteq m

Progress == \A p \in Procs : DoneSoFar(cmd[p], met[p])

\* k was in one of the clusters a command asks for since it was read, or it
\* asks for objects without cluster, too.
Belongs(c, m, k) == \E x \in Parts(c.args.clusters) : x = Blank \/ <<k, x>> \in m

\* The objects that have passed the filter of show, and all those it goes on
\* with after it, belong to the clusters asked for.
Sifted(c, m) ==
    c.kind = "show" /\ c.args.clusters[1] # Blank =>
        /\ c.pc = "filter" => \A k \in DOMAIN c.snap \ c.todo : Belongs(c, m, k)
        /\ c.pc = "rows" => \A k \in DOMAIN c.snap : Belongs(c, m, k)
        /\ \A r \in c.rows : Belongs(c, m, r.key)

Filtering == \A p \in Procs : Sifted(cmd[p], met[p])

\* What a command has read: some of the objects.
LEMMA SnapsAre ==
    ASSUME NEW s
    PROVE  s \in Snaps <=> /\ DOMAIN s \subseteq Keys
                           /\ s = [k \in DOMAIN s |-> s[k]]
                           /\ \A k \in DOMAIN s : s[k] \in Object
<1>1. ASSUME s \in Snaps
      PROVE  DOMAIN s \subseteq Keys /\ s = [k \in DOMAIN s |-> s[k]] /\ \A k \in DOMAIN s : s[k] \in Object
  <2>1. PICK K \in SUBSET Keys : s \in [K -> Object]
    BY <1>1 DEF Snaps
  <2> QED
    BY <2>1
<1>2. ASSUME DOMAIN s \subseteq Keys, s = [k \in DOMAIN s |-> s[k]], \A k \in DOMAIN s : s[k] \in Object
      PROVE  s \in Snaps
  <2>1. s \in [DOMAIN s -> Object]
    BY <1>2
  <2> QED
    BY <1>2, <2>1 DEF Snaps
<1> QED
  BY <1>1, <1>2

\* What kubernetes-updater creates has the type of an object.
LEMMA CreatedType ==
    ASSUME NEW mac \in Macs, NEW vendor \in {Nil, "ignition"}
    PROVE  Created(mac, vendor) \in Object
<1> DEFINE i == [mac |-> mac, pxe |-> TRUE, workflow |-> TRUE]
<1>1. i \in Iface
  BY DEF Iface, Flag
<1>2. <<i>> \in Seq(Iface)
  <2> HIDE DEF i
  <2> QED
    BY <1>1
<1>3. Created(mac, vendor) = [user |-> Nil, vendor |-> vendor, owner |-> Blank, ifs |-> <<i>>]
  BY DEF Created
<1> HIDE DEF i
<1> QED
  BY <1>2, <1>3 DEF Object

\* So have the objects at the beginning.
LEMMA InitialObjectsType == InitialObjects \subseteq Object
<1> DEFINE mac == CHOOSE m \in Macs : TRUE
           owner == CHOOSE o \in Owners : TRUE
           i == [mac |-> mac, pxe |-> FALSE, workflow |-> FALSE]
           j == [mac |-> mac, pxe |-> Nil, workflow |-> Nil]
           x == [user |-> "data", vendor |-> "ignition", owner |-> owner, ifs |-> <<i, j>>]
<1>1. mac \in Macs /\ owner \in Owners
  BY HardwareFieldsAssumption
<1>2. InitialObjects = {Created(mac, "ignition"), x}
  BY DEF InitialObjects
<1> HIDE DEF mac, owner
<1>3. i \in Iface /\ j \in Iface
  BY <1>1 DEF Iface, Flag
<1> HIDE DEF i, j
<1>4. <<i, j>> \in Seq(Iface)
  BY <1>3
<1>5. x \in Object
  BY <1>1, <1>4 DEF Object
<1> HIDE DEF x
<1> QED
  BY <1>1, <1>2, <1>5, CreatedType

\* The initial states are well formed.
LEMMA WellFormedInit == Init => WellFormed
<1> SUFFICES ASSUME Init PROVE WellFormed
  OBVIOUS
<1>1. hw \in [Keys -> Object \cup {NoObject}]
  BY InitialObjectsType DEF Init
<1>2. machine \in [Owners -> Clusters \cup {Blank, NoMachine}]
  BY HardwareFieldsAssumption DEF Init
<1>3. changes \in 0..MaxChanges /\ faults \in 0..MaxFaults
  BY HardwareFieldsAssumption DEF Init
<1>4. PICK a \in Commands :
          cmd = [p \in Procs |-> [kind |-> a[p].kind, args |-> a[p].args, hostname |-> a[p].hostname,
                                  pc |-> "start", snap |-> <<>>, todo |-> {}, rows |-> {}, exit |-> "running"]]
  BY DEF Init
<1>5. \A p \in Procs : a[p].kind \in Kinds /\ a[p] \in Arguments
  BY HardwareFieldsAssumption DEF Kinds, Arguments
<1>6. <<>> \in Snaps
  <2>1. <<>> \in [{} -> Object]
    OBVIOUS
  <2> QED
    BY <2>1 DEF Snaps
<1>7. cmd \in [Procs -> Cmd]
  BY <1>4, <1>5, <1>6 DEF Cmd
<1>8. \A p \in Procs : CmdOK(cmd[p])
  BY <1>4 DEF CmdOK
<1> QED
  BY <1>1, <1>2, <1>3, <1>7, <1>8 DEF WellFormed

\* Steps of others keep the types.
LEMMA WellFormedOthers ==
    ASSUME WellFormed, Others
    PROVE  WellFormed'
<1>1. cmd' = cmd /\ faults' = faults /\ changes' \in 0..MaxChanges
  BY HardwareFieldsAssumption DEF WellFormed, Others, Prune, Create, Claim, Provisioned, Relabel, Changes
<1> SUFFICES /\ hw' \in [Keys -> Object \cup {NoObject}]
             /\ machine' \in [Owners -> Clusters \cup {Blank, NoMachine}]
  BY <1>1 DEF WellFormed
<1>2. ASSUME NEW k \in Keys, Prune(k)
      PROVE  hw' \in [Keys -> Object \cup {NoObject}] /\ machine' = machine
  BY <1>2 DEF WellFormed, Prune
<1>3. ASSUME NEW k \in Keys, Create(k)
      PROVE  hw' \in [Keys -> Object \cup {NoObject}] /\ machine' = machine
  <2>1. PICK mac \in Macs, vendor \in {Nil, "ignition"} : hw' = [hw EXCEPT ![k] = Created(mac, vendor)]
    BY <1>3 DEF Create
  <2>2. Created(mac, vendor) \in Object
    BY CreatedType
  <2> QED
    BY <1>3, <2>1, <2>2 DEF WellFormed, Create
<1>4. ASSUME NEW k \in Keys, Claim(k)
      PROVE  hw' \in [Keys -> Object \cup {NoObject}] /\ machine' = machine
  <2>1. PICK o \in Owners : hw' = [hw EXCEPT ![k].owner = o, ![k].user = "data"]
    BY <1>4 DEF Claim
  <2>2. hw[k] \in Object
    BY <1>4 DEF Claim, WellFormed
  <2> DEFINE x == [hw[k] EXCEPT !.owner = o, !.user = "data"]
  <2>3. x \in Object
    BY <2>2 DEF Object
  <2>4. hw' = [hw EXCEPT ![k] = x]
    BY <2>1
  <2> HIDE DEF x
  <2> QED
    BY <1>4, <2>3, <2>4 DEF WellFormed, Claim
<1>5. ASSUME NEW k \in Keys, Provisioned(k)
      PROVE  hw' \in [Keys -> Object \cup {NoObject}] /\ machine' = machine
  <2>1. PICK i \in DOMAIN hw[k].ifs, again \in BOOLEAN :
            hw' = [hw EXCEPT ![k].ifs[i].pxe = FALSE, ![k].ifs[i].workflow = again]
    BY <1>5, Zenon DEF Provisioned
  <2>2. hw[k] \in Object
    BY <1>5 DEF Provisioned, WellFormed
  <2> DEFINE s == hw[k].ifs
             y == [s[i] EXCEPT !.pxe = FALSE, !.workflow = again]
             t == [s EXCEPT ![i] = y]
             x == [hw[k] EXCEPT !.ifs = t]
  <2>3. s \in Seq(Iface)
    BY <2>2 DEF Object
  <2>4. s[i] \in Iface
    BY <2>1, <2>3
  <2>5. again \in Flag /\ FALSE \in Flag
    BY Zenon DEF Flag
  <2>6. y \in Iface
    <3> HIDE DEF s
    <3> QED
      BY <2>4, <2>5 DEF Iface
  <2>7. hw' = [hw EXCEPT ![k] = x]
    BY <2>1
  <2>8. t \in Seq(Iface)
    <3> HIDE DEF s, y
    <3>1. Len(s) \in Nat /\ s \in [1..Len(s) -> Iface]
      BY <2>3
    <3>2. t \in [1..Len(s) -> Iface]
      BY <2>6, <3>1
    <3> QED
      BY <3>1, <3>2
  <2>9. x \in Object
    <3> HIDE DEF t
    <3> QED
      BY <2>2, <2>8 DEF Object
  <2> HIDE DEF x
  <2> QED
    BY <1>5, <2>7, <2>9 DEF WellFormed, Provisioned
<1>6. ASSUME NEW o \in Owners, Relabel(o)
      PROVE  hw' = hw /\ machine' \in [Owners -> Clusters \cup {Blank, NoMachine}]
  BY <1>6 DEF WellFormed, Relabel
<1> QED
  BY <1>2, <1>3, <1>4, <1>5, <1>6 DEF Others, WellFormed

\* Only the command that takes the step changes, and it stays well formed.
Becomes(p, c) == c \in Cmd /\ CmdOK(c) /\ cmd' = [cmd EXCEPT ![p] = c]

\* A command exits.
LEMMA ExitsBecomes ==
    ASSUME WellFormed, NEW p \in Procs, NEW how \in {"ok", "failed"}, Exits(p, how)
    PROVE  Becomes(p, [cmd[p] EXCEPT !.pc = "end", !.exit = how])
BY DEF WellFormed, Exits, Becomes, Cmd, CmdOK

\* Each step of a command: the command as it is afterwards.
LEMMA StepBecomes ==
    ASSUME WellFormed, NEW p \in Procs, Step(p)
    PROVE  (\E c : Becomes(p, c)) /\ faults' \in 0..MaxFaults
<1>1. cmd[p] \in Cmd /\ CmdOK(cmd[p]) /\ faults \in 0..MaxFaults /\ MaxFaults \in Nat
  BY HardwareFieldsAssumption DEF WellFormed
<1>2. CASE Start(p)
  <2>1. CASE cmd' = [cmd EXCEPT ![p].pc = "fetch"] /\ cmd[p].kind # "pxe-deny"
    <3> DEFINE c == [cmd[p] EXCEPT !.pc = "fetch"]
    <3>1. c \in Cmd /\ CmdOK(c)
      BY <1>1, <1>2, <2>1 DEF Start, Cmd, CmdOK
    <3>2. cmd' = [cmd EXCEPT ![p] = c]
      BY <2>1
    <3>3. faults' \in 0..MaxFaults
      BY <1>1, <1>2 DEF Start, SpendFault
    <3> HIDE DEF c
    <3> QED
      BY <3>1, <3>2, <3>3 DEF Becomes
  <2>2. CASE Exits(p, "ok") \/ Exits(p, "failed")
    <3>1. faults' \in 0..MaxFaults
      BY <1>1, <1>2 DEF Start, SpendFault
    <3> QED
      BY <2>2, <3>1, ExitsBecomes
  <2> QED
    BY <1>2, <2>1, <2>2 DEF Start
<1>3. CASE Fetch(p)
  <2> DEFINE K == Asked(cmd[p])
             next == IF cmd[p].kind # "show" THEN "patch"
                     ELSE IF cmd[p].args.clusters[1] # Blank THEN "filter" ELSE "rows"
             s == [k \in K |-> hw[k]]
             c == [cmd[p] EXCEPT !.pc = next, !.snap = s, !.todo = K]
  <2>1. CASE cmd' = [cmd EXCEPT ![p].pc = next, ![p].snap = s, ![p].todo = K] /\ UNCHANGED faults
    <3>1. K \subseteq Keys /\ \A k \in K : hw[k] \in Object
      BY DEF Asked, WellFormed
    <3>2. DOMAIN s = K /\ s \in Snaps
      <4> HIDE DEF K
      <4> QED
        BY <3>1, SnapsAre
    <3> HIDE DEF K
    <3>3. /\ next \in {"patch", "filter", "rows"}
          /\ next = "patch" => cmd[p].kind \in Patching
          /\ next \in {"filter", "rows"} => cmd[p].kind = "show"
      BY <1>1, <1>3 DEF Fetch, Cmd, CmdOK, Kinds, Patching
    <3>4. cmd' = [cmd EXCEPT ![p] = c]
      BY <2>1
    <3> HIDE DEF next, s
    <3>5. c \in Cmd
      BY <1>1, <3>1, <3>2, <3>3 DEF Cmd
    <3>6. /\ c.pc = next /\ c.snap = s /\ c.todo = K /\ c.kind = cmd[p].kind /\ c.exit = cmd[p].exit
      BY <1>1 DEF Cmd
    <3>7. cmd[p].exit = "running"
      BY <1>1, <1>3 DEF Fetch, CmdOK
    <3> HIDE DEF c
    <3>8. CmdOK(c)
      BY <3>2, <3>3, <3>6, <3>7 DEF CmdOK
    <3> QED
      BY <1>1, <2>1, <3>4, <3>5, <3>8 DEF Becomes
  <2>2. CASE Exits(p, "failed") /\ (UNCHANGED faults \/ SpendFault)
    <3>1. faults' \in 0..MaxFaults
      BY <1>1, <2>2 DEF SpendFault
    <3> QED
      BY <2>2, <3>1, ExitsBecomes
  <2> QED
    BY <1>3, <2>1, <2>2 DEF Fetch
<1>4. ASSUME NEW k \in Keys, Patch(p, k)
      PROVE  (\E c : Becomes(p, c)) /\ faults' \in 0..MaxFaults
  <2>1. CASE cmd' = [cmd EXCEPT ![p].todo = @ \ {k}] /\ UNCHANGED faults
    <3> DEFINE c == [cmd[p] EXCEPT !.todo = @ \ {k}]
    <3>1. c \in Cmd /\ CmdOK(c)
      BY <1>1 DEF Cmd, CmdOK
    <3>2. cmd' = [cmd EXCEPT ![p] = c]
      BY <2>1
    <3> HIDE DEF c
    <3> QED
      BY <1>1, <2>1, <3>1, <3>2 DEF Becomes
  <2>2. CASE Exits(p, "failed") /\ (UNCHANGED faults \/ SpendFault)
    <3>1. faults' \in 0..MaxFaults
      BY <1>1, <2>2 DEF SpendFault
    <3> QED
      BY <2>2, <3>1, ExitsBecomes
  <2> QED
    BY <1>4, <2>1, <2>2 DEF Patch
<1>5. ASSUME NEW k \in Keys, Filter(p, k)
      PROVE  (\E c : Becomes(p, c)) /\ faults' \in 0..MaxFaults
  <2>1. PICK s :
            /\ s \in {cmd[p].snap, [x \in DOMAIN cmd[p].snap \ {k} |-> cmd[p].snap[x]]}
            /\ cmd' = [cmd EXCEPT ![p].todo = @ \ {k}, ![p].snap = s]
    BY <1>5 DEF Filter
  <2> DEFINE c == [cmd[p] EXCEPT !.todo = @ \ {k}, !.snap = s]
  <2>2. cmd[p].snap \in Snaps
    BY <1>1 DEF Cmd
  <2>3. s \in Snaps /\ cmd[p].todo \ {k} \subseteq DOMAIN s
    BY <1>1, <2>1, <2>2, SnapsAre DEF CmdOK
  <2>4. cmd' = [cmd EXCEPT ![p] = c]
    BY <2>1
  <2>5. c \in Cmd /\ CmdOK(c)
    BY <1>1, <2>3 DEF Cmd, CmdOK
  <2>6. faults' \in 0..MaxFaults
    BY <1>1, <1>5 DEF Filter, SpendFault
  <2> HIDE DEF c
  <2> QED
    BY <2>4, <2>5, <2>6 DEF Becomes
<1>6. ASSUME NEW k \in Keys, Report(p, k)
      PROVE  (\E c : Becomes(p, c)) /\ faults' \in 0..MaxFaults
  <2>1. PICK cl \in {GetClusterName(machine, cmd[p].snap[k]), Blank} :
            cmd' = [cmd EXCEPT ![p].todo = @ \ {k}, ![p].rows = @ \cup Rows(k, cmd[p].snap[k], cl)]
    BY <1>6 DEF Report
  <2> DEFINE R == Rows(k, cmd[p].snap[k], cl)
             c == [cmd[p] EXCEPT !.todo = @ \ {k}, !.rows = @ \cup R]
  <2>2. cmd[p].snap[k] \in Object
    BY <1>1, <1>6, SnapsAre DEF Report, Cmd, CmdOK
  <2>3. cl \in Clusters \cup {Blank, NoMachine}
    BY <2>2, ClusterNames DEF WellFormed
  <2>4. R \subseteq Row
    BY <2>3, RowsOf
  <2>5. cmd' = [cmd EXCEPT ![p] = c]
    BY <2>1
  <2> HIDE DEF R
  <2>6. c \in Cmd /\ CmdOK(c)
    BY <1>1, <2>4 DEF Cmd, CmdOK
  <2>7. faults' \in 0..MaxFaults
    BY <1>1, <1>6 DEF Report, SpendFault
  <2> HIDE DEF c
  <2> QED
    BY <2>5, <2>6, <2>7 DEF Becomes
<1>7. CASE Filtered(p)
  <2> DEFINE c == [cmd[p] EXCEPT !.pc = "rows", !.todo = DOMAIN cmd[p].snap]
  <2>1. DOMAIN cmd[p].snap \subseteq Keys
    BY <1>1, SnapsAre DEF Cmd
  <2>2. c \in Cmd /\ CmdOK(c)
    BY <1>1, <1>7, <2>1 DEF Cmd, CmdOK, Filtered
  <2>3. cmd' = [cmd EXCEPT ![p] = c]
    BY <1>7 DEF Filtered
  <2> HIDE DEF c
  <2> QED
    BY <1>1, <1>7, <2>2, <2>3 DEF Becomes, Filtered
<1>8. CASE Finish(p)
  BY <1>1, <1>8, ExitsBecomes DEF Finish
<1> QED
  BY <1>2, <1>3, <1>4, <1>5, <1>6, <1>7, <1>8 DEF Step

\* A patch is applied to objects the command has read.
LEMMA PatchApplied ==
    ASSUME WellFormed, NEW p \in Procs, NEW k \in Keys, Patch(p, k), hw[k] # NoObject, hw' # hw
    PROVE  /\ cmd[p].kind \in Patching
           /\ cmd[p].snap[k] \in Object
           /\ hw[k] \in Object
           /\ hw' = [hw EXCEPT ![k] = Merged(MergeFrom(cmd[p].snap[k], Mutate(cmd[p].kind, cmd[p].snap[k])), hw[k])]
<1>1. cmd[p] \in Cmd /\ CmdOK(cmd[p]) /\ hw[k] \in Object
  BY DEF WellFormed
<1>2. cmd[p].kind \in Patching /\ k \in DOMAIN cmd[p].snap
  BY <1>1 DEF Patch, CmdOK
<1>3. cmd[p].snap[k] \in Object
  BY <1>1, <1>2, SnapsAre DEF Cmd
<1>4. hw' = [hw EXCEPT ![k] = Merged(PatchOf(cmd[p], k), @)]
  BY DEF Patch
<1> QED
  BY <1>1, <1>2, <1>3, <1>4 DEF PatchOf

\* The steps of commands keep the types.
LEMMA WellFormedStep ==
    ASSUME WellFormed, NEW p \in Procs, Step(p)
    PROVE  WellFormed' /\ \A q \in Procs \ {p} : cmd'[q] = cmd[q]
<1>1. PICK c : Becomes(p, c)
  BY StepBecomes
<1>2. /\ cmd' \in [Procs -> Cmd]
      /\ \A q \in Procs : CmdOK(cmd'[q])
      /\ \A q \in Procs \ {p} : cmd'[q] = cmd[q]
  BY <1>1 DEF Becomes, WellFormed
<1>3. machine' = machine /\ changes' = changes
  BY DEF Step, Start, Fetch, Patch, Filter, Report, Filtered, Finish, Reads
<1>4. hw' \in [Keys -> Object \cup {NoObject}]
  <2>1. CASE hw' = hw
    BY <2>1 DEF WellFormed
  <2>2. CASE hw' # hw
    <3>1. PICK k \in Keys : Patch(p, k) /\ hw[k] # NoObject
      BY <2>2 DEF Step, Start, Fetch, Patch, Filter, Report, Filtered, Finish, Reads
    <3> DEFINE q == Merged(MergeFrom(cmd[p].snap[k], Mutate(cmd[p].kind, cmd[p].snap[k])), hw[k])
    <3>2. hw' = [hw EXCEPT ![k] = q]
      BY <2>2, <3>1, PatchApplied
    <3>3. q \in Object
      BY <2>2, <3>1, PatchApplied, PatchEffect
    <3> HIDE DEF q
    <3> QED
      BY <3>2, <3>3 DEF WellFormed
  <2> QED
    BY <2>1, <2>2
<1>5. faults' \in 0..MaxFaults
  BY StepBecomes
<1> QED
  BY <1>2, <1>3, <1>4, <1>5 DEF WellFormed

\* WellFormed is an invariant.
LEMMA AlwaysWellFormed == Spec => []WellFormed
<1>1. WellFormed /\ [Next]_vars => WellFormed'
  <2> SUFFICES ASSUME WellFormed, [Next]_vars PROVE WellFormed'
    OBVIOUS
  <2>1. CASE UNCHANGED vars
    BY <2>1 DEF WellFormed, vars
  <2> QED
    BY <2>1, WellFormedOthers, WellFormedStep DEF Next
<1> QED
  BY <1>1, WellFormedInit, PTL DEF Spec

\* Type correctness of the commands on Hardware objects.
THEOREM HardwareFieldsTypes == Spec => []TypeOK
<1>1. WellFormed => TypeOK
  <2> SUFFICES ASSUME WellFormed PROVE TypeOK
    OBVIOUS
  <2>1. ASSUME NEW p \in Procs
        PROVE  /\ cmd[p].pc \in {"start", "fetch", "patch", "filter", "rows", "end"}
               /\ cmd[p].exit \in {"running", "ok", "failed"}
               /\ cmd[p].todo \subseteq DOMAIN cmd[p].snap
               /\ \A k \in DOMAIN cmd[p].snap : cmd[p].snap[k] \in Object
               /\ cmd[p].rows \subseteq Row
    <3>1. cmd[p] \in Cmd /\ CmdOK(cmd[p])
      BY DEF WellFormed
    <3> QED
      BY <3>1, SnapsAre DEF Cmd, CmdOK
  <2>2. \A r \in Row : r.pxe \in BOOLEAN /\ r.workflow \in BOOLEAN
    BY DEF Row
  <2>3. \A p \in Procs : \A r \in cmd[p].rows : r.pxe \in BOOLEAN /\ r.workflow \in BOOLEAN
    BY <2>1, <2>2
  <2> QED
    BY <2>1, <2>3 DEF WellFormed, TypeOK
<1> QED
  BY <1>1, AlwaysWellFormed, PTL

-----------------------------------------------------------------------------
(* Commands that exit with 0.                                              *)

\* What a command has met is not forgotten, and grows while it is at work.
LEMMA MetGrows ==
    ASSUME Observe, NEW p \in Procs
    PROVE  /\ met[p] \subseteq met'[p]
           /\ cmd[p].exit = "running" => Witnessed(p) \subseteq met'[p]
BY DEF Observe

\* More that was met does no harm.
LEMMA DoneSoFarGrows ==
    ASSUME NEW c, NEW m, NEW n, m \subseteq n, DoneSoFar(c, m)
    PROVE  DoneSoFar(c, n)
BY DEF DoneSoFar

\* No command has done anything at the beginning.
LEMMA ProgressInit == Init => Progress
<1> SUFFICES ASSUME Init, NEW p \in Procs PROVE DoneSoFar(cmd[p], met[p])
  BY DEF Progress
<1>1. cmd[p].pc = "start" /\ cmd[p].exit = "running"
  BY DEF Init
<1> QED
  BY <1>1 DEF DoneSoFar

\* A step of the command itself.
LEMMA ProgressStep ==
    ASSUME WellFormed, NEW p \in Procs, DoneSoFar(cmd[p], met[p]), Step(p), Observe
    PROVE  DoneSoFar(cmd'[p], met'[p])
<1>1. cmd[p] \in Cmd /\ CmdOK(cmd[p]) /\ cmd \in [Procs -> Cmd] /\ cmd[p].snap \in Snaps
  BY DEF WellFormed, Cmd
<1>2. met[p] \subseteq met'[p]
  BY MetGrows
<1>3. cmd[p].exit = "running" => Witnessed(p) \subseteq met'[p]
  BY MetGrows
<1>4. ASSUME Exits(p, "failed")
      PROVE  DoneSoFar(cmd'[p], met'[p])
  <2>1. cmd'[p].pc = "end" /\ cmd'[p].exit = "failed"
    BY <1>1, <1>4 DEF Exits, Cmd
  <2> QED
    BY <2>1 DEF DoneSoFar
<1>5. CASE Start(p)
  <2>1. CASE cmd[p].kind = "pxe-deny" /\ Exits(p, "ok")
    <3>1. cmd'[p].kind = "pxe-deny"
      BY <1>1, <2>1 DEF Exits, Cmd
    <3> QED
      BY <3>1 DEF DoneSoFar, Patching
  <2>2. CASE cmd' = [cmd EXCEPT ![p].pc = "fetch"]
    <3>1. cmd'[p].pc = "fetch" /\ cmd'[p].exit = "running"
      BY <1>1, <1>5, <2>2 DEF Start, CmdOK, Cmd
    <3> QED
      BY <3>1 DEF DoneSoFar
  <2> QED
    BY <1>4, <1>5, <2>1, <2>2 DEF Start
<1>6. CASE Fetch(p) /\ ~Exits(p, "failed")
  <2> DEFINE K == Asked(cmd[p])
             s == [k \in K |-> hw[k]]
  <2>0. cmd[p].exit = "running"
    BY <1>1, <1>6 DEF Fetch, CmdOK
  <2>1. cmd'[p].snap = s /\ cmd'[p].todo = K /\ cmd'[p].exit = "running" /\ cmd'[p].pc # "start" /\ cmd'[p].pc # "fetch"
    <3> DEFINE next == IF cmd[p].kind # "show" THEN "patch"
                       ELSE IF cmd[p].args.clusters[1] # Blank THEN "filter" ELSE "rows"
    <3>1. cmd' = [cmd EXCEPT ![p].pc = next, ![p].snap = s, ![p].todo = K]
      BY <1>6 DEF Fetch
    <3>2. next # "start" /\ next # "fetch"
      OBVIOUS
    <3> HIDE DEF next, s, K
    <3> QED
      BY <1>1, <2>0, <3>1, <3>2 DEF Cmd
  <2>2. hw' = hw
    BY <1>6 DEF Fetch, Reads
  <2>3. ASSUME cmd'[p].kind \in Patching, NEW k \in K, Goal(cmd'[p].kind, s[k])
        PROVE  k \in met'[p]
    <3>1. k \in Keys /\ hw'[k] # NoObject /\ s[k] = hw'[k]
      BY <2>2 DEF Asked
    <3>2. cmd'[p].kind # "show"
      BY <2>3 DEF Patching
    <3>3. Witnessed(p) = {x \in Keys : hw'[x] # NoObject /\ Goal(cmd'[p].kind, hw'[x])}
      BY <2>1, <3>2 DEF Witnessed
    <3> HIDE DEF s
    <3>4. k \in Witnessed(p)
      BY <2>3, <3>1, <3>3
    <3> QED
      BY <1>3, <2>0, <3>4
  <2>4. DOMAIN s = K
    OBVIOUS
  <2> HIDE DEF s, K
  <2> QED
    BY <2>1, <2>3, <2>4 DEF DoneSoFar
<1>7. ASSUME NEW k \in Keys, Patch(p, k), ~Exits(p, "failed")
      PROVE  DoneSoFar(cmd'[p], met'[p])
  <2>0. cmd[p].pc = "patch" /\ cmd[p].exit = "running" /\ cmd[p].kind \in Patching /\ k \in DOMAIN cmd[p].snap
    BY <1>1, <1>7 DEF Patch, CmdOK
  <2>1. /\ cmd' = [cmd EXCEPT ![p].todo = @ \ {k}]
        /\ hw[k] # NoObject
        /\ hw' = [hw EXCEPT ![k] = Merged(PatchOf(cmd[p], k), @)]
    BY <1>7 DEF Patch
  <2>2. /\ cmd'[p].kind = cmd[p].kind /\ cmd'[p].pc = "patch" /\ cmd'[p].exit = "running"
        /\ cmd'[p].snap = cmd[p].snap /\ cmd'[p].todo = cmd[p].todo \ {k}
    BY <1>1, <2>0, <2>1 DEF Cmd
  <2>3. cmd[p].snap[k] \in Object /\ hw[k] \in Object /\ hw \in [Keys -> Object \cup {NoObject}]
    BY <1>1, <2>0, <2>1, SnapsAre DEF WellFormed
  <2> DEFINE q == Merged(MergeFrom(cmd[p].snap[k], Mutate(cmd[p].kind, cmd[p].snap[k])), hw[k])
  <2>4. hw'[k] = q
    BY <2>1, <2>3 DEF PatchOf
  <2>5. q \in Object /\ (Goal(cmd[p].kind, cmd[p].snap[k]) \/ Goal(cmd[p].kind, q))
    BY <2>0, <2>3, PatchEffect
  <2> HIDE DEF q
  <2>6. Goal(cmd[p].kind, cmd[p].snap[k]) => k \in met'[p]
    BY <1>2, <2>0 DEF DoneSoFar
  <2>7. Goal(cmd[p].kind, q) => k \in met'[p]
    <3>1. Witnessed(p) = {x \in Keys : hw'[x] # NoObject /\ Goal(cmd[p].kind, hw'[x])}
      BY <2>0, <2>2 DEF Witnessed, Patching
    <3>2. hw'[k] # NoObject
      BY <2>4, <2>5, HardwareFieldsAssumption
    <3> QED
      BY <1>3, <2>0, <2>4, <3>1, <3>2
  <2>8. k \in met'[p]
    BY <2>5, <2>6, <2>7
  <2> QED
    BY <1>2, <2>0, <2>2, <2>8 DEF DoneSoFar
<1>8. CASE (\E k \in Keys : Filter(p, k) \/ Report(p, k)) \/ Filtered(p)
  <2>1. cmd[p].kind = "show"
    BY <1>1, <1>8 DEF Filter, Report, Filtered, CmdOK
  <2>2. cmd'[p].kind = cmd[p].kind
    <3>1. ASSUME NEW k \in Keys, Filter(p, k) PROVE cmd'[p].kind = cmd[p].kind
      BY <1>1, <3>1 DEF Filter, Cmd
    <3>2. ASSUME NEW k \in Keys, Report(p, k) PROVE cmd'[p].kind = cmd[p].kind
      BY <1>1, <3>2 DEF Report, Cmd
    <3>3. CASE Filtered(p)
      BY <1>1, <3>3 DEF Filtered, Cmd
    <3> QED
      BY <1>8, <3>1, <3>2, <3>3
  <2> QED
    BY <2>1, <2>2 DEF DoneSoFar, Patching
<1>9. CASE Finish(p)
  <2>1. cmd'[p].pc = "end" /\ cmd'[p].snap = cmd[p].snap /\ cmd'[p].kind = cmd[p].kind
    BY <1>1, <1>9 DEF Finish, Exits, Cmd
  <2>2. cmd[p].pc \in {"patch", "rows"} /\ cmd[p].todo = {}
    BY <1>9 DEF Finish
  <2>3. cmd[p].kind \in Patching => cmd[p].pc = "patch"
    BY <1>1, <2>2 DEF CmdOK, Patching
  <2> QED
    BY <1>2, <2>1, <2>2, <2>3 DEF DoneSoFar
<1> QED
  BY <1>4, <1>5, <1>6, <1>7, <1>8, <1>9 DEF Step

\* The history of what a command met is kept by every step.
LEMMA AlwaysProgress == Spec => []Progress
<1>1. WellFormed /\ Progress /\ [Next]_vars => Progress'
  <2> SUFFICES ASSUME WellFormed, Progress, [Next]_vars PROVE Progress'
    OBVIOUS
  <2>1. CASE UNCHANGED vars
    BY <2>1 DEF Progress, vars
  <2>2. ASSUME Observe, NEW q \in Procs, cmd'[q] = cmd[q]
        PROVE  DoneSoFar(cmd'[q], met'[q])
    <3>1. DoneSoFar(cmd[q], met[q]) /\ met[q] \subseteq met'[q]
      BY <2>2, MetGrows DEF Progress
    <3>2. DoneSoFar(cmd[q], met'[q])
      BY <3>1, DoneSoFarGrows
    <3> QED
      BY <2>2, <3>2
  <2>3. CASE Others /\ Observe
    <3>1. cmd' = cmd
      BY <2>3 DEF Others, Prune, Create, Claim, Provisioned, Relabel, Changes
    <3> QED
      BY <2>2, <2>3, <3>1 DEF Progress
  <2>4. ASSUME NEW p \in Procs, Step(p), Observe
        PROVE  Progress'
    <3>1. DoneSoFar(cmd'[p], met'[p])
      BY <2>4, ProgressStep DEF Progress
    <3>2. \A q \in Procs \ {p} : cmd'[q] = cmd[q]
      BY <2>4, WellFormedStep
    <3> QED
      BY <2>2, <2>4, <3>1, <3>2 DEF Progress
  <2> QED
    BY <2>1, <2>3, <2>4 DEF Next
<1> QED
  BY <1>1, ProgressInit, AlwaysWellFormed, PTL DEF Spec

\* A clean or pxe-allow command that exits with 0 has brought about or found
\* what it is for on every object it listed, whatever others did meanwhile.
THEOREM ExitZero == Spec => []ExitZeroMeansDone
<1>1. Progress => ExitZeroMeansDone
  BY DEF Progress, DoneSoFar, ExitZeroMeansDone, Patching
<1> QED
  BY <1>1, AlwaysProgress, PTL

-----------------------------------------------------------------------------
(* Patches.                                                                *)

\* No patch of clean-* or pxe-allow touches what others have written to the
\* fields the command is not about; the interfaces are one field, and
\* pxe-allow may put them all back as it has read them.
THEOREM NarrowPatches == Spec => PatchesAreNarrow
<1>1. ASSUME WellFormed, NEW p \in Procs, NEW k \in Keys, Patch(p, k), hw'[k] # hw[k]
      PROVE  \/ hw'[k] = Mutate(cmd[p].kind, hw[k])
             \/ /\ cmd[p].kind = "pxe-allow"
                /\ hw'[k] = [hw[k] EXCEPT !.ifs = Mutate("pxe-allow", cmd[p].snap[k]).ifs]
  <2>1. hw' # hw /\ hw[k] # NoObject
    BY <1>1 DEF Patch
  <2> DEFINE q == Merged(MergeFrom(cmd[p].snap[k], Mutate(cmd[p].kind, cmd[p].snap[k])), hw[k])
  <2>2. /\ cmd[p].kind \in Patching /\ cmd[p].snap[k] \in Object /\ hw[k] \in Object
        /\ hw' = [hw EXCEPT ![k] = q]
    BY <1>1, <2>1, PatchApplied
  <2>3. Narrow(cmd[p].kind, cmd[p].snap[k], hw[k], q)
    BY <2>2, PatchEffect
  <2> HIDE DEF q
  <2>4. hw'[k] = q
    BY <1>1, <2>2 DEF WellFormed
  <2>5. Narrow(cmd[p].kind, cmd[p].snap[k], hw[k], hw'[k]) /\ hw'[k] # hw[k]
    BY <1>1, <2>3, <2>4
  <2> QED
    BY <2>5, Zenon DEF Narrow
<1>2. WellFormed =>
        \A p \in Procs, k \in Keys :
            Patch(p, k) /\ hw'[k] # hw[k] =>
                \/ hw'[k] = Mutate(cmd[p].kind, hw[k])
                \/ /\ cmd[p].kind = "pxe-allow"
                   /\ hw'[k] = [hw[k] EXCEPT !.ifs = Mutate("pxe-allow", cmd[p].snap[k]).ifs]
  BY <1>1, Zenon
<1> QED
  BY <1>2, AlwaysWellFormed, PTL DEF PatchesAreNarrow

-----------------------------------------------------------------------------
(* The report of show.                                                     *)

\* More that was met does no harm.
LEMMA SiftedGrows ==
    ASSUME NEW c, NEW m, NEW n, m \subseteq n, Sifted(c, m)
    PROVE  Sifted(c, n)
BY DEF Sifted, Belongs

\* Whether an object belongs depends on the options of a command only.
LEMMA BelongsKept ==
    ASSUME NEW c, NEW d, NEW m, NEW n, NEW k, c.args = d.args, m \subseteq n, Belongs(c, m, k)
    PROVE  Belongs(d, n, k)
BY DEF Belongs

\* Nothing is shown at the beginning.
LEMMA FilteringInit == Init => Filtering
<1> SUFFICES ASSUME Init, NEW p \in Procs PROVE Sifted(cmd[p], met[p])
  BY DEF Filtering
<1>1. cmd[p].pc = "start" /\ cmd[p].rows = {}
  BY DEF Init
<1> QED
  BY <1>1 DEF Sifted

\* A step of the command itself.
LEMMA FilteringStep ==
    ASSUME WellFormed, NEW p \in Procs, Sifted(cmd[p], met[p]), Step(p), Observe
    PROVE  Sifted(cmd'[p], met'[p])
<1>1. cmd[p] \in Cmd /\ CmdOK(cmd[p]) /\ cmd \in [Procs -> Cmd] /\ cmd[p].snap \in Snaps
  BY DEF WellFormed, Cmd
<1>2. met[p] \subseteq met'[p]
  BY MetGrows
<1>3. cmd[p].exit = "running" => Witnessed(p) \subseteq met'[p]
  BY MetGrows
<1> DEFINE c == cmd[p]
           d == cmd'[p]
           Asks == c.kind = "show" /\ c.args.clusters[1] # Blank
<1>4. ASSUME d.kind = c.kind, d.args = c.args, d.rows = c.rows, d.pc # "filter", d.pc # "rows"
      PROVE  Sifted(d, met'[p])
  <2> HIDE DEF c, d
  <2>1. Sifted(c, met[p])
    BY DEF c
  <2> QED
    BY <1>2, <1>4, <2>1 DEF Sifted, Belongs
<1>5. ASSUME NEW how, Exits(p, how) PROVE Sifted(d, met'[p])
  BY <1>1, <1>4, <1>5 DEF Exits, Cmd
<1>6. CASE Start(p)
  <2>1. CASE cmd' = [cmd EXCEPT ![p].pc = "fetch"]
    BY <1>1, <1>4, <2>1 DEF Cmd
  <2> QED
    BY <1>5, <1>6, <2>1 DEF Start
<1>7. CASE Fetch(p) /\ ~Exits(p, "failed")
  <2> DEFINE K == Asked(cmd[p])
             s == [k \in K |-> hw[k]]
             next == IF cmd[p].kind # "show" THEN "patch"
                     ELSE IF cmd[p].args.clusters[1] # Blank THEN "filter" ELSE "rows"
  <2>1. cmd' = [cmd EXCEPT ![p].pc = next, ![p].snap = s, ![p].todo = K]
    BY <1>7 DEF Fetch
  <2>2. DOMAIN s = K
    OBVIOUS
  <2>3. Asks => next = "filter"
    OBVIOUS
  <2> HIDE DEF next, s, K
  <2>4. d.kind = c.kind /\ d.args = c.args /\ d.rows = c.rows /\ d.pc = next /\ d.snap = s /\ d.todo = K
    BY <1>1, <2>1 DEF Cmd
  <2> HIDE DEF c, d
  <2>5. Sifted(c, met[p])
    BY DEF c
  <2>6. ASSUME NEW x, Belongs(c, met[p], x) PROVE Belongs(d, met'[p], x)
    BY <1>2, <2>4, <2>6, BelongsKept
  <2>7. Asks => \A r \in d.rows : Belongs(d, met'[p], r.key)
    BY <2>4, <2>5, <2>6 DEF Sifted
  <2>8. Sifted(d, met'[p])
    BY <2>2, <2>3, <2>4, <2>7 DEF Sifted
  <2> QED
    BY <2>8 DEF d
<1>8. ASSUME NEW k \in Keys, Patch(p, k), ~Exits(p, "failed")
      PROVE  Sifted(d, met'[p])
  <2>1. cmd' = [cmd EXCEPT ![p].todo = @ \ {k}] /\ cmd[p].pc = "patch"
    BY <1>8 DEF Patch
  <2> QED
    BY <1>1, <1>4, <2>1 DEF Cmd
<1>9. ASSUME NEW k \in Keys, Filter(p, k)
      PROVE  Sifted(d, met'[p])
  <2>0. /\ c.pc = "filter" /\ k \in c.todo /\ c.exit = "running" /\ machine' = machine
        /\ c.kind = "show" /\ k \in DOMAIN c.snap
    BY <1>1, <1>9 DEF Filter, Reads, CmdOK
  <2>1. PICK cl \in {GetClusterName(machine, c.snap[k]), Blank} :
            cmd' = [cmd EXCEPT ![p].todo = @ \ {k},
                               ![p].snap = IF cl \in Parts(c.args.clusters) THEN @
                                           ELSE [x \in DOMAIN @ \ {k} |-> @[x]]]
    BY <1>9 DEF Filter
  <2> DEFINE s == IF cl \in Parts(c.args.clusters) THEN c.snap ELSE [x \in DOMAIN c.snap \ {k} |-> c.snap[x]]
  <2>2. /\ d.kind = c.kind /\ d.args = c.args /\ d.rows = c.rows /\ d.pc = "filter" /\ d.todo = c.todo \ {k}
        /\ d.snap = s
    BY <1>1, <2>0, <2>1 DEF Cmd
  <2>3. DOMAIN s \subseteq DOMAIN c.snap
    OBVIOUS
  <2>4. ASSUME k \in DOMAIN s PROVE Belongs(d, met'[p], k)
    <3>1. cl \in Parts(c.args.clusters) /\ s = c.snap
      BY <2>4
    <3>2. CASE cl = Blank
      BY <2>2, <3>1, <3>2 DEF Belongs
    <3>3. CASE cl = GetClusterName(machine, c.snap[k])
      <4>1. Witnessed(p) = {<<x, GetClusterName(machine', d.snap[x])>> : x \in DOMAIN d.snap}
        BY <2>0, <2>2 DEF Witnessed
      <4>2. <<k, cl>> \in Witnessed(p)
        BY <2>0, <2>2, <2>4, <3>1, <3>3, <4>1
      <4> QED
        BY <1>3, <2>0, <2>2, <3>1, <4>2 DEF Belongs
    <3> QED
      BY <3>2, <3>3
  <2>5. ASSUME Asks, NEW x \in DOMAIN s \ d.todo PROVE Belongs(d, met'[p], x)
    <3>1. CASE x = k
      BY <2>4, <2>5, <3>1
    <3>2. CASE x # k
      <4>1. x \in DOMAIN c.snap \ c.todo
        BY <2>2, <2>3, <2>5, <3>2
      <4>2. Belongs(c, met[p], x)
        BY <2>0, <2>5, <4>1 DEF Sifted
      <4> QED
        BY <1>2, <2>2, <4>2, BelongsKept
    <3> QED
      BY <3>1, <3>2
  <2>6. ASSUME Asks, NEW r \in c.rows PROVE Belongs(d, met'[p], r.key)
    <3>1. Belongs(c, met[p], r.key)
      BY <2>6 DEF Sifted
    <3> QED
      BY <1>2, <2>2, <3>1, BelongsKept
  <2> HIDE DEF s, c, d
  <2> QED
    BY <2>2, <2>5, <2>6 DEF Sifted
<1>10. CASE Filtered(p)
  <2>1. /\ d.kind = c.kind /\ d.args = c.args /\ d.rows = c.rows /\ d.pc = "rows" /\ d.snap = c.snap
        /\ c.pc = "filter" /\ c.todo = {}
    BY <1>1, <1>10 DEF Filtered, Cmd
  <2>2. Sifted(c, met[p])
    OBVIOUS
  <2> HIDE DEF c, d
  <2>3. ASSUME NEW x, Belongs(c, met[p], x) PROVE Belongs(d, met'[p], x)
    BY <1>2, <2>1, <2>3, BelongsKept
  <2>4. Asks => \A r \in d.rows : Belongs(d, met'[p], r.key)
    BY <2>1, <2>2, <2>3 DEF Sifted
  <2>5. Asks => \A x \in DOMAIN d.snap : Belongs(d, met'[p], x)
    BY <2>1, <2>2, <2>3 DEF Sifted
  <2>6. Sifted(d, met'[p])
    BY <2>1, <2>4, <2>5 DEF Sifted
  <2> QED
    BY <2>6 DEF d
<1>11. ASSUME NEW k \in Keys, Report(p, k)
       PROVE  Sifted(d, met'[p])
  <2>1. c.pc = "rows" /\ k \in c.todo /\ k \in DOMAIN c.snap
    BY <1>1, <1>11 DEF Report, CmdOK
  <2>2. PICK cl \in {GetClusterName(machine, cmd[p].snap[k]), Blank} :
            cmd' = [cmd EXCEPT ![p].todo = @ \ {k}, ![p].rows = @ \cup Rows(k, cmd[p].snap[k], cl)]
    BY <1>11 DEF Report
  <2> DEFINE R == Rows(k, c.snap[k], cl)
  <2>3. d.kind = c.kind /\ d.args = c.args /\ d.rows = c.rows \cup R /\ d.pc = "rows" /\ d.snap = c.snap
    BY <1>1, <2>1, <2>2 DEF Cmd
  <2>4. \A r \in R : r.key = k
    <3>1. c.snap[k] \in Object
      BY <1>1, <2>1, SnapsAre
    <3>2. cl \in Clusters \cup {Blank, NoMachine}
      BY <3>1, ClusterNames DEF WellFormed
    <3> QED
      BY <3>2, RowsOf
  <2>5. Sifted(c, met[p])
    OBVIOUS
  <2> HIDE DEF R, c, d
  <2>6. ASSUME Asks, NEW x, Belongs(c, met[p], x) PROVE Belongs(d, met'[p], x)
    BY <1>2, <2>3, <2>6, BelongsKept
  <2>7. Asks => \A r \in d.rows : Belongs(d, met'[p], r.key)
    BY <2>1, <2>3, <2>4, <2>5, <2>6 DEF Sifted
  <2>8. Asks => \A x \in DOMAIN d.snap : Belongs(d, met'[p], x)
    BY <2>1, <2>3, <2>5, <2>6 DEF Sifted
  <2> QED
    BY <2>3, <2>7, <2>8 DEF Sifted
<1>12. CASE Finish(p)
  BY <1>5, <1>12 DEF Finish
<1> QED
  BY <1>5, <1>6, <1>7, <1>8, <1>9, <1>10, <1>11, <1>12 DEF Step

\* The clusters named in the report were those of the objects.
Named(c, m) == \A r \in c.rows : r.cluster = Blank \/ <<r.key, r.cluster>> \in m

Naming == \A p \in Procs : Named(cmd[p], met[p])

\* A step of the command itself adds rows with the cluster it has looked up.
LEMMA NamingStep ==
    ASSUME WellFormed, NEW p \in Procs, Named(cmd[p], met[p]), Step(p), Observe
    PROVE  Named(cmd'[p], met'[p])
<1>1. cmd[p] \in Cmd /\ CmdOK(cmd[p]) /\ cmd \in [Procs -> Cmd] /\ cmd[p].snap \in Snaps
  BY DEF WellFormed, Cmd
<1>2. met[p] \subseteq met'[p] /\ (cmd[p].exit = "running" => Witnessed(p) \subseteq met'[p])
  BY MetGrows
<1>3. CASE cmd'[p].rows = cmd[p].rows
  BY <1>2, <1>3 DEF Named
<1>4. ASSUME NEW k \in Keys, Report(p, k)
      PROVE  Named(cmd'[p], met'[p])
  <2> DEFINE c == cmd[p]
             d == cmd'[p]
  <2>1. /\ c.pc = "rows" /\ k \in DOMAIN c.snap /\ c.exit = "running" /\ c.kind = "show"
        /\ machine' = machine
    BY <1>1, <1>4 DEF Report, Reads, CmdOK
  <2>2. PICK cl \in {GetClusterName(machine, cmd[p].snap[k]), Blank} :
            cmd' = [cmd EXCEPT ![p].todo = @ \ {k}, ![p].rows = @ \cup Rows(k, cmd[p].snap[k], cl)]
    BY <1>4 DEF Report
  <2> DEFINE R == Rows(k, c.snap[k], cl)
  <2>3. d.kind = "show" /\ d.rows = c.rows \cup R /\ d.pc = "rows" /\ d.snap = c.snap
    BY <1>1, <2>1, <2>2 DEF Cmd
  <2>4. \A r \in R : r.key = k /\ r.cluster = cl
    BY DEF Rows
  <2>5. Witnessed(p) = {<<x, GetClusterName(machine, c.snap[x])>> : x \in DOMAIN c.snap}
    BY <2>1, <2>3 DEF Witnessed
  <2>6. cl = Blank \/ <<k, cl>> \in met'[p]
    BY <1>2, <2>1, <2>2, <2>5
  <2>7. Named(c, met'[p])
    BY <1>2 DEF Named
  <2> HIDE DEF R, c, d
  <2>8. Named(d, met'[p])
    BY <2>3, <2>4, <2>6, <2>7 DEF Named
  <2> QED
    BY <2>8 DEF d
<1>5. ASSUME NEW how, Exits(p, how) PROVE cmd'[p].rows = cmd[p].rows
  BY <1>1, <1>5 DEF Exits, Cmd
<1>6. CASE Start(p)
  BY <1>1, <1>3, <1>5, <1>6 DEF Start, Cmd
<1>7. CASE Fetch(p)
  <2> DEFINE K == Asked(cmd[p])
             s == [k \in K |-> hw[k]]
             next == IF cmd[p].kind # "show" THEN "patch"
                     ELSE IF cmd[p].args.clusters[1] # Blank THEN "filter" ELSE "rows"
  <2>1. \/ Exits(p, "failed")
        \/ cmd' = [cmd EXCEPT ![p].pc = next, ![p].snap = s, ![p].todo = K]
    BY <1>7 DEF Fetch
  <2> HIDE DEF next, s, K
  <2>2. cmd'[p].rows = cmd[p].rows
    BY <1>1, <1>5, <2>1 DEF Cmd
  <2> QED
    BY <1>3, <2>2
<1>8. CASE Filtered(p) \/ Finish(p)
  BY <1>1, <1>3, <1>5, <1>8 DEF Filtered, Finish, Cmd
<1>9. ASSUME NEW k \in Keys, Patch(p, k) \/ Filter(p, k) PROVE cmd'[p].rows = cmd[p].rows
  BY <1>1, <1>9 DEF Patch, Filter, Exits, Cmd
<1> QED
  BY <1>3, <1>4, <1>9, <1>6, <1>7, <1>8 DEF Step

\* The clusters named are right in every state.
LEMMA AlwaysNaming == Spec => []Naming
<1>1. WellFormed /\ Naming /\ [Next]_vars => Naming'
  <2> SUFFICES ASSUME WellFormed, Naming, [Next]_vars PROVE Naming'
    OBVIOUS
  <2>1. CASE UNCHANGED vars
    BY <2>1 DEF Naming, vars
  <2>2. ASSUME Observe, NEW q \in Procs, cmd'[q] = cmd[q]
        PROVE  Named(cmd'[q], met'[q])
    BY <2>2, MetGrows DEF Naming, Named
  <2>3. CASE Others /\ Observe
    <3>1. cmd' = cmd
      BY <2>3 DEF Others, Prune, Create, Claim, Provisioned, Relabel, Changes
    <3> QED
      BY <2>2, <2>3, <3>1 DEF Naming
  <2>4. ASSUME NEW p \in Procs, Step(p), Observe
        PROVE  Naming'
    <3>1. Named(cmd'[p], met'[p])
      BY <2>4, NamingStep DEF Naming
    <3>2. \A q \in Procs \ {p} : cmd'[q] = cmd[q]
      BY <2>4, WellFormedStep
    <3> QED
      BY <2>2, <2>4, <3>1, <3>2 DEF Naming
  <2> QED
    BY <2>1, <2>3, <2>4 DEF Next
<1>2. Init => Naming
  BY DEF Init, Naming, Named
<1> QED
  BY <1>1, <1>2, AlwaysWellFormed, PTL DEF Spec

\* The filter holds in every state.
LEMMA AlwaysFiltering == Spec => []Filtering
<1>1. WellFormed /\ Filtering /\ [Next]_vars => Filtering'
  <2> SUFFICES ASSUME WellFormed, Filtering, [Next]_vars PROVE Filtering'
    OBVIOUS
  <2>1. CASE UNCHANGED vars
    BY <2>1 DEF Filtering, vars
  <2>2. ASSUME Observe, NEW q \in Procs, cmd'[q] = cmd[q]
        PROVE  Sifted(cmd'[q], met'[q])
    <3>1. Sifted(cmd[q], met[q]) /\ met[q] \subseteq met'[q]
      BY <2>2, MetGrows DEF Filtering
    <3>2. Sifted(cmd[q], met'[q])
      BY <3>1, SiftedGrows
    <3> QED
      BY <2>2, <3>2
  <2>3. CASE Others /\ Observe
    <3>1. cmd' = cmd
      BY <2>3 DEF Others, Prune, Create, Claim, Provisioned, Relabel, Changes
    <3> QED
      BY <2>2, <2>3, <3>1 DEF Filtering
  <2>4. ASSUME NEW p \in Procs, Step(p), Observe
        PROVE  Filtering'
    <3>1. Sifted(cmd'[p], met'[p])
      BY <2>4, FilteringStep DEF Filtering
    <3>2. \A q \in Procs \ {p} : cmd'[q] = cmd[q]
      BY <2>4, WellFormedStep
    <3> QED
      BY <2>2, <2>4, <3>1, <3>2 DEF Filtering
  <2> QED
    BY <2>1, <2>3, <2>4 DEF Next
<1> QED
  BY <1>1, FilteringInit, AlwaysWellFormed, PTL DEF Spec

\* show names clusters its objects were in at some moment since it listed
\* them, and show --clusters reports no object that was in none of these
\* clusters, although it asks for the cluster twice and machines are relabelled
\* in between.
THEOREM ShownAreSifted == Spec => []ShownBelong
<1>1. Filtering /\ Naming => ShownBelong
  BY DEF Filtering, Naming, Named, Sifted, Belongs, ShownBelong
<1> QED
  BY <1>1, AlwaysFiltering, AlwaysNaming, PTL
=============================================================================
