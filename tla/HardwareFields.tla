--------------------------- MODULE HardwareFields ---------------------------
(***************************************************************************)
(* The commands that work on the fields of Hardware objects:               *)
(* clean-userdata, clean-vendordata, pxe-allow, pxe-deny and show, at work *)
(* at once with each other, with kubernetes-updater and with Tinkerbell.   *)
(*                                                                         *)
(* A command reads objects, then sends one merge patch for each of them    *)
(* that is computed from what it has read, whatever has become of the      *)
(* object since then.                                                      *)
(***************************************************************************)
EXTENDS CommandLine, FiniteSets

CONSTANTS
    Keys,        \* namespace and name of objects
    Procs,       \* commands at work
    Commands,    \* the commands and options they may be given, together
    Owners,      \* TinkerbellMachines
    Clusters,    \* names of clusters
    Macs,        \* MAC addresses, as a device has them
    Nil,         \* a field or a flag that is not set
    NoObject, NoMachine,
    MaxChanges,  \* bound: changes made by others
    MaxFaults    \* bound: requests that fail

VARIABLES
    hw,       \* key -> Hardware object
    machine,  \* TinkerbellMachine -> the cluster it is labelled with
    cmd,      \* the commands
    met,      \* history: what a command could have seen, see Observe
    changes, faults

vars == <<hw, machine, cmd, met, changes, faults>>

Flag == {TRUE, FALSE, Nil}

\* An interface; without a Netboot section both flags are not set.
Iface == [mac : Macs, pxe : Flag, workflow : Flag]

Object ==
    [user : {Nil, "data"}, vendor : {Nil, "ignition"}, ifs : Seq(Iface), owner : Owners \cup {Blank}]

\* What the model needs of its parameters.
ASSUME HardwareFieldsAssumption ==
    /\ MaxChanges \in Nat
    /\ MaxFaults \in Nat
    /\ Macs # {} /\ Owners # {} /\ Clusters # {}
    /\ NoObject \notin Object
    /\ \A a \in Commands : \A p \in Procs : a[p].kind \in {"clean-userdata", "clean-vendordata", "pxe-allow", "pxe-deny", "show"}

TypeOK ==
    /\ hw \in [Keys -> Object \cup {NoObject}]
    /\ machine \in [Owners -> Clusters \cup {Blank, NoMachine}]
    /\ changes \in 0..MaxChanges
    /\ faults \in 0..MaxFaults
    /\ \A p \in Procs :
          /\ cmd[p].pc \in {"start", "fetch", "patch", "filter", "rows", "end"}
          /\ cmd[p].exit \in {"running", "ok", "failed"}
          /\ cmd[p].todo \subseteq DOMAIN cmd[p].snap
          /\ \A k \in DOMAIN cmd[p].snap : cmd[p].snap[k] \in Object
          /\ \A r \in cmd[p].rows : r.pxe \in BOOLEAN /\ r.workflow \in BOOLEAN

\* What kubernetes-updater makes of a device: CreateHardwares.
Created(mac, vendor) ==
    [user |-> Nil, vendor |-> vendor, owner |-> Blank,
     ifs |-> <<[mac |-> mac, pxe |-> TRUE, workflow |-> TRUE]>>]

\* Objects at the beginning: made by kubernetes-updater, or ones that Tinkerbell
\* has provisioned since, without Netboot on a second interface.
InitialObjects ==
    LET mac == CHOOSE m \in Macs : TRUE
        owner == CHOOSE o \in Owners : TRUE
    IN  {Created(mac, "ignition"),
         [user |-> "data", vendor |-> "ignition", owner |-> owner,
          ifs |-> <<[mac |-> mac, pxe |-> FALSE, workflow |-> FALSE],
                    [mac |-> mac, pxe |-> Nil, workflow |-> Nil]>>]}

Init ==
    /\ \E o \in InitialObjects : hw = [k \in Keys |-> o]
    /\ machine = [o \in Owners |-> CHOOSE c \in Clusters : TRUE]
    /\ \E a \in Commands :
          cmd = [p \in Procs |-> [kind |-> a[p].kind, args |-> a[p].args, hostname |-> a[p].hostname,
                                  pc |-> "start", snap |-> <<>>, todo |-> {}, rows |-> {},
                                  exit |-> "running"]]
    /\ met = [p \in Procs |-> {}]
    /\ changes = 0
    /\ faults = 0

-----------------------------------------------------------------------------
(* What the commands compute.                                              *)

\* cleanField and patchAllowPXE: the object as the command wants it.
Mutate(kind, o) ==
    CASE kind = "clean-userdata" -> [o EXCEPT !.user = Nil]
      [] kind = "clean-vendordata" -> [o EXCEPT !.vendor = Nil]
      [] kind = "pxe-allow" -> [o EXCEPT !.ifs = [i \in DOMAIN o.ifs |-> [o.ifs[i] EXCEPT !.pxe = TRUE]]]

\* Mutant: the object is sent as a whole.
MergeFrom_Whole(before, after) == after

\* client.MergeFrom (external): the fields that differ.  A list is one field.
MergeFrom(before, after) ==
    [f \in {g \in DOMAIN before : before[g] # after[g]} |-> after[f]]

\* What the API server makes of an object and a merge patch (external).
Merged(patch, o) == [f \in DOMAIN o |-> IF f \in DOMAIN patch THEN patch[f] ELSE o[f]]

\* patchField, patchAllowPXE: the patch a command sends for k.
PatchOf(c, k) == MergeFrom(c.snap[k], Mutate(c.kind, c.snap[k]))

\* GetClusterName: no owner and no machine both lead to a blank.
GetClusterName(machines, o) ==
    IF o.owner = Blank \/ machines[o.owner] = NoMachine THEN Blank ELSE machines[o.owner]

\* Mutant: a flag that is not set is passed on.
Rows_Unset(k, o, cluster) ==
    {[key |-> k, cluster |-> cluster, pxe |-> o.ifs[i].pxe, workflow |-> o.ifs[i].workflow] :
        i \in DOMAIN o.ifs}

\* The rows of one object in the report, one for each interface.
Rows(k, o, cluster) ==
    {[key |-> k, cluster |-> cluster, pxe |-> o.ifs[i].pxe = TRUE,
      workflow |-> o.ifs[i].workflow = TRUE] : i \in DOMAIN o.ifs}

-----------------------------------------------------------------------------
(* The steps of a command.                                                 *)

SpendFault == faults < MaxFaults /\ faults' = faults + 1
Reads == UNCHANGED <<hw, machine, changes>>

Exits(p, how) == cmd' = [cmd EXCEPT ![p].pc = "end", ![p].exit = how]

\* getNamespace and getK8sClient; pxe-deny does not ask for a namespace, and
\* is done once it has a client.
Start(p) ==
    /\ cmd[p].pc = "start"
    /\ \/ /\ CASE cmd[p].kind = "pxe-deny" -> Exits(p, "ok")
               [] cmd[p].kind # "pxe-deny" /\ GetNamespace(cmd[p].args) = Blank -> Exits(p, "failed")
               [] OTHER -> cmd' = [cmd EXCEPT ![p].pc = "fetch"]
          /\ UNCHANGED faults
       \/ SpendFault /\ Exits(p, "failed")
    /\ Reads

\* The objects a command asks for: one by its name, or those of the namespace.
Asked(c) ==
    {k \in Keys : /\ hw[k] # NoObject
                  /\ k[1] = GetNamespace(c.args)
                  /\ c.hostname # Blank => k[2] = c.hostname}

\* Mutant: show goes on without the filter.
Fetch_Unfiltered(p) ==
    LET c == cmd[p]
        K == Asked(c)
    IN  /\ c.pc = "fetch"
        /\ cmd' = [cmd EXCEPT ![p].pc = IF c.kind = "show" THEN "rows" ELSE "patch",
                              ![p].snap = [k \in K |-> hw[k]], ![p].todo = K]
        /\ UNCHANGED faults
        /\ Reads

\* Get or List.  An object that does not exist is an error, an empty list is
\* none; show filters only if the first part of --clusters is not blank.
Fetch(p) ==
    LET c == cmd[p]
        K == Asked(c)
    IN  /\ c.pc = "fetch"
        /\ \/ /\ c.hostname # Blank => K # {}
              /\ cmd' = [cmd EXCEPT ![p].pc = IF c.kind # "show" THEN "patch"
                                              ELSE IF c.args.clusters[1] # Blank THEN "filter" ELSE "rows",
                                    ![p].snap = [k \in K |-> hw[k]],
                                    ![p].todo = K]
              /\ UNCHANGED faults
           \/ /\ c.hostname # Blank /\ K = {}
              /\ Exits(p, "failed")
              /\ UNCHANGED faults
           \/ SpendFault /\ Exits(p, "failed")
        /\ Reads

\* Mutant: an object that cannot be patched is passed over.
Patch_Continues(p, k) ==
    /\ cmd[p].pc = "patch" /\ k \in cmd[p].todo
    /\ cmd' = [cmd EXCEPT ![p].todo = @ \ {k}]
    /\ \/ /\ hw' = IF hw[k] = NoObject THEN hw ELSE [hw EXCEPT ![k] = Merged(PatchOf(cmd[p], k), @)]
          /\ UNCHANGED faults
       \/ SpendFault /\ UNCHANGED hw
    /\ UNCHANGED <<machine, changes>>

\* One object is patched.  The first error is the last request; it may have
\* been carried out all the same.
Patch(p, k) ==
    /\ cmd[p].pc = "patch" /\ k \in cmd[p].todo
    /\ \/ /\ hw[k] # NoObject
          /\ hw' = [hw EXCEPT ![k] = Merged(PatchOf(cmd[p], k), @)]
          /\ \/ cmd' = [cmd EXCEPT ![p].todo = @ \ {k}] /\ UNCHANGED faults
             \/ Exits(p, "failed") /\ SpendFault
       \/ /\ hw[k] = NoObject
          /\ Exits(p, "failed")
          /\ UNCHANGED <<hw, faults>>
       \/ /\ SpendFault
          /\ Exits(p, "failed")
          /\ UNCHANGED hw
    /\ UNCHANGED <<machine, changes>>

\* The cluster of one object is looked up, and the object kept if it is among
\* --clusters.  A request that fails leads to a blank.
Filter(p, k) ==
    /\ cmd[p].pc = "filter" /\ k \in cmd[p].todo
    /\ \E cluster \in {GetClusterName(machine, cmd[p].snap[k]), Blank} :
          /\ IF cluster = GetClusterName(machine, cmd[p].snap[k]) THEN UNCHANGED faults ELSE SpendFault
          /\ cmd' = [cmd EXCEPT ![p].todo = @ \ {k},
                                ![p].snap = IF cluster \in Parts(cmd[p].args.clusters) THEN @
                                            ELSE [x \in DOMAIN @ \ {k} |-> @[x]]]
    /\ Reads

Filtered(p) ==
    /\ cmd[p].pc = "filter" /\ cmd[p].todo = {}
    /\ cmd' = [cmd EXCEPT ![p].pc = "rows", ![p].todo = DOMAIN cmd[p].snap]
    /\ Reads /\ UNCHANGED faults

\* The cluster of one object is looked up again for its rows.
Report(p, k) ==
    /\ cmd[p].pc = "rows" /\ k \in cmd[p].todo
    /\ \E cluster \in {GetClusterName(machine, cmd[p].snap[k]), Blank} :
          /\ IF cluster = GetClusterName(machine, cmd[p].snap[k]) THEN UNCHANGED faults ELSE SpendFault
          /\ cmd' = [cmd EXCEPT ![p].todo = @ \ {k},
                                ![p].rows = @ \cup Rows(k, cmd[p].snap[k], cluster)]
    /\ Reads

Finish(p) ==
    /\ cmd[p].pc \in {"patch", "rows"} /\ cmd[p].todo = {}
    /\ Exits(p, "ok")
    /\ Reads /\ UNCHANGED faults

-----------------------------------------------------------------------------
(* The others.                                                             *)

Changes == changes < MaxChanges /\ changes' = changes + 1 /\ UNCHANGED <<cmd, faults>>

\* kubernetes-updater removes the object of an offline device.
Prune(k) ==
    /\ hw[k] # NoObject
    /\ hw' = [hw EXCEPT ![k] = NoObject]
    /\ Changes /\ UNCHANGED machine

\* It creates an object where there is none, and leaves the spec of one that
\* exists alone.  The Ignition is missing if the device could not be read.
Create(k) ==
    /\ hw[k] = NoObject
    /\ \E mac \in Macs, vendor \in {Nil, "ignition"} :
          hw' = [hw EXCEPT ![k] = Created(mac, vendor)]
    /\ Changes /\ UNCHANGED machine

\* Tinkerbell (external) takes an object for a machine and gives it user data.
Claim(k) ==
    /\ hw[k] # NoObject /\ hw[k].owner = Blank
    /\ \E o \in Owners : hw' = [hw EXCEPT ![k].owner = o, ![k].user = "data"]
    /\ Changes /\ UNCHANGED machine

\* Once it has provisioned the machine it does not let it boot again; the
\* workflow may be started anew.
Provisioned(k) ==
    /\ hw[k] # NoObject
    /\ \E i \in DOMAIN hw[k].ifs, again \in BOOLEAN :
          hw' = [hw EXCEPT ![k].ifs[i].pxe = FALSE, ![k].ifs[i].workflow = again]
    /\ Changes /\ UNCHANGED machine

\* A TinkerbellMachine is moved to another cluster, loses its label or is gone.
Relabel(o) ==
    /\ \E c \in Clusters \cup {Blank, NoMachine} : machine' = [machine EXCEPT ![o] = c]
    /\ Changes /\ UNCHANGED hw

-----------------------------------------------------------------------------

\* What a command is for.
Goal(kind, o) ==
    CASE kind = "clean-userdata" -> o.user = Nil
      [] kind = "clean-vendordata" -> o.vendor = Nil
      [] kind = "pxe-allow" -> \A i \in DOMAIN o.ifs : o.ifs[i].pxe = TRUE
      [] kind = "pxe-deny" -> \A i \in DOMAIN o.ifs : o.ifs[i].pxe = FALSE

\* Since it read the objects: where a patching command has found or brought
\* about what it is for; for show, the clusters of the objects it has read.
Witnessed(p) ==
    LET c == cmd'[p]
    IN  IF c.pc \in {"start", "fetch"} THEN {}
        ELSE IF c.kind = "show"
        THEN {<<k, GetClusterName(machine', c.snap[k])>> : k \in DOMAIN c.snap}
        ELSE {k \in Keys : hw'[k] # NoObject /\ Goal(c.kind, hw'[k])}

Observe ==
    met' = [p \in Procs |-> IF cmd[p].exit # "running" THEN met[p] ELSE met[p] \cup Witnessed(p)]

Step(p) ==
    \/ Start(p) \/ Fetch(p)
    \/ \E k \in Keys : Patch(p, k) \/ Filter(p, k) \/ Report(p, k)
    \/ Filtered(p) \/ Finish(p)

Others ==
    \/ \E k \in Keys : Prune(k) \/ Create(k) \/ Claim(k) \/ Provisioned(k)
    \/ \E o \in Owners : Relabel(o)

Next == (Others \/ \E p \in Procs : Step(p)) /\ Observe

Spec == Init /\ [][Next]_vars

-----------------------------------------------------------------------------
(* Properties.                                                             *)

\* A command that exits with 0 did its work on every object it listed: the
\* field was clear, or PXE allowed on every interface, at some moment since
\* then, even if objects came, went or were changed while it was at work
\* (cleanField, AllowPXE).
ExitZeroMeansDone ==
    \A p \in Procs :
        cmd[p].exit = "ok" /\ cmd[p].kind \in {"clean-userdata", "clean-vendordata", "pxe-allow"} =>
            DOMAIN cmd[p].snap \subseteq met[p]

\* A patch computed from an old copy stays within the field of its command:
\* clean-* clears that field and leaves alone what others have written since,
\* pxe-allow leaves alone everything but the interfaces.  These it may put back
\* as it has read them, over what Tinkerbell has set since (patchField,
\* patchAllowPXE).
PatchesAreNarrow ==
    [][\A p \in Procs, k \in Keys :
          Patch(p, k) /\ hw'[k] # hw[k] =>
              \/ hw'[k] = Mutate(cmd[p].kind, hw[k])
              \/ /\ cmd[p].kind = "pxe-allow"
                 /\ hw'[k] = [hw[k] EXCEPT !.ifs = Mutate("pxe-allow", cmd[p].snap[k]).ifs]]_vars

\* A row of show names a cluster its object was in at some moment since it was
\* listed, or none; and show --clusters has no row of an object that was in
\* none of these clusters at any such moment, where a blank among them stands
\* for objects without cluster.  The two need not be the same cluster: it is
\* looked up twice (showCmd, GetClusterName).
ShownBelong ==
    \A p \in Procs : cmd[p].kind = "show" =>
        \A r \in cmd[p].rows :
            /\ r.cluster = Blank \/ <<r.key, r.cluster>> \in met[p]
            /\ cmd[p].args.clusters[1] # Blank =>
                  \E c \in Parts(cmd[p].args.clusters) : c = Blank \/ <<r.key, c>> \in met[p]
=============================================================================
