---------------------------- MODULE ClusterSync ----------------------------
(***************************************************************************)
(* cluster.SyncStatus: for each Kubernetes cluster known to NetBox, look   *)
(* up and if necessary create its FHRP group, the address of its control   *)
(* plane, the service template and its service.  Two programs call it: the *)
(* ClusterReconciler of the netbox-updater, for the cluster of an event,   *)
(* and the command "cluster sync-status", for all of them.  Every lookup   *)
(* and every creation is a request of its own, so the two interleave.      *)
(*                                                                         *)
(* NetBox refuses a second address or template, but accepts a second FHRP  *)
(* group or service of the same name.                                      *)
(***************************************************************************)
EXTENDS Integers, FiniteSets

CONSTANTS
    Clusters,      \* clusters of the two Kubernetes types in NetBox
    Place,         \* cluster -> its place in NetBox's default ordering
    Managed,       \* those of type managed-kubernetes; the others are standalone
    Headed,        \* standalone clusters with a head node that has an address
    Addrs,         \* IP addresses
    LbAddrs,       \* cluster -> addresses Cilium may announce for it
    TailscaleAddr, \* cluster -> address of its Tailscale device, or NoAddr
    Search,        \* address -> addresses whose text starts with it
    Named,         \* addresses for which a DNS name can be derived
    ManualGids,    \* group_ids that groups made by others may have
    HandAddrs,     \* addresses others may record, on no FHRP group
    MaxGid,        \* largest group_id NetBox accepts
    MaxRuns,       \* bound: runs of the command
    MaxEvents,     \* bound: changes of the clusters
    MaxFaults,     \* bound: failed requests and lost answers
    NoAddr, NoCluster

VARIABLES
    capi,       \* managed clusters whose CAPI Cluster object exists
    lb,         \* cluster -> first address of its Cilium annotation, or NoAddr
    groups,     \* FHRP groups: [id, name, gid]
    addr,       \* address -> id of its group, 0 if on none, -1 if not recorded
    dns,        \* address -> cluster whose DNS name it carries
    prefixes,   \* Tailscale addresses that lie in some prefix
    template,   \* whether the service template exists
    services,   \* services: [id, cluster, group]
    run,        \* caller -> the local state of SyncStatus
    queue,      \* clusters the ClusterReconciler has still to handle
    runs, events, faults,
    overlapped, \* history: two calls of SyncStatus have been under way at once
    lost,       \* history: the answer to a creation has been lost
    reported    \* history: cluster -> address last reported without error

netboxVars == <<groups, addr, dns, prefixes, template, services>>
historyVars == <<overlapped, lost, reported>>
vars == <<capi, lb, netboxVars, run, queue, runs, events, faults, historyVars>>

Callers == {"controller", "command"}

Pcs == {"idle", "nextid", "cluster", "findgroup", "makegroup", "readlb", "readts",
        "findprefix", "makeprefix", "findaddr", "patchdns", "makeaddr",
        "findtemplate", "maketemplate", "findservice", "makeservice"}

\* What the models need of their parameters.
ASSUME ClusterAssumption ==
    /\ IsFiniteSet(Clusters)
    /\ Place \in [Clusters -> Nat]
    /\ Managed \subseteq Clusters
    /\ Headed \subseteq Clusters \ Managed
    /\ LbAddrs \in [Clusters -> SUBSET Addrs]
    /\ TailscaleAddr \in [Clusters -> Addrs \cup {NoAddr}]
    /\ Search \in [Addrs -> SUBSET Addrs]
    /\ \A a \in Addrs : a \in Search[a]
    /\ Named \subseteq Addrs
    /\ ManualGids \subseteq Nat
    /\ IsFiniteSet(ManualGids)
    /\ HandAddrs \subseteq Addrs
    /\ MaxGid \in Nat /\ MaxRuns \in Nat /\ MaxEvents \in Nat /\ MaxFaults \in Nat
    /\ NoAddr \notin Addrs
    /\ NoCluster \notin Clusters

\* The local state of a call: the clusters still to do, the one being done,
\* the next group_id, the group found or made, the address being recorded,
\* whether that is the Cilium or the Tailscale one, the cluster whose DNS name
\* goes with it (none if no name is known), and the Cilium address.
Run == [pc : Pcs, todo : SUBSET Clusters, c : Clusters \cup {NoCluster}, next : Nat,
        grp : Nat, ip : Addrs \cup {NoAddr}, kind : {"lb", "ts"},
        dns : Clusters \cup {NoCluster}, lb : Addrs \cup {NoAddr}]

Idle == [pc |-> "idle", todo |-> {}, c |-> NoCluster, next |-> 0,
         grp |-> 0, ip |-> NoAddr, kind |-> "lb", dns |-> NoCluster, lb |-> NoAddr]

Group == [id : Nat, name : Clusters \cup {NoCluster}, gid : Nat]
Service == [id : Nat, cluster : Clusters, group : Nat]

TypeOK ==
    /\ capi \subseteq Managed
    /\ lb \in [Clusters -> Addrs \cup {NoAddr}]
    /\ groups \subseteq Group
    /\ addr \in [Addrs -> Nat \cup {-1}]
    /\ dns \in [Addrs -> Clusters \cup {NoCluster}]
    /\ prefixes \subseteq Addrs
    /\ template \in BOOLEAN
    /\ services \subseteq Service
    /\ run \in [Callers -> Run]
    /\ queue \subseteq Managed
    /\ runs \in 0..MaxRuns /\ events \in 0..MaxEvents /\ faults \in 0..MaxFaults
    /\ overlapped \in BOOLEAN /\ lost \in BOOLEAN
    /\ reported \in [Clusters -> Addrs \cup {NoAddr}]

\* Groups made by others carry no cluster's name.
Init ==
    /\ capi \in SUBSET Managed
    /\ lb \in [Clusters -> Addrs \cup {NoAddr}]
    /\ \A c \in Clusters : lb[c] \in LbAddrs[c] \cup {NoAddr}
    /\ \E M \in SUBSET ManualGids :
          groups = {[id |-> g, name |-> NoCluster, gid |-> g] : g \in M}
    /\ addr = [a \in Addrs |-> -1]
    /\ dns = [a \in Addrs |-> NoCluster]
    /\ prefixes = {}
    /\ template = FALSE
    /\ services = {}
    /\ run = [p \in Callers |-> Idle]
    /\ queue = capi
    /\ runs = 0 /\ events = 0 /\ faults = 0
    /\ overlapped = FALSE /\ lost = FALSE
    /\ reported = [c \in Clusters |-> NoAddr]

-----------------------------------------------------------------------------
(* The clusters.                                                           *)

SpendEvent == events < MaxEvents /\ events' = events + 1

\* A cluster is created, or deleted; either way its reconciler is told.
ClusterChanges(c) ==
    /\ SpendEvent
    /\ capi' = IF c \in capi THEN capi \ {c} ELSE capi \cup {c}
    /\ queue' = queue \cup {c}
    /\ UNCHANGED <<lb, netboxVars, run, runs, faults, historyVars>>

\* The control plane is announced under another address.  It is an object of
\* another kind: no event reaches the reconciler.
AddressChanges(c, a) ==
    /\ SpendEvent
    /\ lb[c] # a
    /\ lb' = [lb EXCEPT ![c] = a]
    /\ UNCHANGED <<capi, netboxVars, run, queue, runs, faults, historyVars>>

\* Someone records an address in NetBox, without group or DNS name, and
\* perhaps a prefix around it, which only matters for a Tailscale address.
RecordedByHand(a) ==
    /\ SpendEvent
    /\ addr[a] = -1
    /\ addr' = [addr EXCEPT ![a] = 0]
    /\ prefixes' \in {prefixes, prefixes \cup ({a} \cap {TailscaleAddr[c] : c \in Clusters})}
    /\ UNCHANGED <<capi, lb, groups, dns, template, services, run, queue, runs, faults, historyVars>>

\* The cache is resynchronised: every existing cluster is queued.
Resync ==
    /\ ~(capi \subseteq queue)
    /\ queue' = queue \cup capi
    /\ UNCHANGED <<capi, lb, netboxVars, run, runs, events, faults, historyVars>>

-----------------------------------------------------------------------------
(* SyncStatus.                                                             *)

At(p, pc) == run[p].pc = pc

\* A step of p that moves to pc.  What is known of an address is forgotten
\* after it, and what is known of a cluster after the cluster.
Goto(p, pc) ==
    run' = [run EXCEPT ![p] =
              CASE pc = "cluster" -> [Idle EXCEPT !.pc = pc, !.next = run[p].next,
                                                              !.todo = run[p].todo]
                [] pc \in {"readts", "findtemplate"} -> [@ EXCEPT !.pc = pc, !.ip = NoAddr,
                                                       !.kind = "lb", !.dns = NoCluster]
                [] OTHER -> [@ EXCEPT !.pc = pc]]

SpendFault == faults < MaxFaults /\ faults' = faults + 1

\* What a step of SyncStatus always leaves alone.
Quiet == UNCHANGED <<capi, lb, queue, runs, events, overlapped>>

Begin(p, todo) ==
    /\ run' = [run EXCEPT ![p] = [Idle EXCEPT !.pc = "nextid", !.todo = todo]]
    /\ overlapped' = (overlapped \/ \E q \in Callers \ {p} : run[q].pc # "idle")

\* ClusterReconciler.Reconcile: nothing to do when the object is gone.
Reconcile(c) ==
    /\ At("controller", "idle")
    /\ c \in queue
    /\ queue' = queue \ {c}
    /\ IF c \in capi THEN Begin("controller", {c}) ELSE UNCHANGED <<run, overlapped>>
    /\ UNCHANGED <<capi, lb, netboxVars, runs, events, faults, lost, reported>>

\* "cluster sync-status".
Command ==
    /\ At("command", "idle")
    /\ runs < MaxRuns
    /\ runs' = runs + 1
    /\ Begin("command", Clusters)
    /\ UNCHANGED <<capi, lb, netboxVars, queue, events, faults, lost, reported>>

\* Mutant: every run numbers its groups from one.
GetNextFHRPGroupID_One == 1

\* One more than the largest group_id in use.
GetNextFHRPGroupID ==
    IF groups = {} THEN 1
    ELSE CHOOSE n \in {g.gid + 1 : g \in groups} : \A g \in groups : g.gid < n

\* The next group_id is read once, for all clusters of the call.
NextID(p) ==
    /\ At(p, "nextid")
    /\ run' = [run EXCEPT ![p].next = GetNextFHRPGroupID, ![p].pc = "cluster"]
    /\ Quiet /\ UNCHANGED <<netboxVars, faults, lost, reported>>

\* Mutant: whoever called, the clusters of the call are queued again.
NextIDFails_AllQueued(p) ==
    /\ At(p, "nextid")
    /\ SpendFault
    /\ queue' = queue \cup run[p].todo
    /\ run' = [run EXCEPT ![p] = Idle]
    /\ UNCHANGED <<capi, lb, netboxVars, runs, events, historyVars>>

\* When the clusters or the next group_id cannot be read the call returns the
\* error: the controller queues the cluster again, the command exits.
NextIDFails(p) ==
    /\ At(p, "nextid")
    /\ SpendFault
    /\ queue' = IF p = "controller" THEN queue \cup run[p].todo ELSE queue
    /\ run' = [run EXCEPT ![p] = Idle]
    /\ UNCHANGED <<capi, lb, netboxVars, runs, events, historyVars>>

\* The next cluster of the call, in the order of the listing, and its
\* control-plane endpoint: the CAPI object of a managed cluster, the head node
\* of a standalone one.  A cluster without, or for which it cannot be read, is
\* reported and left.
NextCluster(p) ==
    /\ At(p, "cluster")
    /\ \E c \in {d \in run[p].todo : \A e \in run[p].todo : Place[d] <= Place[e]} :
          \/ /\ c \in capi \cup Headed
             /\ run' = [run EXCEPT ![p].todo = @ \ {c}, ![p].c = c, ![p].pc = "findgroup"]
             /\ UNCHANGED faults
          \/ /\ c \notin capi \cup Headed
             /\ run' = [run EXCEPT ![p].todo = @ \ {c}]
             /\ UNCHANGED faults
          \/ /\ SpendFault
             /\ run' = [run EXCEPT ![p].todo = @ \ {c}]
    /\ Quiet /\ UNCHANGED <<netboxVars, lost, reported>>

\* The call is over.
Return(p) ==
    /\ At(p, "cluster")
    /\ run[p].todo = {}
    /\ run' = [run EXCEPT ![p] = Idle]
    /\ Quiet /\ UNCHANGED <<netboxVars, faults, lost, reported>>

\* The groups of a cluster, and the one NetBox lists first.
GroupsOf(c) == {g \in groups : g.name = c}
IsFirst(g, G) == g \in G /\ \A h \in G : g.gid < h.gid \/ (g.gid = h.gid /\ g.id <= h.id)

\* Mutant: a cluster that has its group is taken to be done.
FindGroup_Done(p) ==
    /\ At(p, "findgroup")
    /\ Goto(p, IF GroupsOf(run[p].c) = {} THEN "makegroup" ELSE "cluster")
    /\ Quiet /\ UNCHANGED <<netboxVars, faults, lost, reported>>

\* getOrCreateFHRPGroup, the lookup by name.
FindGroup(p) ==
    /\ At(p, "findgroup")
    /\ LET G == GroupsOf(run[p].c) IN
       \/ /\ G = {}
          /\ Goto(p, "makegroup")
       \/ \E g \in G : /\ IsFirst(g, G)
                       /\ run' = [run EXCEPT ![p].grp = g.id, ![p].pc = "readlb"]
    /\ Quiet /\ UNCHANGED <<netboxVars, faults, lost, reported>>

\* An error of the current cluster: it is reported and the call goes on.
Skip(p) == Goto(p, "cluster")

\* The outcomes of a creation: it succeeds and p goes on as in "ok"; or it is
\* applied and its answer is lost.
Answered(p, ok) ==
    \/ /\ run' = ok
       /\ UNCHANGED <<faults, lost>>
    \/ /\ SpendFault
       /\ lost' = TRUE
       /\ Skip(p)

NewId(S) == CHOOSE n \in 1..(Cardinality(S) + 1) : \A x \in S : x.id # n

\* Mutant: the next group_id is not advanced.
MakeGroup_SameID(p) ==
    /\ At(p, "makegroup")
    /\ run[p].next <= MaxGid
    /\ groups' = groups \cup {[id |-> NewId(groups), name |-> run[p].c, gid |-> run[p].next]}
    /\ Answered(p, [run EXCEPT ![p].grp = NewId(groups), ![p].pc = "readlb"])
    /\ Quiet /\ UNCHANGED <<addr, dns, prefixes, template, services, reported>>

\* getOrCreateFHRPGroup, the creation; the next group_id advances.
MakeGroup(p) ==
    /\ At(p, "makegroup")
    /\ run[p].next <= MaxGid
    /\ groups' = groups \cup {[id |-> NewId(groups), name |-> run[p].c, gid |-> run[p].next]}
    /\ Answered(p, [run EXCEPT ![p].grp = NewId(groups), ![p].next = @ + 1, ![p].pc = "readlb"])
    /\ Quiet /\ UNCHANGED <<addr, dns, prefixes, template, services, reported>>

\* NetBox refuses a group_id beyond its range, an address that has been
\* recorded in the meantime and a second template.
Refused(p) ==
    /\ \/ At(p, "makegroup") /\ run[p].next > MaxGid
       \/ At(p, "makeaddr") /\ run[p].kind = "lb" /\ addr[run[p].ip] # -1
       \/ At(p, "maketemplate") /\ template
    /\ Skip(p)
    /\ Quiet /\ UNCHANGED <<netboxVars, faults, lost, reported>>

\* The DNS name that goes with address a of cluster c: the host name of its
\* endpoint or of its Tailscale device, or one from the prefix around a.
NameFor(c, a) == IF a \in Named THEN c ELSE NoCluster

\* getKamajiControlPlaneIP, for managed clusters; without an address the call
\* goes on.  getDNSNameFromPrefix, a request that reads nothing the model
\* changes, is part of the step; when it fails there is no name.
ReadLb(p) ==
    /\ At(p, "readlb")
    /\ LET c == run[p].c IN
       IF c \in Managed /\ lb[c] # NoAddr
       THEN \E n \in {NameFor(c, lb[c]), NoCluster} :
               /\ run' = [run EXCEPT ![p].pc = "findaddr", ![p].ip = lb[c], ![p].lb = lb[c],
                                     ![p].dns = n]
               /\ IF n = NameFor(c, lb[c]) THEN UNCHANGED faults ELSE SpendFault
       ELSE /\ Goto(p, IF c \in Managed THEN "readts" ELSE "findtemplate")
            /\ UNCHANGED faults
    /\ Quiet /\ UNCHANGED <<netboxVars, lost, reported>>

\* getKamajiTailscaleDevice.  The Secret of the device is in a namespace the
\* controller does not cache: only the command can read it.
ReadTs(p) ==
    /\ At(p, "readts")
    /\ LET c == run[p].c
           a == TailscaleAddr[c]
       IN  IF a = NoAddr \/ p = "controller"
           THEN Goto(p, "findtemplate")
           ELSE run' = [run EXCEPT ![p].pc = "findprefix", ![p].kind = "ts", ![p].ip = a,
                                   ![p].dns = NameFor(c, a)]
    /\ Quiet /\ UNCHANGED <<netboxVars, faults, lost, reported>>

\* getOrCreateIPAMPrefix, the lookup and the creation of a host prefix, before
\* the Tailscale address itself.
FindPrefix(p) ==
    /\ At(p, "findprefix")
    /\ Goto(p, IF run[p].ip \in prefixes THEN "findaddr" ELSE "makeprefix")
    /\ Quiet /\ UNCHANGED <<netboxVars, faults, lost, reported>>

MakePrefix(p) ==
    /\ At(p, "makeprefix")
    /\ prefixes' = prefixes \cup {run[p].ip}
    /\ Goto(p, "findaddr")
    /\ Quiet /\ UNCHANGED <<groups, addr, dns, template, services, faults, lost, reported>>

\* Where the call goes on after an address.
AfterAddr(p) == IF run[p].kind = "lb" THEN "readts" ELSE "findtemplate"

\* The recorded addresses a search for a finds; the address itself is listed
\* first.
Found(a) == {b \in Search[a] : addr[b] # -1}
FirstFound(a) == IF a \in Found(a) THEN {a} ELSE Found(a)

\* getOrCreateIPAddress, the search, which takes the first address found.
FindAddr(p) ==
    /\ At(p, "findaddr")
    /\ LET a == run[p].ip IN
       \/ /\ Found(a) = {}
          /\ Goto(p, "makeaddr")
       \/ \E b \in FirstFound(a) :
             IF run[p].dns # NoCluster /\ dns[b] = NoCluster
             THEN run' = [run EXCEPT ![p].ip = b, ![p].pc = "patchdns"]
             ELSE Goto(p, AfterAddr(p))
    /\ Quiet /\ UNCHANGED <<netboxVars, faults, lost, reported>>

\* getOrCreateIPAddress, the missing DNS name; a failure is only logged.
PatchDns(p) ==
    /\ At(p, "patchdns")
    /\ \/ /\ dns' = [dns EXCEPT ![run[p].ip] = run[p].dns]
          /\ UNCHANGED faults
       \/ UNCHANGED dns /\ SpendFault
    /\ Goto(p, AfterAddr(p))
    /\ Quiet /\ UNCHANGED <<groups, addr, prefixes, template, services, lost, reported>>

\* getOrCreateIPAddress, the creation, assigned to the group of the call.
MakeAddr(p) ==
    /\ At(p, "makeaddr")
    /\ addr[run[p].ip] = -1
    /\ addr' = [addr EXCEPT ![run[p].ip] = run[p].grp]
    /\ dns' = [dns EXCEPT ![run[p].ip] = run[p].dns]
    /\ \/ Goto(p, AfterAddr(p)) /\ UNCHANGED <<faults, lost>>
       \/ /\ SpendFault
          /\ lost' = TRUE
          /\ Goto(p, IF run[p].kind = "lb" THEN "cluster" ELSE "findtemplate")
    /\ Quiet /\ UNCHANGED <<groups, prefixes, template, services, reported>>

\* A Tailscale address that cannot be recorded is only logged.
TailscaleRefused(p) ==
    /\ At(p, "makeaddr")
    /\ run[p].kind = "ts"
    /\ addr[run[p].ip] # -1
    /\ Goto(p, "findtemplate")
    /\ Quiet /\ UNCHANGED <<netboxVars, faults, lost, reported>>

\* getOrCreateServiceTemplate, the lookup and the creation.
FindTemplate(p) ==
    /\ At(p, "findtemplate")
    /\ Goto(p, IF template THEN "findservice" ELSE "maketemplate")
    /\ Quiet /\ UNCHANGED <<netboxVars, faults, lost, reported>>

MakeTemplate(p) ==
    /\ At(p, "maketemplate")
    /\ ~template
    /\ template' = TRUE
    /\ Answered(p, [run EXCEPT ![p].pc = "findservice"])
    /\ Quiet /\ UNCHANGED <<groups, addr, dns, prefixes, services, reported>>

\* The cluster is reported without error.
Report(p) ==
    LET c == run[p].c
    IN  reported' = [reported EXCEPT ![c] = IF run[p].lb = NoAddr THEN @ ELSE run[p].lb]

\* getOrCreateService, the lookup by description.
FindService(p) ==
    /\ At(p, "findservice")
    /\ IF \E s \in services : s.cluster = run[p].c
       THEN Goto(p, "cluster") /\ Report(p)
       ELSE Goto(p, "makeservice") /\ UNCHANGED reported
    /\ Quiet /\ UNCHANGED <<netboxVars, faults, lost>>

\* Mutant: the service is attached to the newest group.
MakeService_NewestGroup(p) ==
    /\ At(p, "makeservice")
    /\ \E g \in groups :
          /\ \A h \in groups : h.id <= g.id
          /\ services' = services \cup
                {[id |-> NewId(services), cluster |-> run[p].c, group |-> g.id]}
    /\ Goto(p, "cluster")
    /\ Report(p)
    /\ Quiet /\ UNCHANGED <<groups, addr, dns, prefixes, template, faults, lost>>

\* getOrCreateService, the creation; if its answer is lost the cluster is
\* reported with an error.
MakeService(p) ==
    /\ At(p, "makeservice")
    /\ services' = services \cup
          {[id |-> NewId(services), cluster |-> run[p].c, group |-> run[p].grp]}
    /\ Goto(p, "cluster")
    /\ \/ Report(p) /\ UNCHANGED <<faults, lost>>
       \/ SpendFault /\ lost' = TRUE /\ UNCHANGED reported
    /\ Quiet /\ UNCHANGED <<groups, addr, dns, prefixes, template>>

\* The states in which a request about the current cluster is under way.
Requesting(p) ==
    \/ At(p, "readlb") /\ run[p].c \in Managed
    \/ run[p].pc \in {"findgroup", "makegroup", "readts", "findprefix", "makeprefix",
                      "findaddr", "makeaddr", "findtemplate", "maketemplate", "findservice", "makeservice"}

\* Mutant: no address that cannot be recorded ends the cluster.
RequestFails_AddressLogged(p) ==
    /\ Requesting(p)
    /\ SpendFault
    /\ Goto(p, CASE At(p, "readlb") -> "readts"
                 [] At(p, "readts") -> "findtemplate"
                 [] run[p].pc \in {"findprefix", "makeprefix"} -> "findaddr"
                 [] run[p].pc \in {"findaddr", "makeaddr"} -> AfterAddr(p)
                 [] OTHER -> "cluster")
    /\ Quiet /\ UNCHANGED <<netboxVars, lost, reported>>

\* A request fails without effect.  It is an error of the cluster, unless it
\* was made to find an address or to record that of Tailscale or its prefix,
\* which is only logged.
RequestFails(p) ==
    /\ Requesting(p)
    /\ SpendFault
    /\ Goto(p, CASE At(p, "readlb") -> "readts"
                 [] At(p, "readts") -> "findtemplate"
                 [] run[p].pc \in {"findprefix", "makeprefix"} -> "findaddr"
                 [] run[p].pc \in {"findaddr", "makeaddr"} /\ run[p].kind = "ts" -> "findtemplate"
                 [] OTHER -> "cluster")
    /\ Quiet /\ UNCHANGED <<netboxVars, lost, reported>>

\* The process dies.  A restarted controller finds every existing cluster.
Dies(p) ==
    /\ ~At(p, "idle")
    /\ SpendFault
    /\ run' = [run EXCEPT ![p] = Idle]
    /\ queue' = IF p = "controller" THEN capi ELSE queue
    /\ UNCHANGED <<capi, lb, netboxVars, runs, events, historyVars>>

SyncStatus(p) ==
    \/ NextID(p) \/ NextIDFails(p) \/ NextCluster(p) \/ Return(p)
    \/ FindGroup(p) \/ MakeGroup(p) \/ Refused(p)
    \/ ReadLb(p) \/ ReadTs(p) \/ FindPrefix(p) \/ MakePrefix(p)
    \/ FindAddr(p) \/ PatchDns(p) \/ MakeAddr(p) \/ TailscaleRefused(p)
    \/ FindTemplate(p) \/ MakeTemplate(p)
    \/ FindService(p) \/ MakeService(p)
    \/ RequestFails(p)

Next ==
    \/ \E c \in Managed : ClusterChanges(c)
    \/ \E c \in Managed : \E a \in LbAddrs[c] : AddressChanges(c, a)
    \/ \E a \in HandAddrs : RecordedByHand(a)
    \/ Resync
    \/ \E c \in Managed : Reconcile(c)
    \/ Command
    \/ \E p \in Callers : SyncStatus(p)
    \/ \E p \in Callers : Dies(p)

Spec == Init /\ [][Next]_vars

(***************************************************************************)
(* The controller goes on with its call, takes every queued cluster in     *)
(* turn and has its cache resynchronised.  The command, the clusters and   *)
(* faults owe nothing.                                                     *)
(***************************************************************************)
FairSpec ==
    /\ Spec
    /\ WF_vars(SyncStatus("controller"))
    /\ \A c \in Managed : SF_vars(Reconcile(c))
    /\ WF_vars(Resync)

-----------------------------------------------------------------------------
(* Properties.                                                             *)

AtMostOne(S) == \A x, y \in S : x = y

\* As long as calls of SyncStatus do not overlap, every cluster has at most
\* one FHRP group and one service, whatever failed, was interrupted or was
\* repeated; and if no answer to a creation was lost either, no two groups
\* share a group_id (getOrCreateFHRPGroup, getOrCreateService, nextID).
SerialCallsDoNotDuplicate ==
    ~overlapped =>
        /\ \A c \in Clusters : /\ AtMostOne(GroupsOf(c))
                               /\ AtMostOne({s \in services : s.cluster = c})
        /\ ~lost => \A g, h \in groups : g.gid = h.gid => g = h

\* The addresses SyncStatus may record for a cluster.
Announced(c) == LbAddrs[c] \cup {TailscaleAddr[c]}

\* Even when calls overlap and groups are duplicated, a service is attached
\* to a group of its own cluster, and an address recorded by SyncStatus to a
\* group of a cluster that announced it; a Tailscale address it has recorded
\* lies in a prefix, unless a request failed.  A DNS name is that of a cluster
\* whose search finds the address, and unless a request failed that of the
\* cluster whose group it is on (getOrCreateService, getOrCreateIPAddress,
\* getDNSNameFromPrefix, syncTailscaleIPAM).
AttachedToOwnCluster ==
    /\ \A s \in services : \E g \in GroupsOf(s.cluster) : g.id = s.group
    /\ \A a \in Addrs : addr[a] > 0 =>
          \E g \in groups : /\ g.id = addr[a]
                            /\ g.name \in Clusters
                            /\ a \in Announced(g.name)
                            /\ dns[a] \in {g.name, NoCluster} \/ faults > 0
                            /\ a = TailscaleAddr[g.name] => a \in prefixes \/ faults > 0
    /\ \A a \in Addrs : dns[a] # NoCluster =>
          \E b \in Addrs : b \in Announced(dns[a]) /\ a \in Search[b]

\* A cluster reported without error has its Cilium address recorded on one of
\* its FHRP groups ("ensures the given IP address exists in NetBox IPAM and
\* is assigned to the specified FHRP group", getOrCreateIPAddress).
ReportedAddressAssigned ==
    \A c \in Clusters :
        reported[c] # NoAddr =>
            \E g \in GroupsOf(c) : addr[reported[c]] = g.id

\* What getOrCreateIPAddress does ensure, whatever failed in between: the
\* Cilium address of a cluster reported without error is on one of its groups;
\* or someone else had recorded it (by hand, or as that of another cluster),
\* and it is left where it was; or the search took a longer one for it, and
\* it need not be recorded at all.
ReportedAddressKnown ==
    \A c \in Clusters : LET a == reported[c] IN
        a # NoAddr =>
            \/ \E g \in GroupsOf(c) : addr[a] = g.id
            \/ addr[a] = 0
            \/ \E g \in groups : g.name \in Clusters \ {c} /\ addr[a] = g.id
            \/ \E b \in Search[a] \ {a} : addr[b] # -1

\* A managed cluster that stays ends up with a service, although an error of
\* a single cluster is not retried (ClusterReconciler.Reconcile); unless some
\* group has the largest group_id, after which getNextFHRPGroupID has none to
\* give however many are free.
ManagedClusterGetsService ==
    \A c \in Managed :
        <>[](c \in capi) =>
            <>[](\/ \E s \in services : s.cluster = c
                 \/ \E g \in groups : g.gid >= MaxGid)
=============================================================================
