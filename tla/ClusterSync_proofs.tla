------------------------- MODULE ClusterSync_proofs -------------------------
(***************************************************************************)
(* Proofs about ClusterSync, for every set of clusters and addresses and   *)
(* every bound.                                                            *)
(***************************************************************************)
EXTENDS ClusterSync, Lists_proofs

-----------------------------------------------------------------------------
(* The operators of the model.                                             *)

\* NetBox gives a new object a positive id that no other object of its kind
\* has: among one id more than there are objects, one is free.
LEMMA NewIdIsFresh ==
    ASSUME NEW S, IsFiniteSet(S)
    PROVE  /\ NewId(S) \in Nat \ {0}
           /\ \A x \in S : x.id # NewId(S)
<1> DEFINE n == Cardinality(S)
           ids == {x.id : x \in S}
           f == [x \in S |-> x.id]
<1>1. n \in Nat
  BY FS_CardinalityType
<1>2. f \in Surjection(S, ids)
  BY DEF Surjection
<1>3. IsFiniteSet(ids) /\ Cardinality(ids) <= n
  BY <1>2, FS_Surjection
<1>4. ~(1..(n + 1) \subseteq ids)
  <2>1. SUFFICES ASSUME 1..(n + 1) \subseteq ids PROVE FALSE
    OBVIOUS
  <2>2. Cardinality(1..(n + 1)) <= Cardinality(ids)
    BY <1>3, <2>1, FS_Subset
  <2>3. Cardinality(1..(n + 1)) = n + 1
    BY <1>1, FS_Interval
  <2>4. Cardinality(ids) \in Nat
    BY <1>3, FS_CardinalityType
  <2> QED
    BY <1>1, <1>3, <2>2, <2>3, <2>4
<1>5. \E k \in 1..(n + 1) : \A x \in S : x.id # k
  BY <1>4
<1>6. NewId(S) \in 1..(n + 1) /\ \A x \in S : x.id # NewId(S)
  BY <1>5 DEF NewId
<1> QED
  BY <1>1, <1>6

\* getNextFHRPGroupID returns a group_id beyond all those in use.
LEMMA NextGroupID ==
    ASSUME groups \subseteq Group, IsFiniteSet(groups)
    PROVE  /\ GetNextFHRPGroupID \in Nat
           /\ \A g \in groups : g.gid < GetNextFHRPGroupID
<1>1. CASE groups = {}
  BY <1>1 DEF GetNextFHRPGroupID
<1>2. CASE groups # {}
  <2> DEFINE gids == {g.gid : g \in groups}
             f == [g \in groups |-> g.gid]
             nexts == {g.gid + 1 : g \in groups}
  <2>1. f \in Surjection(groups, gids)
    BY DEF Surjection
  <2>2. IsFiniteSet(gids)
    BY <2>1, FS_Surjection
  <2>3. gids \in SUBSET Nat /\ gids # {}
    BY <1>2 DEF Group
  <2>4. PICK m \in gids : \A x \in gids : x <= m
    BY <2>2, <2>3, FiniteMaximum
  <2>5. m + 1 \in nexts /\ \A g \in groups : g.gid < m + 1
    BY <2>3, <2>4
  <2>6. nexts \subseteq Nat
    BY DEF Group
  <2>7. GetNextFHRPGroupID \in nexts /\ \A g \in groups : g.gid < GetNextFHRPGroupID
    BY <1>2, <2>5 DEF GetNextFHRPGroupID
  <2> QED
    BY <2>6, <2>7
<1> QED
  BY <1>1, <1>2

-----------------------------------------------------------------------------
(* The inductive invariants.                                               *)

\* The states of a call in which it is at work on an address, in which it
\* has the group of its cluster, and in which it has a cluster at all.
AddrPcs == {"findprefix", "makeprefix", "findaddr", "patchdns", "makeaddr"}
GroupedPcs == AddrPcs \cup {"readlb", "readts", "findtemplate", "maketemplate", "findservice", "makeservice"}
BusyPcs == GroupedPcs \cup {"findgroup", "makegroup"}

\* What a call knows: the controller only ever handles managed clusters, and
\* an address being recorded is one of the cluster being done, under its name
\* or under none; one whose name is being set was found by a search for such a
\* one.
CallOK(p) ==
    /\ p = "controller" => run[p].todo \subseteq Managed
    /\ run[p].pc \in BusyPcs => run[p].c \in Clusters
    /\ run[p].pc \in AddrPcs => run[p].ip \in Addrs
    /\ run[p].pc \in AddrPcs \ {"patchdns"} =>
          IF run[p].kind = "lb" THEN run[p].ip \in LbAddrs[run[p].c] /\ run[p].ip = run[p].lb
          ELSE run[p].ip = TailscaleAddr[run[p].c]
    /\ run[p].pc \notin AddrPcs => run[p].kind = "lb"
    /\ run[p].pc \in {"findprefix", "makeprefix"} => run[p].kind = "ts"
    /\ run[p].pc \in AddrPcs => run[p].dns \in {run[p].c, NoCluster}
    /\ run[p].pc = "patchdns" =>
          \E b \in Addrs : b \in Announced(run[p].c) /\ run[p].ip \in Search[b]

WellFormed ==
    /\ TypeOK
    /\ IsFiniteSet(groups) /\ IsFiniteSet(services)
    /\ \A c \in Clusters : lb[c] \in LbAddrs[c] \cup {NoAddr}
    /\ \A p \in Callers : CallOK(p)

\* What a call relies on between two requests about one cluster, while the
\* other caller may do anything: its group is there and carries the name of
\* its cluster; and unless a request failed, an address whose DNS name it is
\* about to set is on no group, one it is about to record has its DNS name,
\* and a Tailscale address lies in a prefix by then.
HasGroup(p) ==
    run[p].pc \in GroupedPcs => \E g \in GroupsOf(run[p].c) : g.id = run[p].grp

CallRelies(p) ==
    /\ HasGroup(p)
    /\ run[p].pc = "patchdns" => addr[run[p].ip] = 0 \/ faults > 0
    /\ run[p].pc \in AddrPcs \ {"patchdns"} =>
          run[p].dns = NameFor(run[p].c, run[p].ip) \/ faults > 0
    /\ run[p].pc \in {"findaddr", "makeaddr"} /\ run[p].kind = "ts" =>
          run[p].ip \in prefixes \/ faults > 0

Attachment ==
    /\ \A p \in Callers : CallRelies(p)
    /\ \A a \in Named : addr[a] > 0 => dns[a] # NoCluster \/ faults > 0
    /\ AttachedToOwnCluster

\* As long as calls do not overlap, what a lookup found missing is still
\* missing when it is created, and, unless an answer was lost, the next
\* group_id of the call is beyond all group_ids in use.
AloneRelies(p) ==
    /\ run[p].pc = "makegroup" => GroupsOf(run[p].c) = {}
    /\ run[p].pc = "makeservice" => \A s \in services : s.cluster # run[p].c
    /\ ~lost /\ run[p].pc \notin {"idle", "nextid"} => \A g \in groups : g.gid < run[p].next

Serial ==
    ~overlapped =>
        /\ \A p, q \in Callers : p # q => run[p].pc = "idle" \/ run[q].pc = "idle"
        /\ \A p \in Callers : AloneRelies(p)
        /\ SerialCallsDoNotDuplicate

\* What ReportedAddressKnown says of a cluster and its Cilium address; a call
\* that has left the address behind has it so.
Accounted(c, a) ==
    \/ \E g \in GroupsOf(c) : addr[a] = g.id
    \/ addr[a] = 0
    \/ \E g \in groups : g.name \in Clusters \ {c} /\ addr[a] = g.id
    \/ \E b \in Search[a] \ {a} : addr[b] # -1

AddressDone(p) ==
    /\ run[p].lb # NoAddr => run[p].pc \in GroupedPcs \ {"readlb"}
    /\ run[p].lb # NoAddr /\ (run[p].pc \in {"findaddr", "makeaddr"} => run[p].kind = "ts") =>
          Accounted(run[p].c, run[p].lb)

Reports ==
    /\ \A p \in Callers : HasGroup(p) /\ AddressDone(p)
    /\ \A a \in Addrs : addr[a] > 0 => \E g \in groups : g.id = addr[a] /\ g.name \in Clusters
    /\ ReportedAddressKnown

-----------------------------------------------------------------------------
(* Type correctness.                                                       *)

\* The bounds and the special values.
LEMMA Constants ==
    /\ MaxGid \in Nat /\ MaxRuns \in Nat /\ MaxEvents \in Nat /\ MaxFaults \in Nat
    /\ NoAddr \notin Addrs /\ NoCluster \notin Clusters
    /\ Managed \subseteq Clusters /\ Headed \subseteq Clusters
    /\ TailscaleAddr \in [Clusters -> Addrs \cup {NoAddr}]
    /\ LbAddrs \in [Clusters -> SUBSET Addrs]
    /\ Search \in [Addrs -> SUBSET Addrs]
    /\ HandAddrs \subseteq Addrs
BY ClusterAssumption DEF ClusterAssumption

\* A call that has not begun, or is over.
LEMMA IdleType == Idle \in Run /\ Idle.pc = "idle"
BY DEF Idle, Run, Pcs

\* What Goto does to the local state of a call, field by field.
LEMMA GotoFields ==
    ASSUME run \in [Callers -> Run], NEW p \in Callers, NEW pc \in Pcs, Goto(p, pc)
    PROVE  /\ run' \in [Callers -> Run]
           /\ \A q \in Callers \ {p} : run'[q] = run[q]
           /\ run'[p].pc = pc
           /\ run'[p].todo = run[p].todo
           /\ run'[p].next = run[p].next
           /\ pc # "cluster" => run'[p].c = run[p].c
           /\ pc # "cluster" => run'[p].grp = run[p].grp
           /\ pc # "cluster" => run'[p].lb = run[p].lb
           /\ pc \notin {"cluster", "readts", "findtemplate"} =>
                 run'[p].ip = run[p].ip /\ run'[p].kind = run[p].kind /\ run'[p].dns = run[p].dns
           /\ pc \in {"cluster", "readts", "findtemplate"} => run'[p].kind = "lb"
           /\ pc = "cluster" => run'[p].lb = NoAddr
<1>0. run[p] \in Run
  OBVIOUS
<1>1. CASE pc = "cluster"
  <2>1. run' = [run EXCEPT ![p] = [Idle EXCEPT !.pc = pc, !.next = run[p].next, !.todo = run[p].todo]]
    BY <1>1 DEF Goto
  <2> DEFINE r == [Idle EXCEPT !.pc = pc, !.next = run[p].next, !.todo = run[p].todo]
  <2>2. /\ r \in Run /\ r.pc = pc /\ r.todo = run[p].todo /\ r.next = run[p].next
        /\ r.kind = "lb" /\ r.lb = NoAddr
    BY <1>0, <1>1, IdleType DEF Run, Idle
  <2> HIDE DEF r
  <2>3. run' = [run EXCEPT ![p] = r]
    BY <2>1 DEF r
  <2> QED
    BY <1>1, <2>2, <2>3
<1>2. CASE pc \in {"readts", "findtemplate"}
  <2> DEFINE r == [run[p] EXCEPT !.pc = pc, !.ip = NoAddr, !.kind = "lb", !.dns = NoCluster]
  <2>1. run' = [run EXCEPT ![p] = r]
    BY <1>2 DEF Goto
  <2>2. /\ r \in Run /\ r.pc = pc /\ r.todo = run[p].todo /\ r.next = run[p].next
        /\ r.c = run[p].c /\ r.grp = run[p].grp /\ r.lb = run[p].lb /\ r.kind = "lb"
    BY <1>0, <1>2 DEF Run
  <2> HIDE DEF r
  <2> QED
    BY <1>2, <2>1, <2>2
<1>3. CASE pc \notin {"cluster", "readts", "findtemplate"}
  <2> DEFINE r == [run[p] EXCEPT !.pc = pc]
  <2>1. run' = [run EXCEPT ![p] = r]
    BY <1>3 DEF Goto
  <2>2. /\ r \in Run /\ r.pc = pc /\ r.todo = run[p].todo /\ r.next = run[p].next
        /\ r.c = run[p].c /\ r.grp = run[p].grp /\ r.lb = run[p].lb
        /\ r.ip = run[p].ip /\ r.kind = run[p].kind /\ r.dns = run[p].dns
    BY <1>0, <1>3 DEF Run
  <2> HIDE DEF r
  <2> QED
    BY <1>3, <2>1, <2>2
<1> QED
  BY <1>1, <1>2, <1>3

\* A call that moves to a state of its own making: only p's local state
\* changes.
OnlyRun(p, r) == run' = [run EXCEPT ![p] = r]

\* A step that changes only the run of p leaves the others' runs alone.
LEMMA OnlyRunFields ==
    ASSUME run \in [Callers -> Run], NEW p \in Callers, NEW r \in Run, OnlyRun(p, r)
    PROVE  run' \in [Callers -> Run] /\ run'[p] = r /\ \A q \in Callers \ {p} : run'[q] = run[q]
BY DEF OnlyRun

\* A step of a call leaves the other call alone, and what the call knows
\* stays right.
LEMMA SyncStep ==
    ASSUME WellFormed, NEW p \in Callers, SyncStatus(p)
    PROVE  /\ run' \in [Callers -> Run]
           /\ \A q \in Callers \ {p} : run'[q] = run[q]
           /\ CallOK(p)'
<1> USE DEF At
<1>0. /\ run \in [Callers -> Run] /\ run[p] \in Run /\ CallOK(p)
      /\ lb \in [Clusters -> Addrs \cup {NoAddr}]
      /\ groups \subseteq Group /\ capi \subseteq Clusters
      /\ \A c \in Clusters : lb[c] \in LbAddrs[c] \cup {NoAddr}
  BY Constants DEF WellFormed, TypeOK
<1> DEFINE Good(r) == /\ r \in Run
                      /\ p = "controller" => r.todo \subseteq Managed
                      /\ r.pc \in BusyPcs => r.c \in Clusters
                      /\ r.pc \in AddrPcs => r.ip \in Addrs
                      /\ r.pc \in AddrPcs \ {"patchdns"} =>
                            IF r.kind = "lb" THEN r.ip \in LbAddrs[r.c] /\ r.ip = r.lb
                            ELSE r.ip = TailscaleAddr[r.c]
                      /\ r.pc \notin AddrPcs => r.kind = "lb"
                      /\ r.pc \in {"findprefix", "makeprefix"} => r.kind = "ts"
                      /\ r.pc \in AddrPcs => r.dns \in {r.c, NoCluster}
                      /\ r.pc = "patchdns" =>
                            \E b \in Addrs : b \in Announced(r.c) /\ r.ip \in Search[b]
<1>a. ASSUME NEW r, Good(r), OnlyRun(p, r)
      PROVE  /\ run' \in [Callers -> Run]
             /\ \A q \in Callers \ {p} : run'[q] = run[q]
             /\ CallOK(p)'
  <2>1. run' \in [Callers -> Run] /\ run'[p] = r /\ \A q \in Callers \ {p} : run'[q] = run[q]
    BY <1>0, <1>a, OnlyRunFields
  <2> QED
    BY <1>a, <2>1 DEF CallOK
<1>b. ASSUME NEW pc \in Pcs \ {"patchdns"}, Goto(p, pc),
             pc \notin {"cluster", "readts", "findtemplate"} =>
                /\ pc \in BusyPcs => run[p].pc \in BusyPcs
                /\ pc \in AddrPcs => run[p].pc \in AddrPcs \ {"patchdns"}
                /\ pc \notin AddrPcs => run[p].kind = "lb"
                /\ pc \in {"findprefix", "makeprefix"} => run[p].kind = "ts",
             pc \in {"readts", "findtemplate"} => run[p].pc \in BusyPcs
      PROVE  /\ run' \in [Callers -> Run]
             /\ \A q \in Callers \ {p} : run'[q] = run[q]
             /\ CallOK(p)'
  BY <1>0, <1>b, GotoFields DEF CallOK, BusyPcs, GroupedPcs, AddrPcs
<1>c. Good(Idle)
  BY IdleType DEF Idle, BusyPcs, GroupedPcs, AddrPcs
<1>1. CASE NextID(p)
  <2> DEFINE r == [run[p] EXCEPT !.next = GetNextFHRPGroupID, !.pc = "cluster"]
  <2>1. OnlyRun(p, r)
    BY <1>0, <1>1 DEF NextID, OnlyRun
  <2>2. Good(r)
    BY <1>0, <1>1, NextGroupID DEF NextID, Run, Pcs, CallOK, BusyPcs, GroupedPcs, AddrPcs, WellFormed, TypeOK
  <2> QED
    BY <1>a, <2>1, <2>2
<1>2. CASE NextIDFails(p) \/ Return(p)
  BY <1>2, <1>a, <1>c DEF NextIDFails, Return, OnlyRun
<1>3. CASE NextCluster(p)
  <2>1. PICK c \in run[p].todo :
           \/ c \in capi \cup Headed /\ OnlyRun(p, [run[p] EXCEPT !.todo = @ \ {c}, !.c = c, !.pc = "findgroup"])
           \/ OnlyRun(p, [run[p] EXCEPT !.todo = @ \ {c}])
    BY <1>0, <1>3 DEF NextCluster, OnlyRun
  <2>2. Good([run[p] EXCEPT !.todo = @ \ {c}])
    BY <1>0, <1>3 DEF NextCluster, Run, Pcs, CallOK, BusyPcs, GroupedPcs, AddrPcs
  <2>3. ASSUME c \in capi \cup Headed PROVE Good([run[p] EXCEPT !.todo = @ \ {c}, !.c = c, !.pc = "findgroup"])
    BY <1>0, <1>3, <2>3, Constants DEF NextCluster, Run, Pcs, CallOK, BusyPcs, GroupedPcs, AddrPcs
  <2> HIDE DEF Good
  <2> QED
    BY <1>a, <2>1, <2>2, <2>3
<1>4. CASE FindGroup(p)
  <2>1. CASE Goto(p, "makegroup")
    BY <1>0, <1>4, <2>1, <1>b DEF FindGroup, Pcs, CallOK, BusyPcs, GroupedPcs, AddrPcs
  <2>2. CASE \E g \in GroupsOf(run[p].c) : run' = [run EXCEPT ![p].grp = g.id, ![p].pc = "readlb"]
    <3>1. PICK g \in groups : OnlyRun(p, [run[p] EXCEPT !.grp = g.id, !.pc = "readlb"])
      BY <1>0, <2>2 DEF GroupsOf, OnlyRun
    <3>2. g.id \in Nat
      BY <1>0 DEF Group
    <3>3. Good([run[p] EXCEPT !.grp = g.id, !.pc = "readlb"])
      BY <1>0, <1>4, <3>2 DEF FindGroup, Run, Pcs, CallOK, BusyPcs, GroupedPcs, AddrPcs
    <3> QED
      BY <1>a, <3>1, <3>3
  <2> QED
    BY <1>4, <2>1, <2>2 DEF FindGroup
<1>5. CASE MakeGroup(p)
  <2>1. CASE Skip(p)
    BY <1>0, <1>5, <2>1, <1>b DEF Skip, Pcs, CallOK
  <2>2. CASE run' = [run EXCEPT ![p].grp = NewId(groups), ![p].next = @ + 1, ![p].pc = "readlb"]
    <3> DEFINE r == [run[p] EXCEPT !.grp = NewId(groups), !.next = @ + 1, !.pc = "readlb"]
    <3>1. OnlyRun(p, r)
      BY <1>0, <2>2 DEF OnlyRun
    <3>2. NewId(groups) \in Nat
      BY NewIdIsFresh DEF WellFormed
    <3>3. Good(r)
      BY <1>0, <1>5, <3>2 DEF MakeGroup, Run, Pcs, CallOK, BusyPcs, GroupedPcs, AddrPcs
    <3> QED
      BY <1>a, <3>1, <3>3
  <2> QED
    BY <1>5, <2>1, <2>2 DEF MakeGroup, Answered
<1>6. CASE Refused(p)
  BY <1>0, <1>6, <1>b DEF Refused, Skip, Pcs, CallOK
<1>7. CASE ReadLb(p)
  <2>1. CASE run[p].c \in Managed /\ lb[run[p].c] # NoAddr
    <3>0. PICK n \in {NameFor(run[p].c, lb[run[p].c]), NoCluster} :
               run' = [run EXCEPT ![p].pc = "findaddr", ![p].ip = lb[run[p].c], ![p].lb = lb[run[p].c], ![p].dns = n]
      BY <1>7, <2>1 DEF ReadLb
    <3> DEFINE r == [run[p] EXCEPT !.pc = "findaddr", !.ip = lb[run[p].c], !.lb = lb[run[p].c], !.dns = n]
    <3>1. OnlyRun(p, r)
      BY <1>0, <3>0 DEF OnlyRun
    <3>n. n \in {run[p].c, NoCluster}
      BY <3>0 DEF NameFor
    <3>2. /\ run[p].c \in Clusters /\ lb[run[p].c] \in LbAddrs[run[p].c]
          /\ lb[run[p].c] \in Addrs /\ run[p].kind = "lb"
      BY <1>0, <1>7, <2>1 DEF ReadLb, CallOK, BusyPcs, GroupedPcs, AddrPcs
    <3>r. /\ r \in Run /\ r.pc = "findaddr" /\ r.todo = run[p].todo /\ r.c = run[p].c /\ r.kind = "lb"
          /\ r.ip = lb[run[p].c] /\ r.lb = lb[run[p].c] /\ r.dns = n
      BY <1>0, <3>2, <3>n DEF Run, Pcs
    <3> HIDE DEF r
    <3>3. Good(r)
      BY <1>0, <3>2, <3>n, <3>r DEF CallOK, BusyPcs, GroupedPcs, AddrPcs
    <3> QED
      BY <1>a, <3>1, <3>3
  <2>2. CASE Goto(p, IF run[p].c \in Managed THEN "readts" ELSE "findtemplate")
    <3>1. CASE Goto(p, "readts")
      BY <1>0, <1>7, <3>1, <1>b DEF ReadLb, Pcs, CallOK, BusyPcs, GroupedPcs, AddrPcs
    <3>2. CASE Goto(p, "findtemplate")
      BY <1>0, <1>7, <3>2, <1>b DEF ReadLb, Pcs, CallOK, BusyPcs, GroupedPcs, AddrPcs
    <3> QED
      BY <2>2, <3>1, <3>2
  <2> QED
    BY <1>7, <2>1, <2>2 DEF ReadLb
<1>8. CASE ReadTs(p)
  <2>1. CASE Goto(p, "findtemplate")
    BY <1>0, <1>8, <2>1, <1>b DEF ReadTs, Pcs, CallOK, BusyPcs, GroupedPcs, AddrPcs
  <2>2. CASE ~Goto(p, "findtemplate")
    <3> DEFINE a == TailscaleAddr[run[p].c]
               n == NameFor(run[p].c, a)
               r == [run[p] EXCEPT !.pc = "findprefix", !.kind = "ts", !.ip = a, !.dns = n]
    <3>n. n \in {run[p].c, NoCluster}
      BY DEF NameFor
    <3> HIDE DEF n
    <3>1. a # NoAddr /\ OnlyRun(p, r)
      BY <1>0, <1>8, <2>2 DEF ReadTs, OnlyRun, n
    <3>2. run[p].c \in Clusters /\ a \in Addrs
      BY <1>0, <1>8, <3>1, Constants DEF ReadTs, CallOK, BusyPcs, GroupedPcs
    <3>3. Good(r)
      BY <1>0, <3>2, <3>n DEF Run, Pcs, CallOK, BusyPcs, GroupedPcs, AddrPcs
    <3> QED
      BY <1>a, <3>1, <3>3
  <2> QED
    BY <2>1, <2>2
<1>9. CASE FindPrefix(p) \/ MakePrefix(p)
  <2>1. PICK pc \in {"findaddr", "makeprefix"} : Goto(p, pc)
    BY <1>9 DEF FindPrefix, MakePrefix
  <2>2. run[p].pc \in {"findprefix", "makeprefix"}
    BY <1>9 DEF FindPrefix, MakePrefix
  <2> QED
    BY <1>0, <2>1, <2>2, <1>b DEF Pcs, CallOK, BusyPcs, GroupedPcs, AddrPcs
<1>10. CASE FindAddr(p)
  <2>0. run[p].pc = "findaddr"
    BY <1>10 DEF FindAddr
  <2>1. CASE Goto(p, "makeaddr")
    BY <1>0, <2>0, <2>1, <1>b DEF Pcs, CallOK, BusyPcs, GroupedPcs, AddrPcs
  <2>2. CASE Goto(p, AfterAddr(p))
    BY <1>0, <2>0, <2>2, <1>b DEF AfterAddr, Pcs, CallOK, BusyPcs, GroupedPcs, AddrPcs
  <2>3. CASE \E b \in FirstFound(run[p].ip) : run' = [run EXCEPT ![p].ip = b, ![p].pc = "patchdns"]
    <3>1. PICK b \in FirstFound(run[p].ip) : OnlyRun(p, [run[p] EXCEPT !.ip = b, !.pc = "patchdns"])
      BY <1>0, <2>3 DEF OnlyRun
    <3>2. b \in Addrs /\ b \in Search[run[p].ip] /\ run[p].ip \in Addrs
      BY <1>0, <2>0, Constants DEF FirstFound, Found, CallOK, AddrPcs
    <3>a. run[p].ip \in Announced(run[p].c)
      BY <1>0, <2>0 DEF CallOK, AddrPcs, Announced, Run
    <3>3. Good([run[p] EXCEPT !.ip = b, !.pc = "patchdns"])
      BY <1>0, <2>0, <3>2, <3>a DEF Run, Pcs, CallOK, BusyPcs, GroupedPcs, AddrPcs
    <3> QED
      BY <1>a, <3>1, <3>3
  <2> QED
    BY <1>10, <2>1, <2>2, <2>3 DEF FindAddr
<1>11. CASE PatchDns(p)
  BY <1>0, <1>11, <1>b DEF PatchDns, AfterAddr, Pcs, CallOK, BusyPcs, GroupedPcs, AddrPcs
<1>12. CASE MakeAddr(p) \/ TailscaleRefused(p)
  <2>1. run[p].pc = "makeaddr"
    BY <1>12 DEF MakeAddr, TailscaleRefused
  <2>2. PICK pc \in {"cluster", "readts", "findtemplate"} : Goto(p, pc) /\ (pc = "readts" => run[p].kind = "lb")
    BY <1>12 DEF MakeAddr, TailscaleRefused, AfterAddr
  <2> QED
    BY <1>0, <2>1, <2>2, <1>b DEF Pcs, CallOK, BusyPcs, GroupedPcs, AddrPcs
<1>13. CASE FindTemplate(p) \/ FindService(p) \/ MakeService(p)
  <2>1. run[p].pc \in {"findtemplate", "findservice", "makeservice"}
    BY <1>13 DEF FindTemplate, FindService, MakeService
  <2>2. PICK pc \in {"cluster", "findservice", "maketemplate", "makeservice"} : Goto(p, pc)
    BY <1>13 DEF FindTemplate, FindService, MakeService
  <2> QED
    BY <1>0, <2>1, <2>2, <1>b DEF Pcs, CallOK, BusyPcs, GroupedPcs, AddrPcs
<1>14. CASE MakeTemplate(p)
  <2>1. CASE Skip(p)
    BY <1>0, <2>1, <1>b DEF Skip, Pcs, CallOK
  <2>2. CASE run' = [run EXCEPT ![p].pc = "findservice"]
    <3>1. OnlyRun(p, [run[p] EXCEPT !.pc = "findservice"])
      BY <1>0, <2>2 DEF OnlyRun
    <3>2. Good([run[p] EXCEPT !.pc = "findservice"])
      BY <1>0, <1>14 DEF MakeTemplate, Run, Pcs, CallOK, BusyPcs, GroupedPcs, AddrPcs
    <3> QED
      BY <1>a, <3>1, <3>2
  <2> QED
    BY <1>14, <2>1, <2>2 DEF MakeTemplate, Answered
<1>15. CASE RequestFails(p)
  <2> DEFINE to == CASE At(p, "readlb") -> "readts"
                     [] At(p, "readts") -> "findtemplate"
                     [] run[p].pc \in {"findprefix", "makeprefix"} -> "findaddr"
                     [] run[p].pc \in {"findaddr", "makeaddr"} /\ run[p].kind = "ts" -> "findtemplate"
                     [] OTHER -> "cluster"
  <2>1. Goto(p, to) /\ Requesting(p)
    BY <1>15 DEF RequestFails
  <2>2. /\ to \in {"readts", "findtemplate", "findaddr", "cluster"}
        /\ to = "readts" => run[p].pc = "readlb"
        /\ to = "findaddr" => run[p].pc \in {"findprefix", "makeprefix"}
        /\ to = "findtemplate" => run[p].pc \in {"readts", "findaddr", "makeaddr"}
    OBVIOUS
  <2> HIDE DEF to
  <2> QED
    BY <1>0, <2>1, <2>2, <1>b DEF Pcs, CallOK, BusyPcs, GroupedPcs, AddrPcs
<1> QED
  BY <1>1, <1>2, <1>3, <1>4, <1>5, <1>6, <1>7, <1>8, <1>9, <1>10, <1>11, <1>12, <1>13, <1>14, <1>15
  DEF SyncStatus

\* The budget of faults.
LEMMA FaultSpent ==
    ASSUME faults \in 0..MaxFaults, SpendFault
    PROVE  faults' \in 0..MaxFaults /\ faults' > 0
BY Constants DEF SpendFault

\* A step of a call leaves NetBox and the reports well formed.
LEMMA SyncData ==
    ASSUME WellFormed, NEW p \in Callers, SyncStatus(p)
    PROVE  /\ groups' \subseteq Group /\ IsFiniteSet(groups')
           /\ addr' \in [Addrs -> Nat \cup {-1}]
           /\ dns' \in [Addrs -> Clusters \cup {NoCluster}]
           /\ prefixes' \subseteq Addrs
           /\ services' \subseteq Service /\ IsFiniteSet(services')
           /\ queue' \subseteq Managed
           /\ faults' \in 0..MaxFaults
           /\ reported' \in [Clusters -> Addrs \cup {NoAddr}]
           /\ UNCHANGED <<capi, lb, runs, events>>
<1> USE DEF At, Quiet, netboxVars, historyVars
<1>0. /\ groups \subseteq Group /\ IsFiniteSet(groups)
      /\ addr \in [Addrs -> Nat \cup {-1}]
      /\ dns \in [Addrs -> Clusters \cup {NoCluster}]
      /\ prefixes \subseteq Addrs
      /\ services \subseteq Service /\ IsFiniteSet(services)
      /\ queue \subseteq Managed
      /\ faults \in 0..MaxFaults
      /\ reported \in [Clusters -> Addrs \cup {NoAddr}]
      /\ run[p] \in Run /\ CallOK(p)
  BY DEF WellFormed, TypeOK
<1>1. CASE NextID(p) \/ Return(p)
  BY <1>0, <1>1 DEF NextID, Return
<1>2. CASE NextIDFails(p)
  BY <1>0, <1>2, FaultSpent DEF NextIDFails, CallOK
<1>3. CASE NextCluster(p)
  BY <1>0, <1>3, FaultSpent DEF NextCluster
<1>4. CASE FindGroup(p)
  BY <1>0, <1>4 DEF FindGroup
<1>5. CASE MakeGroup(p)
  <2> DEFINE g == [id |-> NewId(groups), name |-> run[p].c, gid |-> run[p].next]
  <2>1. g \in Group
    BY <1>0, NewIdIsFresh DEF Group, Run
  <2>2. groups' = groups \cup {g}
    BY <1>5 DEF MakeGroup
  <2>3. IsFiniteSet(groups')
    BY <1>0, <2>2, FS_AddElement
  <2>4. faults' \in 0..MaxFaults
    BY <1>0, <1>5, FaultSpent DEF MakeGroup, Answered
  <2> QED
    BY <1>0, <1>5, <2>1, <2>2, <2>3, <2>4 DEF MakeGroup
<1>6. CASE Refused(p)
  BY <1>0, <1>6 DEF Refused
<1>7. CASE ReadLb(p) \/ ReadTs(p)
  BY <1>0, <1>7, FaultSpent DEF ReadLb, ReadTs
<1>8. CASE FindPrefix(p)
  BY <1>0, <1>8 DEF FindPrefix
<1>9. CASE MakePrefix(p)
  BY <1>0, <1>9 DEF MakePrefix, CallOK, AddrPcs
<1>10. CASE FindAddr(p)
  BY <1>0, <1>10 DEF FindAddr
<1>11. CASE PatchDns(p)
  BY <1>0, <1>11, FaultSpent DEF PatchDns, Run
<1>12. CASE MakeAddr(p)
  <2>1. run[p].dns \in Clusters \cup {NoCluster} /\ run[p].grp \in Nat
    BY <1>0 DEF Run
  <2>2. faults' \in 0..MaxFaults
    BY <1>0, <1>12, FaultSpent DEF MakeAddr
  <2> QED
    BY <1>0, <1>12, <2>1, <2>2 DEF MakeAddr
<1>13. CASE TailscaleRefused(p) \/ FindTemplate(p)
  BY <1>0, <1>13 DEF TailscaleRefused, FindTemplate
<1>14. CASE MakeTemplate(p)
  BY <1>0, <1>14, FaultSpent DEF MakeTemplate, Answered
<1>15. CASE FindService(p)
  BY <1>0, <1>15 DEF FindService, Report, Run
<1>16. CASE MakeService(p)
  <2> DEFINE s == [id |-> NewId(services), cluster |-> run[p].c, group |-> run[p].grp]
  <2>1. s \in Service
    BY <1>0, <1>16, NewIdIsFresh DEF MakeService, Service, Run, CallOK, BusyPcs, GroupedPcs
  <2>2. services' = services \cup {s}
    BY <1>16 DEF MakeService
  <2>3. IsFiniteSet(services')
    BY <1>0, <2>2, FS_AddElement
  <2>4. faults' \in 0..MaxFaults
    BY <1>0, <1>16, FaultSpent DEF MakeService
  <2>5. reported' \in [Clusters -> Addrs \cup {NoAddr}]
    BY <1>0, <1>16 DEF MakeService, Report, Run
  <2> QED
    BY <1>0, <1>16, <2>1, <2>2, <2>3, <2>4, <2>5 DEF MakeService
<1>17. CASE RequestFails(p)
  BY <1>0, <1>17, FaultSpent DEF RequestFails
<1> QED
  BY <1>1, <1>2, <1>3, <1>4, <1>5, <1>6, <1>7, <1>8, <1>9, <1>10, <1>11, <1>12, <1>13, <1>14,
     <1>15, <1>16, <1>17
  DEF SyncStatus

\* What every step does to the flags.
LEMMA FlagStep ==
    ASSUME template \in BOOLEAN, overlapped \in BOOLEAN, lost \in BOOLEAN, [Next]_vars
    PROVE  /\ template' \in BOOLEAN /\ overlapped' \in BOOLEAN /\ lost' \in BOOLEAN
           /\ overlapped => overlapped'
           /\ lost => lost'
<1> USE Zenon DEF netboxVars, historyVars, Quiet
<1> DEFINE Kept == /\ template' \in BOOLEAN /\ overlapped' \in BOOLEAN /\ lost' \in BOOLEAN
                   /\ overlapped => overlapped'
                   /\ lost => lost'
<1>1. ASSUME NEW c, ClusterChanges(c) PROVE Kept
  BY <1>1 DEF ClusterChanges
<1>2. ASSUME NEW c, NEW a, AddressChanges(c, a) PROVE Kept
  BY <1>2 DEF AddressChanges
<1>3. ASSUME NEW a, RecordedByHand(a) PROVE Kept
  BY <1>3 DEF RecordedByHand
<1>4. CASE Resync
  BY <1>4 DEF Resync
<1>5. ASSUME NEW c, Reconcile(c) PROVE Kept
  BY <1>5 DEF Reconcile, Begin
<1>6. CASE Command
  BY <1>6 DEF Command, Begin
<1>7. ASSUME NEW p \in Callers, SyncStatus(p) PROVE Kept
  <2>1. CASE NextID(p) \/ NextIDFails(p) \/ NextCluster(p) \/ Return(p)
    BY <2>1 DEF NextID, NextIDFails, NextCluster, Return
  <2>2. CASE FindGroup(p) \/ MakeGroup(p) \/ Refused(p)
    BY <2>2 DEF FindGroup, MakeGroup, Refused, Answered
  <2>3. CASE ReadLb(p) \/ ReadTs(p) \/ FindPrefix(p) \/ MakePrefix(p)
    BY <2>3 DEF ReadLb, ReadTs, FindPrefix, MakePrefix
  <2>4. CASE FindAddr(p) \/ PatchDns(p) \/ MakeAddr(p) \/ TailscaleRefused(p)
    BY <2>4 DEF FindAddr, PatchDns, MakeAddr, TailscaleRefused
  <2>5. CASE FindTemplate(p) \/ MakeTemplate(p)
    BY <2>5 DEF FindTemplate, MakeTemplate, Answered
  <2>6. CASE FindService(p) \/ MakeService(p) \/ RequestFails(p)
    BY <2>6 DEF FindService, MakeService, RequestFails
  <2> QED
    BY <1>7, <2>1, <2>2, <2>3, <2>4, <2>5, <2>6 DEF SyncStatus
<1>8. ASSUME NEW p, Dies(p) PROVE Kept
  BY <1>8 DEF Dies
<1>9. CASE UNCHANGED vars
  BY <1>9 DEF vars
<1> QED
  BY <1>1, <1>2, <1>3, <1>4, <1>5, <1>6, <1>7, <1>8, <1>9 DEF Next

\* A call begins, or is over or cut off: what it knows is nothing.
LEMMA BeginStep ==
    ASSUME WellFormed, NEW p \in Callers, NEW todo \in SUBSET Clusters,
           p = "controller" => todo \subseteq Managed, Begin(p, todo)
    PROVE  /\ run' \in [Callers -> Run]
           /\ \A q \in Callers \ {p} : run'[q] = run[q]
           /\ CallOK(p)'
           /\ run'[p].pc = "nextid" /\ run'[p].lb = NoAddr
<1> DEFINE r == [Idle EXCEPT !.pc = "nextid", !.todo = todo]
<1>1. OnlyRun(p, r)
  BY DEF Begin, OnlyRun
<1>2. r \in Run /\ r.pc = "nextid" /\ r.todo = todo /\ r.kind = "lb" /\ r.lb = NoAddr
  BY IdleType DEF Idle, Run, Pcs
<1> HIDE DEF r
<1>3. run' \in [Callers -> Run] /\ run'[p] = r /\ \A q \in Callers \ {p} : run'[q] = run[q]
  BY <1>1, <1>2, OnlyRunFields DEF WellFormed, TypeOK
<1> QED
  BY <1>2, <1>3 DEF CallOK, BusyPcs, GroupedPcs, AddrPcs

\* A caller that comes to rest keeps the state well formed.
LEMMA IdleStep ==
    ASSUME WellFormed, NEW p \in Callers, run' = [run EXCEPT ![p] = Idle]
    PROVE  /\ run' \in [Callers -> Run]
           /\ \A q \in Callers \ {p} : run'[q] = run[q]
           /\ CallOK(p)'
           /\ run'[p].pc = "idle" /\ run'[p].lb = NoAddr
<1>1. run' \in [Callers -> Run] /\ run'[p] = Idle /\ \A q \in Callers \ {p} : run'[q] = run[q]
  BY IdleType DEF WellFormed, TypeOK
<1>2. Idle.pc = "idle" /\ Idle.kind = "lb" /\ Idle.lb = NoAddr /\ Idle.todo = {}
  BY DEF Idle
<1> QED
  BY <1>1, <1>2 DEF CallOK, BusyPcs, GroupedPcs, AddrPcs

\* What the other caller knows is not touched.
LEMMA OtherCall ==
    ASSUME WellFormed, NEW p \in Callers, CallOK(p)',
           \A q \in Callers \ {p} : run'[q] = run[q]
    PROVE  \A q \in Callers : CallOK(q)'
BY DEF WellFormed, CallOK

\* Every initial state is well formed.
LEMMA WellFormedInit == Init => WellFormed
<1> SUFFICES ASSUME Init PROVE WellFormed
  OBVIOUS
<1> USE DEF Init
<1>1. PICK M \in SUBSET ManualGids : groups = {[id |-> g, name |-> NoCluster, gid |-> g] : g \in M}
  OBVIOUS
<1>2. groups \subseteq Group
  BY <1>1, ClusterAssumption DEF ClusterAssumption, Group
<1>3. IsFiniteSet(groups) /\ IsFiniteSet(services)
  <2>1. [g \in M |-> [id |-> g, name |-> NoCluster, gid |-> g]] \in Surjection(M, groups)
    BY <1>1 DEF Surjection
  <2>2. IsFiniteSet(M)
    BY <1>1, ClusterAssumption, FS_Subset DEF ClusterAssumption
  <2> QED
    BY <2>1, <2>2, FS_Surjection, FS_EmptySet
<1>4. run \in [Callers -> Run] /\ \A p \in Callers : CallOK(p)
  <2>1. \A p \in Callers : run[p] = Idle
    OBVIOUS
  <2>2. Idle.pc = "idle" /\ Idle.kind = "lb" /\ Idle.todo = {}
    BY DEF Idle
  <2> QED
    BY <2>1, <2>2, IdleType DEF CallOK, BusyPcs, GroupedPcs, AddrPcs
<1>5. template \in BOOLEAN /\ overlapped \in BOOLEAN /\ lost \in BOOLEAN
  BY Zenon
<1>6. /\ capi \subseteq Managed /\ queue \subseteq Managed
      /\ addr \in [Addrs -> Nat \cup {-1}] /\ dns \in [Addrs -> Clusters \cup {NoCluster}]
      /\ reported \in [Clusters -> Addrs \cup {NoAddr}]
      /\ runs \in 0..MaxRuns /\ events \in 0..MaxEvents /\ faults \in 0..MaxFaults
  BY Constants
<1> QED
  BY <1>2, <1>3, <1>4, <1>5, <1>6 DEF WellFormed, TypeOK

\* Every step of callers, NetBox and operator keeps the state well formed.
LEMMA WellFormedStep == WellFormed /\ [Next]_vars => WellFormed'
<1> SUFFICES ASSUME WellFormed, [Next]_vars PROVE WellFormed'
  OBVIOUS
<1> USE DEF netboxVars, historyVars
<1> DEFINE Others ==
        /\ capi \subseteq Managed
        /\ lb \in [Clusters -> Addrs \cup {NoAddr}]
        /\ groups \subseteq Group /\ IsFiniteSet(groups)
        /\ addr \in [Addrs -> Nat \cup {-1}]
        /\ dns \in [Addrs -> Clusters \cup {NoCluster}]
        /\ prefixes \subseteq Addrs
        /\ services \subseteq Service /\ IsFiniteSet(services)
        /\ queue \subseteq Managed
        /\ runs \in 0..MaxRuns /\ events \in 0..MaxEvents /\ faults \in 0..MaxFaults
        /\ reported \in [Clusters -> Addrs \cup {NoAddr}]
        /\ \A c \in Clusters : lb[c] \in LbAddrs[c] \cup {NoAddr}
    Calls == run \in [Callers -> Run] /\ \A p \in Callers : CallOK(p)
<1>0. Others /\ Calls
  BY DEF WellFormed, TypeOK
<1>1. template' \in BOOLEAN /\ overlapped' \in BOOLEAN /\ lost' \in BOOLEAN
  BY FlagStep DEF WellFormed, TypeOK
<1>2. Others' /\ Calls'
  <2>1. ASSUME UNCHANGED run PROVE Calls'
    BY <1>0, <2>1 DEF CallOK
  <2>2. ASSUME NEW c \in Managed, ClusterChanges(c) PROVE Others' /\ Calls'
    BY <1>0, <2>1, <2>2, Constants DEF ClusterChanges, SpendEvent
  <2>3. ASSUME NEW c \in Managed, NEW a \in LbAddrs[c], AddressChanges(c, a) PROVE Others' /\ Calls'
    <3>1. a \in Addrs
      BY Constants
    <3> QED
      BY <1>0, <2>1, <2>3, <3>1, Constants DEF AddressChanges, SpendEvent
  <2>4. ASSUME NEW a \in HandAddrs, RecordedByHand(a) PROVE Others' /\ Calls'
    <3>1. prefixes' \subseteq Addrs
      BY <1>0, <2>4, Constants DEF RecordedByHand
    <3> QED
      BY <1>0, <2>1, <2>4, <3>1, Constants DEF RecordedByHand, SpendEvent
  <2>5. CASE Resync
    BY <1>0, <2>1, <2>5 DEF Resync
  <2>6. ASSUME NEW c \in Managed, Reconcile(c) PROVE Others' /\ Calls'
    <3>1. Others'
      BY <1>0, <2>6 DEF Reconcile
    <3>2. CASE UNCHANGED run
      BY <2>1, <3>1, <3>2
    <3>3. CASE Begin("controller", {c})
      BY <1>0, <3>1, <3>3, BeginStep, OtherCall, Constants DEF Callers
    <3> QED
      BY <2>6, <3>2, <3>3 DEF Reconcile
  <2>7. CASE Command
    <3>1. Others'
      BY <1>0, <2>7, Constants DEF Command
    <3> QED
      BY <1>0, <2>7, <3>1, BeginStep, OtherCall DEF Command, Callers
  <2>8. ASSUME NEW p \in Callers, SyncStatus(p) PROVE Others' /\ Calls'
    <3>1. Calls'
      BY <1>0, <2>8, SyncStep, OtherCall
    <3> QED
      BY <1>0, <2>8, <3>1, SyncData
  <2>9. ASSUME NEW p \in Callers, Dies(p) PROVE Others' /\ Calls'
    <3>1. Others'
      BY <1>0, <2>9, FaultSpent DEF Dies
    <3>2. Calls'
      BY <1>0, <2>9, IdleStep, OtherCall DEF Dies
    <3> QED
      BY <3>1, <3>2
  <2>10. CASE UNCHANGED vars
    BY <1>0, <2>1, <2>10 DEF vars
  <2> QED
    BY <2>2, <2>3, <2>4, <2>5, <2>6, <2>7, <2>8, <2>9, <2>10 DEF Next
<1> QED
  BY <1>1, <1>2 DEF WellFormed, TypeOK

\* Type correctness of SyncStatus and its two callers, whatever the clusters,
\* the faults and the interleaving of the requests.
THEOREM ClusterSyncTypes == Spec => []TypeOK
<1>1. Spec => []WellFormed
  BY WellFormedInit, WellFormedStep, PTL DEF Spec
<1> QED
  BY <1>1, PTL DEF WellFormed

-----------------------------------------------------------------------------
(* Objects are attached to their own cluster.                              *)

\* Which of NetBox's objects a step touches.
LEMMA NetBoxSteps ==
    ASSUME [Next]_vars
    PROVE  \/ UNCHANGED netboxVars
           \/ \E a \in HandAddrs : RecordedByHand(a)
           \/ \E p \in Callers : \/ MakeGroup(p) \/ MakePrefix(p) \/ PatchDns(p) \/ MakeAddr(p)
                                 \/ MakeTemplate(p) \/ MakeService(p)
<1>1. CASE UNCHANGED vars
  BY <1>1 DEF vars
<1>2. ASSUME NEW p \in Callers, SyncStatus(p)
      PROVE  \/ UNCHANGED netboxVars
             \/ MakeGroup(p) \/ MakePrefix(p) \/ PatchDns(p) \/ MakeAddr(p) \/ MakeTemplate(p) \/ MakeService(p)
  BY <1>2 DEF SyncStatus, NextID, NextIDFails, NextCluster, Return, FindGroup, Refused, ReadLb, ReadTs,
      FindPrefix, FindAddr, TailscaleRefused, FindTemplate, FindService, RequestFails
<1> QED
  BY <1>1, <1>2 DEF Next, ClusterChanges, AddressChanges, Resync, Reconcile, Command, Dies

\* Faults are never taken back.
LEMMA FaultsGrow ==
    ASSUME WellFormed, [Next]_vars
    PROVE  faults' >= faults /\ faults \in Nat /\ faults' \in Nat
<1> USE DEF netboxVars, historyVars
<1>0. faults \in 0..MaxFaults /\ faults' \in 0..MaxFaults
  BY WellFormedStep DEF WellFormed, TypeOK
<1>1. UNCHANGED faults \/ SpendFault
  <2>1. CASE UNCHANGED vars
    BY <2>1 DEF vars
  <2>2. ASSUME NEW p \in Callers, SyncStatus(p) PROVE UNCHANGED faults \/ SpendFault
    BY <2>2 DEF SyncStatus, NextID, NextIDFails, NextCluster, Return, FindGroup, MakeGroup, Refused,
        ReadLb, ReadTs, FindPrefix, MakePrefix, FindAddr, PatchDns, MakeAddr, TailscaleRefused,
        FindTemplate, MakeTemplate, FindService, MakeService, RequestFails, Answered
  <2> QED
    BY <2>1, <2>2 DEF Next, ClusterChanges, AddressChanges, RecordedByHand, Resync, Reconcile, Command, Dies
<1> QED
  BY <1>0, <1>1, Constants DEF SpendFault

\* SyncStatus and its environment only add to NetBox: no group, service or
\* prefix disappears, and an address stays on the group it was recorded on.
LEMMA NetBoxGrows ==
    ASSUME WellFormed, [Next]_vars
    PROVE  /\ groups \subseteq groups'
           /\ prefixes \subseteq prefixes'
           /\ services \subseteq services'
           /\ \A a \in Addrs : addr[a] # -1 => addr'[a] = addr[a]
<1> USE DEF netboxVars
<1>0. addr \in [Addrs -> Nat \cup {-1}]
  BY DEF WellFormed, TypeOK
<1>1. ASSUME NEW a \in HandAddrs, RecordedByHand(a)
      PROVE  /\ groups \subseteq groups' /\ prefixes \subseteq prefixes' /\ services \subseteq services'
             /\ \A b \in Addrs : addr[b] # -1 => addr'[b] = addr[b]
  BY <1>0, <1>1 DEF RecordedByHand
<1>2. ASSUME NEW p \in Callers, MakeAddr(p)
      PROVE  /\ groups \subseteq groups' /\ prefixes \subseteq prefixes' /\ services \subseteq services'
             /\ \A b \in Addrs : addr[b] # -1 => addr'[b] = addr[b]
  BY <1>0, <1>2 DEF MakeAddr
<1>3. ASSUME NEW p \in Callers,
             MakeGroup(p) \/ MakePrefix(p) \/ PatchDns(p) \/ MakeTemplate(p) \/ MakeService(p)
      PROVE  /\ groups \subseteq groups' /\ prefixes \subseteq prefixes' /\ services \subseteq services'
             /\ UNCHANGED addr
  BY <1>3 DEF MakeGroup, MakePrefix, PatchDns, MakeTemplate, MakeService
<1> QED
  BY <1>1, <1>2, <1>3, NetBoxSteps

\* What the other call relies on, no step takes away.
LEMMA OtherRelies ==
    ASSUME WellFormed, [Next]_vars, NEW q \in Callers, CallRelies(q), run'[q] = run[q]
    PROVE  CallRelies(q)'
<1>1. run[q].pc = "patchdns" => run[q].ip \in Addrs
  BY DEF WellFormed, CallOK, AddrPcs
<1>2. run[q].pc \in GroupedPcs => \E g \in GroupsOf(run[q].c)' : g.id = run[q].grp
  BY NetBoxGrows DEF CallRelies, HasGroup, GroupsOf
<1>3. faults > 0 => faults' > 0
  BY FaultsGrow
<1> QED
  BY <1>1, <1>2, <1>3, NetBoxGrows DEF CallRelies, HasGroup, GroupsOf

\* The hypotheses: an address found by a search for one with a DNS name could
\* be given a DNS name too, and no address is both announced by Cilium and
\* that of the Tailscale device of one cluster.
SearchKeepsNames == \A a \in Named : Search[a] \subseteq Named
TailscaleApart == \A c \in Clusters : TailscaleAddr[c] \notin LbAddrs[c]

\* A call keeps the group of its cluster from finding or making it to the end
\* of the cluster.
LEMMA KeepsGroup ==
    ASSUME WellFormed, NEW p \in Callers, SyncStatus(p), HasGroup(p), run'[p].pc \in GroupedPcs
    PROVE  \E g \in groups' : g.name = run'[p].c /\ g.id = run'[p].grp
<1> USE DEF At, GroupsOf
<1>0. /\ run \in [Callers -> Run] /\ run[p] \in Run /\ run' \in [Callers -> Run]
      /\ CallOK(p) /\ groups \subseteq groups'
  <2>1. [Next]_vars
    BY DEF Next
  <2> QED
    BY <2>1, SyncStep, NetBoxGrows DEF WellFormed, TypeOK
<1>1. ASSUME run[p].pc \in GroupedPcs, run'[p].c = run[p].c, run'[p].grp = run[p].grp
      PROVE  \E g \in groups' : g.name = run'[p].c /\ g.id = run'[p].grp
  BY <1>0, <1>1 DEF HasGroup
<1>b. ASSUME NEW pc \in Pcs, Goto(p, pc), run[p].pc \in GroupedPcs
      PROVE  \E g \in groups' : g.name = run'[p].c /\ g.id = run'[p].grp
  BY <1>0, <1>1, <1>b, GotoFields DEF GroupedPcs, AddrPcs
<1>2. CASE NextID(p) \/ NextIDFails(p) \/ NextCluster(p) \/ Return(p)
  <2>1. CASE NextID(p)
    BY <1>0, <2>1 DEF NextID, Run, GroupedPcs, AddrPcs
  <2>2. CASE NextIDFails(p) \/ Return(p)
    BY <1>0, <2>2, IdleType DEF NextIDFails, Return, GroupedPcs, AddrPcs
  <2>3. CASE NextCluster(p)
    BY <1>0, <2>3 DEF NextCluster, Run, GroupedPcs, AddrPcs
  <2> QED
    BY <1>2, <2>1, <2>2, <2>3
<1>3. CASE FindGroup(p)
  <2>1. CASE Goto(p, "makegroup")
    BY <1>0, <2>1, GotoFields DEF Pcs, GroupedPcs, AddrPcs
  <2>2. CASE \E g \in GroupsOf(run[p].c) : run' = [run EXCEPT ![p].grp = g.id, ![p].pc = "readlb"]
    <3>1. PICK g \in GroupsOf(run[p].c) : run' = [run EXCEPT ![p].grp = g.id, ![p].pc = "readlb"]
      BY <2>2
    <3>2. run'[p].c = run[p].c /\ run'[p].grp = g.id
      BY <1>0, <3>1 DEF Run
    <3> QED
      BY <1>0, <3>1, <3>2
  <2> QED
    BY <1>3, <2>1, <2>2 DEF FindGroup
<1>4. CASE MakeGroup(p)
  <2> DEFINE g == [id |-> NewId(groups), name |-> run[p].c, gid |-> run[p].next]
  <2>1. CASE Skip(p)
    BY <1>0, <2>1, GotoFields DEF Skip, Pcs, GroupedPcs, AddrPcs
  <2>2. CASE run' = [run EXCEPT ![p].grp = NewId(groups), ![p].next = @ + 1, ![p].pc = "readlb"]
    <3>1. run'[p].c = run[p].c /\ run'[p].grp = NewId(groups)
      BY <1>0, <2>2 DEF Run
    <3>2. g \in groups' /\ g.id = NewId(groups) /\ g.name = run[p].c
      BY <1>4 DEF MakeGroup
    <3> QED
      BY <3>1, <3>2
  <2> QED
    BY <1>4, <2>1, <2>2 DEF MakeGroup, Answered
<1>5. CASE Refused(p)
  BY <1>0, <1>5, GotoFields DEF Refused, Skip, Pcs, GroupedPcs, AddrPcs
<1>6. CASE ReadLb(p)
  <2>1. run[p].pc \in GroupedPcs
    BY <1>6 DEF ReadLb, GroupedPcs
  <2>2. CASE run[p].c \in Managed /\ lb[run[p].c] # NoAddr
    <3>1. run'[p].c = run[p].c /\ run'[p].grp = run[p].grp
      BY <1>0, <1>6, <2>2 DEF ReadLb, Run
    <3> QED
      BY <1>1, <2>1, <3>1
  <2>3. CASE ~(run[p].c \in Managed /\ lb[run[p].c] # NoAddr)
    BY <1>6, <1>b, <2>1, <2>3 DEF ReadLb, Pcs
  <2> QED
    BY <2>2, <2>3
<1>7. CASE ReadTs(p)
  <2>1. run[p].pc \in GroupedPcs
    BY <1>7 DEF ReadTs, GroupedPcs
  <2>2. CASE Goto(p, "findtemplate")
    BY <1>b, <2>1, <2>2 DEF Pcs
  <2>3. CASE ~Goto(p, "findtemplate")
    <3>1. run'[p].c = run[p].c /\ run'[p].grp = run[p].grp
      BY <1>0, <1>7, <2>3 DEF ReadTs, Run
    <3> QED
      BY <1>1, <2>1, <3>1
  <2> QED
    BY <2>2, <2>3
<1>8. CASE FindPrefix(p) \/ MakePrefix(p) \/ PatchDns(p) \/ MakeAddr(p) \/ TailscaleRefused(p)
  <2>1. run[p].pc \in GroupedPcs
    BY <1>8 DEF FindPrefix, MakePrefix, PatchDns, MakeAddr, TailscaleRefused, GroupedPcs, AddrPcs
  <2>2. \E pc \in Pcs : Goto(p, pc)
    BY <1>8 DEF FindPrefix, MakePrefix, PatchDns, MakeAddr, TailscaleRefused, AfterAddr, Pcs
  <2> QED
    BY <1>b, <2>1, <2>2
<1>9. CASE FindAddr(p)
  <2>1. run[p].pc \in GroupedPcs
    BY <1>9 DEF FindAddr, GroupedPcs, AddrPcs
  <2>2. CASE \E b : run' = [run EXCEPT ![p].ip = b, ![p].pc = "patchdns"]
    <3>1. run'[p].c = run[p].c /\ run'[p].grp = run[p].grp
      BY <1>0, <2>2 DEF Run
    <3> QED
      BY <1>1, <2>1, <3>1
  <2>3. CASE \E pc \in Pcs : Goto(p, pc)
    BY <1>b, <2>1, <2>3
  <2> QED
    BY <1>9, <2>2, <2>3 DEF FindAddr, AfterAddr, Pcs
<1>10. CASE MakeTemplate(p)
  <2>1. run[p].pc \in GroupedPcs
    BY <1>10 DEF MakeTemplate, GroupedPcs
  <2>2. CASE run' = [run EXCEPT ![p].pc = "findservice"]
    <3>1. run'[p].c = run[p].c /\ run'[p].grp = run[p].grp
      BY <1>0, <2>2 DEF Run
    <3> QED
      BY <1>1, <2>1, <3>1
  <2> QED
    BY <1>10, <1>b, <2>1, <2>2 DEF MakeTemplate, Answered, Skip, Pcs
<1>11. CASE FindTemplate(p) \/ FindService(p) \/ MakeService(p)
  <2>1. run[p].pc \in GroupedPcs
    BY <1>11 DEF FindTemplate, FindService, MakeService, GroupedPcs
  <2>2. \E pc \in Pcs : Goto(p, pc)
    BY <1>11 DEF FindTemplate, FindService, MakeService, Pcs
  <2> QED
    BY <1>b, <2>1, <2>2
<1>12. CASE RequestFails(p)
  <2>1. PICK pc \in {"readts", "findtemplate", "findaddr", "cluster"} :
             Goto(p, pc) /\ (pc # "cluster" => run[p].pc \in GroupedPcs)
    BY <1>12 DEF RequestFails, GroupedPcs, AddrPcs
  <2> QED
    BY <1>0, <1>b, <2>1, GotoFields DEF Pcs, GroupedPcs, AddrPcs
<1> QED
  BY <1>2, <1>3, <1>4, <1>5, <1>6, <1>7, <1>8, <1>9, <1>10, <1>11, <1>12 DEF SyncStatus

\* Unless a request failed, a call only sets the DNS name of an address that
\* is on no group: what SyncStatus recorded itself has one already.
LEMMA PatchesOnlyUngrouped ==
    ASSUME SearchKeepsNames, WellFormed, Attachment,
           NEW p \in Callers, SyncStatus(p), run'[p].pc = "patchdns"
    PROVE  addr'[run'[p].ip] = 0 \/ faults' > 0
<1> USE DEF At
<1>0. /\ run \in [Callers -> Run] /\ run[p] \in Run /\ CallOK(p)
      /\ addr \in [Addrs -> Nat \cup {-1}]
  BY DEF WellFormed, TypeOK
<1>b. ASSUME NEW pc \in Pcs \ {"patchdns"}, Goto(p, pc) PROVE FALSE
  BY <1>0, <1>b, GotoFields
<1>1. CASE FindAddr(p)
  <2>1. PICK b \in FirstFound(run[p].ip) :
             /\ run[p].dns # NoCluster /\ dns[b] = NoCluster
             /\ run' = [run EXCEPT ![p].ip = b, ![p].pc = "patchdns"]
    BY <1>1, <1>b DEF FindAddr, AfterAddr, Pcs
  <2>2. run'[p].ip = b
    BY <1>0, <2>1 DEF Run
  <2>3. b \in Addrs /\ addr[b] # -1 /\ b \in Search[run[p].ip]
    BY <1>0, <1>1, <2>1, Constants DEF FindAddr, FirstFound, Found, CallOK, AddrPcs
  <2>4. run[p].ip \in Named \/ faults > 0
    BY <1>1, <2>1 DEF FindAddr, Attachment, CallRelies, AddrPcs, NameFor
  <2>5. ~(addr[b] > 0) \/ faults > 0
    BY <2>1, <2>3, <2>4 DEF Attachment, SearchKeepsNames
  <2>6. addr[b] = 0 \/ faults > 0
    BY <1>0, <2>3, <2>5
  <2> QED
    BY <1>1, <2>2, <2>6 DEF FindAddr, netboxVars
<1>2. CASE NextID(p) \/ NextIDFails(p) \/ NextCluster(p) \/ Return(p)
  <2>1. CASE NextID(p)
    BY <1>0, <2>1 DEF NextID, Run
  <2>2. CASE NextIDFails(p) \/ Return(p)
    BY <1>0, <2>2, IdleType DEF NextIDFails, Return
  <2>3. CASE NextCluster(p)
    BY <1>0, <2>3 DEF NextCluster, Run
  <2> QED
    BY <1>2, <2>1, <2>2, <2>3
<1>3. CASE FindGroup(p) \/ MakeGroup(p) \/ MakeTemplate(p)
  BY <1>0, <1>3, <1>b DEF FindGroup, MakeGroup, MakeTemplate, Answered, Skip, Run, Pcs
<1>4. CASE ReadLb(p) \/ ReadTs(p)
  BY <1>0, <1>4, <1>b DEF ReadLb, ReadTs, Run, Pcs
<1>5. CASE \/ Refused(p) \/ FindPrefix(p) \/ MakePrefix(p) \/ PatchDns(p) \/ MakeAddr(p) \/ TailscaleRefused(p)
           \/ FindTemplate(p) \/ FindService(p) \/ MakeService(p)
  BY <1>5, <1>b DEF Refused, Skip, FindPrefix, MakePrefix, PatchDns, MakeAddr, TailscaleRefused,
     FindTemplate, FindService, MakeService, AfterAddr, Pcs
<1>6. CASE RequestFails(p)
  <2>1. \E pc \in {"readts", "findtemplate", "findaddr", "cluster"} : Goto(p, pc)
    BY <1>6 DEF RequestFails
  <2> QED
    BY <1>b, <2>1 DEF Pcs
<1> QED
  BY <1>1, <1>2, <1>3, <1>4, <1>5, <1>6 DEF SyncStatus

\* Unless a request failed, an address that is looked up or recorded comes
\* with its DNS name.
LEMMA NameRead ==
    ASSUME WellFormed, NEW p \in Callers, CallRelies(p), SyncStatus(p),
           run'[p].pc \in AddrPcs \ {"patchdns"}
    PROVE  run'[p].dns = NameFor(run'[p].c, run'[p].ip) \/ faults' > 0
<1> USE DEF At
<1>0. /\ run \in [Callers -> Run] /\ run[p] \in Run
      /\ faults > 0 => faults' > 0
      /\ faults \in 0..MaxFaults
  <2>1. [Next]_vars
    BY DEF Next
  <2> QED
    BY <2>1, FaultsGrow DEF WellFormed, TypeOK
<1>a. ASSUME NEW pc \in AddrPcs \ {"patchdns"}, Goto(p, pc), run[p].pc \in AddrPcs \ {"patchdns"}
      PROVE  run'[p].dns = NameFor(run'[p].c, run'[p].ip) \/ faults' > 0
  <2>1. pc \in Pcs \ {"cluster", "readts", "findtemplate"}
    BY DEF Pcs, AddrPcs
  <2>2. run'[p].dns = run[p].dns /\ run'[p].c = run[p].c /\ run'[p].ip = run[p].ip
    BY <1>0, <1>a, <2>1, GotoFields
  <2> QED
    BY <1>0, <1>a, <2>2 DEF CallRelies
<1>b. ASSUME NEW pc \in Pcs \ (AddrPcs \ {"patchdns"}), Goto(p, pc) PROVE FALSE
  BY <1>0, <1>b, GotoFields
<1>1. CASE FindAddr(p)
  <2>1. CASE Goto(p, "makeaddr")
    BY <1>1, <1>a, <2>1 DEF FindAddr, AddrPcs
  <2>2. CASE \E b : run' = [run EXCEPT ![p].ip = b, ![p].pc = "patchdns"]
    BY <1>0, <2>2 DEF Run
  <2> QED
    BY <1>1, <1>b, <2>1, <2>2 DEF FindAddr, AfterAddr, Pcs, AddrPcs
<1>2. CASE FindPrefix(p) \/ MakePrefix(p)
  BY <1>2, <1>a DEF FindPrefix, MakePrefix, AddrPcs
<1>3. CASE RequestFails(p)
  BY <1>0, <1>3, FaultSpent DEF RequestFails
<1>4. CASE ReadLb(p)
  <2>1. CASE run[p].c \in Managed /\ lb[run[p].c] # NoAddr
    <3>1. PICK n \in {NameFor(run[p].c, lb[run[p].c]), NoCluster} :
               /\ run' = [run EXCEPT ![p].pc = "findaddr", ![p].ip = lb[run[p].c], ![p].lb = lb[run[p].c], ![p].dns = n]
               /\ IF n = NameFor(run[p].c, lb[run[p].c]) THEN UNCHANGED faults ELSE SpendFault
      BY <1>4, <2>1 DEF ReadLb
    <3>2. run'[p].dns = n /\ run'[p].c = run[p].c /\ run'[p].ip = lb[run[p].c]
      BY <1>0, <3>1 DEF Run
    <3> QED
      BY <1>0, <3>1, <3>2, FaultSpent
  <2>2. CASE ~(run[p].c \in Managed /\ lb[run[p].c] # NoAddr)
    BY <1>4, <1>b, <2>2 DEF ReadLb, Pcs, AddrPcs
  <2> QED
    BY <2>1, <2>2
<1>5. CASE ReadTs(p)
  <2>1. CASE Goto(p, "findtemplate")
    BY <1>b, <2>1 DEF Pcs, AddrPcs
  <2>2. CASE ~Goto(p, "findtemplate")
    <3> DEFINE a == TailscaleAddr[run[p].c]
    <3>1. run' = [run EXCEPT ![p].pc = "findprefix", ![p].kind = "ts", ![p].ip = a,
                             ![p].dns = NameFor(run[p].c, a)]
      BY <1>5, <2>2 DEF ReadTs
    <3>2. run'[p].dns = NameFor(run[p].c, a) /\ run'[p].c = run[p].c /\ run'[p].ip = a
      BY <1>0, <3>1 DEF Run
    <3> QED
      BY <3>2
  <2> QED
    BY <2>1, <2>2
<1>6. CASE NextID(p) \/ NextIDFails(p) \/ NextCluster(p) \/ Return(p)
  <2>1. CASE NextID(p)
    BY <1>0, <2>1 DEF NextID, Run, AddrPcs
  <2>2. CASE NextIDFails(p) \/ Return(p)
    BY <1>0, <2>2, IdleType DEF NextIDFails, Return, AddrPcs
  <2>3. CASE NextCluster(p)
    BY <1>0, <2>3 DEF NextCluster, Run, AddrPcs
  <2> QED
    BY <1>6, <2>1, <2>2, <2>3
<1>7. CASE FindGroup(p) \/ MakeGroup(p) \/ MakeTemplate(p)
  <2>1. CASE FindGroup(p)
    <3>1. CASE \E g : run' = [run EXCEPT ![p].grp = g.id, ![p].pc = "readlb"]
      BY <1>0, <3>1 DEF Run, AddrPcs
    <3> QED
      BY <1>b, <2>1, <3>1 DEF FindGroup, Pcs, AddrPcs
  <2>2. CASE MakeGroup(p)
    BY <1>0, <2>2, <1>b DEF MakeGroup, Answered, Skip, Run, Pcs, AddrPcs
  <2>3. CASE MakeTemplate(p)
    BY <1>0, <2>3, <1>b DEF MakeTemplate, Answered, Skip, Run, Pcs, AddrPcs
  <2> QED
    BY <1>7, <2>1, <2>2, <2>3
<1>8. CASE \/ Refused(p) \/ PatchDns(p) \/ MakeAddr(p) \/ TailscaleRefused(p)
           \/ FindTemplate(p) \/ FindService(p) \/ MakeService(p)
  <2>1. \E pc \in Pcs \ (AddrPcs \ {"patchdns"}) : Goto(p, pc)
    BY <1>8 DEF Refused, Skip, PatchDns, MakeAddr, TailscaleRefused,
       FindTemplate, FindService, MakeService, AfterAddr, Pcs, AddrPcs
  <2> QED
    BY <1>b, <2>1
<1> QED
  BY <1>1, <1>2, <1>3, <1>4, <1>5, <1>6, <1>7, <1>8 DEF SyncStatus

\* A Tailscale address is looked up, and so recorded, after its prefix.
LEMMA PrefixFirst ==
    ASSUME WellFormed, NEW p \in Callers, CallRelies(p), SyncStatus(p),
           run'[p].pc \in {"findaddr", "makeaddr"}, run'[p].kind = "ts"
    PROVE  run'[p].ip \in prefixes' \/ faults' > 0
<1> USE DEF At
<1>0. /\ run \in [Callers -> Run] /\ run[p] \in Run /\ CallOK(p)
      /\ prefixes \subseteq prefixes' /\ (faults > 0 => faults' > 0)
  <2>1. [Next]_vars
    BY DEF Next
  <2> QED
    BY <2>1, NetBoxGrows, FaultsGrow DEF WellFormed, TypeOK
<1>a. ASSUME NEW pc \in Pcs, Goto(p, pc)
      PROVE  pc \in {"findaddr", "makeaddr"} /\ run'[p].ip = run[p].ip /\ run[p].kind = "ts"
  BY <1>0, <1>a, GotoFields
<1>b. ASSUME NEW pc \in Pcs \ {"findaddr", "makeaddr"}, Goto(p, pc) PROVE FALSE
  BY <1>a, <1>b
<1>1. CASE FindAddr(p)
  <2>1. CASE Goto(p, "makeaddr")
    BY <1>0, <1>1, <1>a, <2>1 DEF FindAddr, CallRelies, Pcs
  <2>2. CASE \E b : run' = [run EXCEPT ![p].ip = b, ![p].pc = "patchdns"]
    BY <1>0, <2>2 DEF Run
  <2> QED
    BY <1>1, <1>b, <2>1, <2>2 DEF FindAddr, AfterAddr, Pcs
<1>2. CASE FindPrefix(p)
  <2>1. CASE run[p].ip \in prefixes
    BY <1>0, <1>2, <1>a, <2>1 DEF FindPrefix, Pcs
  <2>2. CASE run[p].ip \notin prefixes
    BY <1>2, <1>b, <2>2 DEF FindPrefix, Pcs
  <2> QED
    BY <2>1, <2>2
<1>3. CASE MakePrefix(p)
  BY <1>3, <1>a DEF MakePrefix, Pcs
<1>4. CASE RequestFails(p)
  BY <1>4, FaultSpent DEF RequestFails, WellFormed, TypeOK
<1>5. CASE ReadLb(p)
  <2>1. run[p].kind = "lb"
    BY <1>0, <1>5 DEF ReadLb, CallOK, AddrPcs
  <2> QED
    BY <1>0, <1>5, <1>b, <2>1 DEF ReadLb, Run, Pcs
<1>6. CASE NextID(p) \/ NextIDFails(p) \/ NextCluster(p) \/ Return(p)
  <2>1. CASE NextID(p)
    BY <1>0, <2>1 DEF NextID, Run
  <2>2. CASE NextIDFails(p) \/ Return(p)
    BY <1>0, <2>2, IdleType DEF NextIDFails, Return
  <2>3. CASE NextCluster(p)
    BY <1>0, <2>3 DEF NextCluster, Run
  <2> QED
    BY <1>6, <2>1, <2>2, <2>3
<1>7. CASE FindGroup(p) \/ MakeGroup(p) \/ MakeTemplate(p)
  <2>1. CASE FindGroup(p)
    <3>1. CASE \E g : run' = [run EXCEPT ![p].grp = g.id, ![p].pc = "readlb"]
      BY <1>0, <3>1 DEF Run
    <3> QED
      BY <1>b, <2>1, <3>1 DEF FindGroup, Pcs
  <2>2. CASE MakeGroup(p)
    BY <1>0, <2>2, <1>b DEF MakeGroup, Answered, Skip, Run, Pcs
  <2>3. CASE MakeTemplate(p)
    BY <1>0, <2>3, <1>b DEF MakeTemplate, Answered, Skip, Run, Pcs
  <2> QED
    BY <1>7, <2>1, <2>2, <2>3
<1>8. CASE ReadTs(p)
  BY <1>0, <1>8, <1>b DEF ReadTs, Run, Pcs
<1>9. CASE \/ Refused(p) \/ PatchDns(p) \/ MakeAddr(p) \/ TailscaleRefused(p)
           \/ FindTemplate(p) \/ FindService(p) \/ MakeService(p)
  BY <1>9, <1>b DEF Refused, Skip, PatchDns, MakeAddr, TailscaleRefused,
     FindTemplate, FindService, MakeService, AfterAddr, Pcs
<1> QED
  BY <1>1, <1>2, <1>3, <1>4, <1>5, <1>6, <1>7, <1>8, <1>9 DEF SyncStatus

\* Every call, that of the step and the other one, goes on relying on what is
\* so.
LEMMA CallsRely ==
    ASSUME SearchKeepsNames, WellFormed, Attachment, [Next]_vars
    PROVE  \A p \in Callers : CallRelies(p)'
<1>0. WellFormed' /\ \A p \in Callers : CallRelies(p)
  BY WellFormedStep DEF Attachment
<1>1. ASSUME NEW p \in Callers, run'[p].pc \in {"idle", "nextid"} PROVE CallRelies(p)'
  BY <1>1 DEF CallRelies, HasGroup, GroupedPcs, AddrPcs
<1>2. ASSUME NEW p \in Callers, CallRelies(p)', \A q \in Callers \ {p} : run'[q] = run[q]
      PROVE  \A q \in Callers : CallRelies(q)'
  BY <1>0, <1>2, OtherRelies
<1>3. CASE UNCHANGED run
  BY <1>0, <1>3, OtherRelies
<1>4. ASSUME NEW p \in Callers, SyncStatus(p) PROVE \A q \in Callers : CallRelies(q)'
  <2>1. CallRelies(p)'
    <3>1. HasGroup(p)'
      BY <1>0, <1>4, KeepsGroup DEF CallRelies, HasGroup, GroupsOf
    <3>2. /\ run'[p].pc = "patchdns" => addr'[run'[p].ip] = 0 \/ faults' > 0
          /\ run'[p].pc \in AddrPcs \ {"patchdns"} =>
                run'[p].dns = NameFor(run'[p].c, run'[p].ip) \/ faults' > 0
          /\ run'[p].pc \in {"findaddr", "makeaddr"} /\ run'[p].kind = "ts" =>
                run'[p].ip \in prefixes' \/ faults' > 0
      BY <1>0, <1>4, PatchesOnlyUngrouped, NameRead, PrefixFirst
    <3> QED
      BY <3>1, <3>2 DEF CallRelies, NameFor
  <2> QED
    BY <1>2, <1>4, <2>1, SyncStep
<1>5. ASSUME NEW p \in Callers, NEW todo \in SUBSET Clusters,
             p = "controller" => todo \subseteq Managed, Begin(p, todo)
      PROVE  \A q \in Callers : CallRelies(q)'
  BY <1>1, <1>2, <1>5, BeginStep
<1>6. ASSUME NEW p \in Callers, Dies(p) PROVE \A q \in Callers : CallRelies(q)'
  BY <1>1, <1>2, <1>6, IdleStep DEF Dies
<1>7. ASSUME NEW c \in Managed, Reconcile(c) PROVE \A q \in Callers : CallRelies(q)'
  BY <1>3, <1>5, <1>7, Constants DEF Reconcile, Callers
<1>8. CASE Command
  BY <1>5, <1>8 DEF Command, Callers
<1>9. CASE \/ \E c \in Managed : ClusterChanges(c) \/ \E a \in LbAddrs[c] : AddressChanges(c, a)
           \/ \E a \in HandAddrs : RecordedByHand(a)
           \/ Resync \/ UNCHANGED vars
  BY <1>3, <1>9 DEF vars, ClusterChanges, AddressChanges, RecordedByHand, Resync
<1> QED
  BY <1>4, <1>6, <1>7, <1>8, <1>9 DEF Next

\* The parts of AttachedToOwnCluster.
NameReaches(a) ==
    dns[a] # NoCluster => \E b \in Addrs : b \in Announced(dns[a]) /\ a \in Search[b]

AddrAttached(a) ==
    addr[a] > 0 =>
        \E g \in groups : /\ g.id = addr[a]
                          /\ g.name \in Clusters
                          /\ a \in Announced(g.name)
                          /\ dns[a] \in {g.name, NoCluster} \/ faults > 0
                          /\ a = TailscaleAddr[g.name] => a \in prefixes \/ faults > 0

\* A step that does not touch an address leaves it attached.
LEMMA AddrFrame ==
    ASSUME WellFormed, [Next]_vars, NEW a \in Addrs, AddrAttached(a),
           addr'[a] = addr[a], dns'[a] = dns[a]
    PROVE  AddrAttached(a)'
<1>1. /\ groups \subseteq groups' /\ prefixes \subseteq prefixes'
      /\ faults > 0 => faults' > 0
  BY NetBoxGrows, FaultsGrow
<1>2. CASE addr[a] > 0
  <2>1. PICK g \in groups : /\ g.id = addr[a]
                            /\ g.name \in Clusters
                            /\ a \in Announced(g.name)
                            /\ dns[a] \in {g.name, NoCluster} \/ faults > 0
                            /\ a = TailscaleAddr[g.name] => a \in prefixes \/ faults > 0
    BY <1>2 DEF AddrAttached
  <2> QED
    BY <1>1, <2>1 DEF AddrAttached
<1> QED
  BY <1>2 DEF AddrAttached

\* No step attaches an address, a template or a service to another cluster.
LEMMA AttachmentStep ==
    ASSUME SearchKeepsNames, TailscaleApart, WellFormed, Attachment, [Next]_vars
    PROVE  Attachment'
<1> USE DEF netboxVars
<1>0. /\ addr \in [Addrs -> Nat \cup {-1}] /\ dns \in [Addrs -> Clusters \cup {NoCluster}]
      /\ groups \subseteq groups'
      /\ \A p \in Callers : run[p] \in Run /\ CallOK(p) /\ CallRelies(p)
      /\ \A a \in Addrs : AddrAttached(a) /\ NameReaches(a)
      /\ \A a \in Named : addr[a] > 0 => dns[a] # NoCluster \/ faults > 0
      /\ Named \subseteq Addrs
      /\ faults > 0 => faults' > 0
  BY NetBoxGrows, FaultsGrow, ClusterAssumption
  DEF WellFormed, TypeOK, Attachment, AttachedToOwnCluster, AddrAttached, NameReaches, ClusterAssumption
<1> DEFINE Goal(a) == /\ AddrAttached(a)' /\ NameReaches(a)'
                      /\ a \in Named /\ addr'[a] > 0 => dns'[a] # NoCluster \/ faults' > 0
<1>1. ASSUME NEW a \in Addrs, addr'[a] = addr[a], dns'[a] = dns[a] PROVE Goal(a)
  <2>1. NameReaches(a)'
    BY <1>0, <1>1 DEF NameReaches, Announced
  <2> QED
    BY <1>0, <1>1, <2>1, AddrFrame
<1>2. ASSUME NEW a \in Addrs, ~(addr'[a] > 0), NameReaches(a)' PROVE Goal(a)
  BY <1>2 DEF AddrAttached
<1>3. ASSUME NEW b \in HandAddrs, RecordedByHand(b), NEW a \in Addrs PROVE Goal(a)
  <2>1. dns' = dns /\ NameReaches(a)'
    BY <1>0, <1>3 DEF RecordedByHand, NameReaches, Announced
  <2>2. CASE a = b
    BY <1>0, <1>2, <1>3, <2>1, <2>2 DEF RecordedByHand
  <2>3. CASE a # b
    BY <1>0, <1>1, <1>3, <2>1, <2>3 DEF RecordedByHand
  <2> QED
    BY <2>2, <2>3
<1>4. ASSUME NEW p \in Callers, PatchDns(p), NEW a \in Addrs PROVE Goal(a)
  <2>1. addr' = addr /\ (addr[run[p].ip] = 0 \/ faults > 0)
    BY <1>0, <1>4 DEF PatchDns, CallRelies, At
  <2>2. CASE a = run[p].ip
    <3>1. CASE dns' = dns
      BY <1>1, <2>1, <3>1
    <3>2. CASE dns' = [dns EXCEPT ![run[p].ip] = run[p].dns]
      <4>1. run[p].pc = "patchdns" /\ CallOK(p)
        BY <1>0, <1>4 DEF PatchDns, At
      <4>2. dns'[a] = run[p].dns /\ run[p].dns \in {run[p].c, NoCluster}
        BY <1>0, <2>2, <3>2, <4>1 DEF CallOK, AddrPcs
      <4>3. \E b \in Addrs : b \in Announced(run[p].c) /\ a \in Search[b]
        BY <2>2, <4>1 DEF CallOK
      <4>4. NameReaches(a)'
        BY <4>2, <4>3 DEF NameReaches, Announced
      <4>5. CASE addr[a] = 0
        BY <1>2, <2>1, <4>4, <4>5
      <4>6. CASE faults > 0
        <5>1. AddrAttached(a)'
          <6>1. CASE addr[a] > 0
            <7>1. PICK g \in groups : /\ g.id = addr[a] /\ g.name \in Clusters /\ a \in Announced(g.name)
              BY <1>0, <6>1 DEF AddrAttached
            <7> QED
              BY <1>0, <2>1, <4>6, <7>1 DEF AddrAttached, Announced
          <6> QED
            BY <2>1, <6>1 DEF AddrAttached
        <5> QED
          BY <1>0, <4>4, <4>6, <5>1
      <4> QED
        BY <2>1, <2>2, <4>5, <4>6
    <3> QED
      BY <1>4, <3>1, <3>2 DEF PatchDns
  <2>3. CASE a # run[p].ip
    BY <1>0, <1>1, <1>4, <2>1, <2>3 DEF PatchDns
  <2> QED
    BY <2>2, <2>3
<1>5. ASSUME NEW p \in Callers, MakeAddr(p), NEW a \in Addrs PROVE Goal(a)
  <2>1. CASE a # run[p].ip
    BY <1>0, <1>1, <1>5, <2>1 DEF MakeAddr
  <2>2. CASE a = run[p].ip
    <3>1. run[p].pc = "makeaddr" /\ CallOK(p) /\ CallRelies(p) /\ run[p].kind \in {"lb", "ts"}
      BY <1>0, <1>5 DEF MakeAddr, At, Run
    <3>2. PICK g \in groups : g.id = run[p].grp /\ g.name = run[p].c
      BY <3>1 DEF CallRelies, HasGroup, GroupedPcs, AddrPcs, GroupsOf
    <3>3. /\ g \in groups' /\ addr'[a] = g.id /\ g.name \in Clusters
          /\ dns'[a] = run[p].dns /\ run[p].dns \in {g.name, NoCluster}
      BY <1>0, <1>5, <2>2, <3>1, <3>2 DEF MakeAddr, CallOK, BusyPcs, GroupedPcs, AddrPcs
    <3>4. /\ run[p].kind = "lb" => a \in LbAddrs[g.name]
          /\ run[p].kind = "ts" => a = TailscaleAddr[g.name]
      BY <2>2, <3>1, <3>2 DEF CallOK, AddrPcs
    <3>5. run[p].kind = "ts" => a \in prefixes' \/ faults' > 0
      BY <1>5, <2>2, <3>1, NetBoxGrows, FaultsGrow DEF CallRelies
    <3>6. a = TailscaleAddr[g.name] => run[p].kind = "ts"
      BY <3>1, <3>3, <3>4 DEF TailscaleApart
    <3>7. AddrAttached(a)'
      BY <3>1, <3>3, <3>4, <3>5, <3>6 DEF AddrAttached, Announced
    <3>8. NameReaches(a)'
      BY <3>1, <3>3, <3>4, ClusterAssumption DEF NameReaches, Announced, ClusterAssumption
    <3>9. a \in Named => dns'[a] # NoCluster \/ faults' > 0
      <4>1. run[p].dns = NameFor(run[p].c, run[p].ip) \/ faults > 0
        BY <3>1 DEF CallRelies, AddrPcs
      <4> QED
        BY <1>0, <2>2, <3>2, <3>3, <4>1, Constants DEF NameFor
    <3> QED
      BY <3>7, <3>8, <3>9
  <2> QED
    BY <2>1, <2>2
<1>6. \A a \in Addrs : Goal(a)
  <2>1. CASE UNCHANGED netboxVars
    BY <1>1, <2>1
  <2>2. ASSUME NEW p \in Callers, MakeGroup(p) \/ MakePrefix(p) \/ MakeTemplate(p) \/ MakeService(p)
        PROVE  \A a \in Addrs : Goal(a)
    <3>1. UNCHANGED <<addr, dns>>
      BY <2>2 DEF MakeGroup, MakePrefix, MakeTemplate, MakeService
    <3> QED
      BY <1>1, <3>1
  <2> HIDE DEF Goal
  <2> QED
    BY <1>3, <1>4, <1>5, <2>1, <2>2, NetBoxSteps
<1>7. \A s \in services' : \E g \in groups' : g.name = s.cluster /\ g.id = s.group
  <2>0. \A s \in services : \E g \in groups' : g.name = s.cluster /\ g.id = s.group
    BY <1>0 DEF Attachment, AttachedToOwnCluster, GroupsOf
  <2>1. ASSUME NEW p \in Callers, MakeService(p)
        PROVE  \A s \in services' : \E g \in groups' : g.name = s.cluster /\ g.id = s.group
    <3>1. PICK g \in groups : g.id = run[p].grp /\ g.name = run[p].c
      BY <1>0, <2>1 DEF MakeService, At, CallRelies, HasGroup, GroupedPcs, GroupsOf
    <3> DEFINE new == [id |-> NewId(services), cluster |-> run[p].c, group |-> run[p].grp]
    <3>2. services' = services \cup {new} /\ new.cluster = run[p].c /\ new.group = run[p].grp
      BY <2>1 DEF MakeService
    <3> QED
      BY <1>0, <2>0, <3>1, <3>2
  <2>2. ASSUME NEW p \in Callers, MakeGroup(p) \/ MakePrefix(p) \/ PatchDns(p) \/ MakeAddr(p) \/ MakeTemplate(p)
        PROVE  UNCHANGED services
    BY <2>2 DEF MakeGroup, MakePrefix, PatchDns, MakeAddr, MakeTemplate
  <2>3. ASSUME NEW b \in HandAddrs, RecordedByHand(b) PROVE UNCHANGED services
    BY <2>3 DEF RecordedByHand
  <2> QED
    BY <2>0, <2>1, <2>2, <2>3, NetBoxSteps
<1> QED
  BY <1>0, <1>6, <1>7, CallsRely DEF Attachment, AttachedToOwnCluster, AddrAttached, NameReaches, GroupsOf

\* Nothing is attached when the callers start.
LEMMA AttachmentInit == Init => Attachment
<1> SUFFICES ASSUME Init PROVE Attachment
  OBVIOUS
<1>1. \A p \in Callers : run[p].pc = "idle"
  BY IdleType DEF Init
<1>2. \A p \in Callers : CallRelies(p)
  BY <1>1 DEF CallRelies, HasGroup, GroupedPcs, AddrPcs
<1>3. \A a \in Addrs : addr[a] = -1 /\ dns[a] = NoCluster
  BY DEF Init
<1>4. Named \subseteq Addrs /\ services = {}
  BY ClusterAssumption DEF ClusterAssumption, Init
<1> QED
  BY <1>2, <1>3, <1>4 DEF Attachment, AttachedToOwnCluster

\* However the requests of the controller and of the command interleave, fail
\* or are cut off, every service is attached to a group of its own cluster and
\* every address that SyncStatus recorded to a group of a cluster that announced
\* it, unless a request failed under no other DNS name than that cluster's and,
\* for Tailscale, in a prefix; and no DNS name is that of a cluster whose search
\* does not find the address.
THEOREM AttachedToOwn ==
    ASSUME SearchKeepsNames, TailscaleApart
    PROVE  Spec => []AttachedToOwnCluster
<1>1. WellFormed /\ Attachment /\ [Next]_vars => WellFormed' /\ Attachment'
  BY WellFormedStep, AttachmentStep
<1>2. Spec => [](WellFormed /\ Attachment)
  BY <1>1, WellFormedInit, AttachmentInit, PTL DEF Spec
<1>3. Attachment => AttachedToOwnCluster
  BY DEF Attachment
<1> QED
  BY <1>2, <1>3, PTL

-----------------------------------------------------------------------------
(* Calls that do not overlap make no duplicates.                           *)

\* Only a call that is under way takes steps.
LEMMA SyncIsBusy ==
    ASSUME NEW p \in Callers, SyncStatus(p)
    PROVE  run[p].pc # "idle"
BY DEF SyncStatus, At, NextID, NextIDFails, NextCluster, Return, FindGroup, MakeGroup, Refused, ReadLb,
    ReadTs, FindPrefix, MakePrefix, FindAddr, PatchDns, MakeAddr, TailscaleRefused, FindTemplate,
    MakeTemplate, FindService, MakeService, RequestFails, Requesting

\* A call that begins without overlapping another finds the other caller idle.
LEMMA BeginsAlone ==
    ASSUME NEW p \in Callers, NEW todo, Begin(p, todo), ~overlapped'
    PROVE  ~overlapped /\ \A q \in Callers \ {p} : run[q].pc = "idle"
BY Zenon DEF Begin

\* What becomes of the next group_id, of the groups and of the services when a
\* call takes a step.
LEMMA SyncNumbers ==
    ASSUME WellFormed, NEW p \in Callers, SyncStatus(p)
    PROVE  \/ NextID(p) \/ MakeGroup(p)
           \/ run'[p].pc = "idle" /\ UNCHANGED <<groups, services>>
           \/ /\ run'[p].next = run[p].next
              /\ run[p].pc \notin {"idle", "nextid"}
              /\ UNCHANGED groups
              /\ UNCHANGED services \/ MakeService(p)
<1> USE DEF At, netboxVars
<1>0. run \in [Callers -> Run] /\ run[p] \in Run
  BY DEF WellFormed, TypeOK
<1>b. ASSUME NEW pc \in Pcs, Goto(p, pc) PROVE run'[p].next = run[p].next
  BY <1>0, <1>b, GotoFields
<1>1. CASE NextIDFails(p) \/ Return(p)
  BY <1>0, <1>1, IdleType DEF NextIDFails, Return
<1>2. CASE NextCluster(p)
  BY <1>0, <1>2 DEF NextCluster, Run
<1>3. CASE FindGroup(p)
  <2>1. run'[p].next = run[p].next
    <3>1. CASE \E g : run' = [run EXCEPT ![p].grp = g.id, ![p].pc = "readlb"]
      BY <1>0, <3>1 DEF Run
    <3> QED
      BY <1>3, <1>b, <3>1 DEF FindGroup, Pcs
  <2> QED
    BY <1>3, <2>1 DEF FindGroup
<1>4. CASE ReadLb(p) \/ ReadTs(p)
  <2>1. run'[p].next = run[p].next
    BY <1>0, <1>4, <1>b DEF ReadLb, ReadTs, Run, Pcs
  <2> QED
    BY <1>4, <2>1 DEF ReadLb, ReadTs
<1>5. CASE FindAddr(p)
  <2>1. run'[p].next = run[p].next
    <3>1. CASE \E b : run' = [run EXCEPT ![p].ip = b, ![p].pc = "patchdns"]
      BY <1>0, <3>1 DEF Run
    <3> QED
      BY <1>5, <1>b, <3>1 DEF FindAddr, AfterAddr, Pcs
  <2> QED
    BY <1>5, <2>1 DEF FindAddr
<1>6. CASE MakeTemplate(p)
  <2>1. run'[p].next = run[p].next
    BY <1>0, <1>6, <1>b DEF MakeTemplate, Answered, Skip, Run, Pcs
  <2> QED
    BY <1>6, <2>1 DEF MakeTemplate
<1>7. CASE Refused(p) \/ FindPrefix(p) \/ MakePrefix(p) \/ PatchDns(p) \/ MakeAddr(p) \/ TailscaleRefused(p)
  <2>1. \E pc \in Pcs : Goto(p, pc)
    BY <1>7 DEF Refused, Skip, FindPrefix, MakePrefix, PatchDns, MakeAddr, TailscaleRefused, AfterAddr, Pcs
  <2> QED
    BY <1>7, <1>b, <2>1 DEF Refused, FindPrefix, MakePrefix, PatchDns, MakeAddr, TailscaleRefused
<1>8. CASE FindTemplate(p) \/ FindService(p) \/ MakeService(p)
  <2>1. \E pc \in Pcs : Goto(p, pc)
    BY <1>8 DEF FindTemplate, FindService, MakeService, Pcs
  <2> QED
    BY <1>8, <1>b, <2>1 DEF FindTemplate, FindService, MakeService
<1>9. CASE RequestFails(p)
  <2>1. \E pc \in {"readts", "findtemplate", "findaddr", "cluster"} : Goto(p, pc)
    BY <1>9 DEF RequestFails
  <2> QED
    BY <1>9, <1>b, <2>1 DEF RequestFails, Requesting, Pcs
<1> QED
  BY <1>1, <1>2, <1>3, <1>4, <1>5, <1>6, <1>7, <1>8, <1>9 DEF SyncStatus

\* What a lookup found missing is missing when it is about to be created.
LEMMA LookedUp ==
    ASSUME WellFormed, NEW p \in Callers, SyncStatus(p)
    PROVE  /\ run'[p].pc = "makegroup" =>
                 UNCHANGED groups /\ \A g \in groups : g.name # run'[p].c
           /\ run'[p].pc = "makeservice" =>
                 UNCHANGED services /\ \A s \in services : s.cluster # run'[p].c
<1> USE DEF At, netboxVars, GroupsOf
<1>0. run \in [Callers -> Run] /\ run[p] \in Run
  BY DEF WellFormed, TypeOK
<1>b. ASSUME NEW pc \in Pcs \ {"makegroup", "makeservice"}, Goto(p, pc)
      PROVE  run'[p].pc \notin {"makegroup", "makeservice"}
  BY <1>0, <1>b, GotoFields
<1>1. CASE FindGroup(p)
  <2>1. CASE \E g : run' = [run EXCEPT ![p].grp = g.id, ![p].pc = "readlb"]
    BY <1>0, <2>1 DEF Run
  <2>2. CASE Goto(p, "makegroup") /\ GroupsOf(run[p].c) = {}
    BY <1>0, <1>1, <2>2, GotoFields DEF FindGroup, Pcs
  <2> QED
    BY <1>1, <2>1, <2>2 DEF FindGroup
<1>2. CASE FindService(p)
  <2>1. CASE \E s \in services : s.cluster = run[p].c
    BY <1>b, <1>2, <2>1 DEF FindService, Pcs
  <2>2. CASE ~\E s \in services : s.cluster = run[p].c
    BY <1>0, <1>2, <2>2, GotoFields DEF FindService, Pcs
  <2> QED
    BY <2>1, <2>2
<1>3. CASE NextID(p) \/ NextIDFails(p) \/ NextCluster(p) \/ Return(p)
  <2>1. CASE NextID(p)
    BY <1>0, <2>1 DEF NextID, Run
  <2>2. CASE NextIDFails(p) \/ Return(p)
    BY <1>0, <2>2, IdleType DEF NextIDFails, Return
  <2>3. CASE NextCluster(p)
    BY <1>0, <2>3 DEF NextCluster, Run
  <2> QED
    BY <1>3, <2>1, <2>2, <2>3
<1>4. CASE MakeGroup(p) \/ MakeTemplate(p)
  BY <1>0, <1>4, <1>b DEF MakeGroup, MakeTemplate, Answered, Skip, Run, Pcs
<1>5. CASE ReadLb(p) \/ ReadTs(p)
  BY <1>0, <1>5, <1>b DEF ReadLb, ReadTs, Run, Pcs
<1>6. CASE FindAddr(p)
  <2>1. CASE \E b : run' = [run EXCEPT ![p].ip = b, ![p].pc = "patchdns"]
    BY <1>0, <2>1 DEF Run
  <2> QED
    BY <1>6, <1>b, <2>1 DEF FindAddr, AfterAddr, Pcs
<1>7. CASE \/ Refused(p) \/ FindPrefix(p) \/ MakePrefix(p) \/ PatchDns(p) \/ MakeAddr(p) \/ TailscaleRefused(p)
           \/ FindTemplate(p) \/ MakeService(p)
  <2>1. \E pc \in Pcs \ {"makegroup", "makeservice"} : Goto(p, pc)
    BY <1>7 DEF Refused, Skip, FindPrefix, MakePrefix, PatchDns, MakeAddr, TailscaleRefused,
       FindTemplate, MakeService, AfterAddr, Pcs
  <2> QED
    BY <1>b, <2>1
<1>8. CASE RequestFails(p)
  <2>1. \E pc \in {"readts", "findtemplate", "findaddr", "cluster"} : Goto(p, pc)
    BY <1>8 DEF RequestFails
  <2> QED
    BY <1>b, <2>1 DEF Pcs
<1> QED
  BY <1>1, <1>2, <1>3, <1>4, <1>5, <1>6, <1>7, <1>8 DEF SyncStatus

\* The numbers and the lookups of a call that is alone.
LEMMA AloneStep ==
    ASSUME WellFormed, NEW p \in Callers, SyncStatus(p), AloneRelies(p)
    PROVE  AloneRelies(p)'
<1>0. /\ run \in [Callers -> Run] /\ run[p] \in Run /\ groups \subseteq Group /\ IsFiniteSet(groups)
      /\ lost => lost'
  BY FlagStep DEF WellFormed, TypeOK, Next
<1>1. ASSUME ~lost', run'[p].pc \notin {"idle", "nextid"}
      PROVE  \A g \in groups' : g.gid < run'[p].next
  <2>1. CASE NextID(p)
    <3>1. run'[p].next = GetNextFHRPGroupID /\ groups' = groups
      BY <1>0, <2>1 DEF NextID, netboxVars, Run
    <3> QED
      BY <1>0, <3>1, NextGroupID
  <2>2. CASE MakeGroup(p)
    <3> DEFINE new == [id |-> NewId(groups), name |-> run[p].c, gid |-> run[p].next]
    <3>1. groups' = groups \cup {new} /\ new.gid = run[p].next
      BY <2>2 DEF MakeGroup
    <3>2. run'[p].next = run[p].next + 1
      <4>1. run' = [run EXCEPT ![p].grp = NewId(groups), ![p].next = @ + 1, ![p].pc = "readlb"]
        BY <1>1, <2>2 DEF MakeGroup, Answered
      <4> QED
        BY <1>0, <4>1 DEF Run
    <3>3. \A g \in groups : g.gid < run[p].next
      BY <1>0, <1>1, <2>2 DEF MakeGroup, At, AloneRelies
    <3>4. run[p].next \in Nat /\ \A g \in groups : g.gid \in Nat
      BY <1>0 DEF Run, Group
    <3> HIDE DEF new
    <3> QED
      BY <3>1, <3>2, <3>3, <3>4
  <2>3. CASE ~NextID(p) /\ ~MakeGroup(p)
    BY <1>0, <1>1, <2>3, SyncNumbers DEF AloneRelies
  <2> QED
    BY <2>1, <2>2, <2>3
<1> QED
  BY <1>1, LookedUp DEF AloneRelies, GroupsOf

\* A creation makes no duplicate.
LEMMA CreatedOnce ==
    ASSUME WellFormed, NEW p \in Callers, SyncStatus(p), ~overlapped, AloneRelies(p),
           SerialCallsDoNotDuplicate
    PROVE  /\ \A c \in Clusters : /\ \A g, h \in groups' : g.name = c /\ h.name = c => g = h
                                  /\ \A s, t \in services' : s.cluster = c /\ t.cluster = c => s = t
           /\ ~lost' => \A g, h \in groups' : g.gid = h.gid => g = h
<1>0. /\ run[p] \in Run /\ groups \subseteq Group
      /\ lost => lost'
      /\ \A c \in Clusters : /\ \A g, h \in groups : g.name = c /\ h.name = c => g = h
                             /\ \A s, t \in services : s.cluster = c /\ t.cluster = c => s = t
      /\ ~lost => \A g, h \in groups : g.gid = h.gid => g = h
  BY FlagStep DEF WellFormed, TypeOK, Next, SerialCallsDoNotDuplicate, AtMostOne, GroupsOf
<1>1. CASE MakeGroup(p)
  <2> DEFINE new == [id |-> NewId(groups), name |-> run[p].c, gid |-> run[p].next]
  <2>1. groups' = groups \cup {new} /\ new.gid = run[p].next /\ new.name = run[p].c /\ services' = services
    BY <1>1 DEF MakeGroup
  <2>2. \A g \in groups : g.name # run[p].c
    BY <1>1 DEF MakeGroup, At, AloneRelies, GroupsOf
  <2>3. ~lost => \A g \in groups : g.gid < run[p].next
    BY <1>1 DEF MakeGroup, At, AloneRelies
  <2>4. run[p].next \in Nat /\ \A g \in groups : g.gid \in Nat
    BY <1>0 DEF Run, Group
  <2> HIDE DEF new
  <2>5. ~lost => \A g \in groups : g.gid # new.gid
    BY <2>1, <2>3, <2>4
  <2> QED
    BY <1>0, <2>1, <2>2, <2>5
<1>2. CASE MakeService(p)
  <2> DEFINE new == [id |-> NewId(services), cluster |-> run[p].c, group |-> run[p].grp]
  <2>1. services' = services \cup {new} /\ new.cluster = run[p].c /\ groups' = groups
    BY <1>2 DEF MakeService
  <2>2. \A s \in services : s.cluster # run[p].c
    BY <1>2 DEF MakeService, At, AloneRelies
  <2> HIDE DEF new
  <2> QED
    BY <1>0, <2>1, <2>2
<1>3. CASE UNCHANGED <<groups, services>>
  BY <1>0, <1>3
<1> QED
  BY <1>1, <1>2, <1>3, SyncNumbers DEF NextID, netboxVars

\* No step duplicates a record while calls have not overlapped.
LEMMA SerialStep ==
    ASSUME WellFormed, Serial, [Next]_vars
    PROVE  Serial'
<1> SUFFICES ASSUME ~overlapped' PROVE Serial'
  BY DEF Serial
<1> USE DEF netboxVars, historyVars
<1>0. /\ ~overlapped
      /\ lost => lost'
      /\ \A p, q \in Callers : p # q => run[p].pc = "idle" \/ run[q].pc = "idle"
      /\ \A p \in Callers : AloneRelies(p)
      /\ SerialCallsDoNotDuplicate
  BY FlagStep DEF WellFormed, TypeOK, Serial
<1>1. ASSUME UNCHANGED <<groups, services, lost>> PROVE SerialCallsDoNotDuplicate'
  BY <1>0, <1>1 DEF SerialCallsDoNotDuplicate, AtMostOne, GroupsOf
<1>2. ASSUME NEW p \in Callers, SyncStatus(p) PROVE Serial'
  <2>1. \A q \in Callers \ {p} : run[q].pc = "idle" /\ run'[q] = run[q]
    BY <1>0, <1>2, SyncIsBusy, SyncStep
  <2>2. \A q \in Callers \ {p} : AloneRelies(q)'
    BY <2>1 DEF AloneRelies
  <2>3. AloneRelies(p)'
    BY <1>0, <1>2, AloneStep
  <2>4. SerialCallsDoNotDuplicate'
    BY <1>0, <1>2, CreatedOnce DEF SerialCallsDoNotDuplicate, AtMostOne, GroupsOf
  <2> QED
    BY <2>1, <2>2, <2>3, <2>4 DEF Serial
<1>3. ASSUME NEW p \in Callers, run'[p].pc \in {"idle", "nextid"},
             \A q \in Callers \ {p} : run'[q] = run[q],
             run'[p].pc = "nextid" => \A q \in Callers \ {p} : run[q].pc = "idle",
             UNCHANGED <<groups, services, lost>>
      PROVE  Serial'
  <2>1. AloneRelies(p)'
    BY <1>3 DEF AloneRelies
  <2>2. \A q \in Callers \ {p} : AloneRelies(q)'
    BY <1>0, <1>3 DEF AloneRelies, GroupsOf
  <2> QED
    BY <1>0, <1>1, <1>3, <2>1, <2>2 DEF Serial
<1>4. ASSUME UNCHANGED <<run, groups, services, lost>> PROVE Serial'
  <2>1. \A q \in Callers : AloneRelies(q)'
    BY <1>0, <1>4 DEF AloneRelies, GroupsOf
  <2> QED
    BY <1>0, <1>1, <1>4, <2>1 DEF Serial
<1>5. ASSUME NEW c \in Managed, Reconcile(c) PROVE Serial'
  <2>1. CASE c \in capi
    BY <1>3, <1>5, <2>1, BeginStep, BeginsAlone, Constants DEF Reconcile, Callers
  <2>2. CASE c \notin capi
    BY <1>4, <1>5, <2>2 DEF Reconcile
  <2> QED
    BY <2>1, <2>2
<1>6. CASE Command
  BY <1>3, <1>6, BeginStep, BeginsAlone DEF Command, Callers
<1>7. ASSUME NEW p \in Callers, Dies(p) PROVE Serial'
  BY <1>3, <1>7, IdleStep DEF Dies
<1>8. CASE \/ \E c \in Managed : ClusterChanges(c) \/ \E a \in LbAddrs[c] : AddressChanges(c, a)
           \/ \E a \in HandAddrs : RecordedByHand(a)
           \/ Resync \/ UNCHANGED vars
  BY <1>4, <1>8 DEF vars, ClusterChanges, AddressChanges, RecordedByHand, Resync
<1> QED
  BY <1>2, <1>5, <1>6, <1>7, <1>8 DEF Next

\* NetBox starts without duplicates.
LEMMA SerialInit == Init => Serial
<1> SUFFICES ASSUME Init PROVE Serial
  OBVIOUS
<1>1. \A p \in Callers : run[p].pc = "idle"
  BY IdleType DEF Init
<1>2. PICK M \in SUBSET ManualGids : groups = {[id |-> g, name |-> NoCluster, gid |-> g] : g \in M}
  BY DEF Init
<1>3. \A g \in groups : g.name \notin Clusters
  BY <1>2, Constants
<1>4. \A g, h \in groups : g.gid = h.gid => g = h
  BY <1>2
<1>5. services = {}
  BY DEF Init
<1> QED
  BY <1>1, <1>3, <1>4, <1>5 DEF Serial, AloneRelies, SerialCallsDoNotDuplicate, AtMostOne, GroupsOf

\* As long as the controller and the command do not overlap, no cluster gets a
\* second FHRP group or service, however many requests fail, answers are lost
\* or processes die; and without lost answers no group_id is used twice.
THEOREM SerialCalls == Spec => []SerialCallsDoNotDuplicate
<1>1. WellFormed /\ Serial /\ [Next]_vars => WellFormed' /\ Serial'
  BY WellFormedStep, SerialStep
<1>2. Spec => [](WellFormed /\ Serial)
  BY <1>1, WellFormedInit, SerialInit, PTL DEF Spec
<1>3. Serial => SerialCallsDoNotDuplicate
  BY DEF Serial, SerialCallsDoNotDuplicate
<1> QED
  BY <1>2, <1>3, PTL

-----------------------------------------------------------------------------
(* What is reported without error is so.                                   *)

\* What accounts for an address stays: nothing that is recorded goes away.
LEMMA AccountKept ==
    ASSUME WellFormed, [Next]_vars, NEW c, NEW a \in Addrs, Accounted(c, a)
    PROVE  Accounted(c, a)'
<1>0. /\ groups \subseteq groups' /\ groups \subseteq Group
      /\ \A b \in Addrs : addr[b] # -1 => addr'[b] = addr[b]
      /\ Search[a] \subseteq Addrs
  BY NetBoxGrows, Constants DEF WellFormed, TypeOK
<1>1. \A g \in groups : g.id # -1
  BY <1>0 DEF Group
<1>2. CASE \E g \in GroupsOf(c) : addr[a] = g.id
  BY <1>0, <1>1, <1>2 DEF Accounted, GroupsOf
<1>3. CASE addr[a] = 0
  BY <1>0, <1>3 DEF Accounted
<1>4. CASE \E g \in groups : g.name \in Clusters \ {c} /\ addr[a] = g.id
  BY <1>0, <1>1, <1>4 DEF Accounted
<1>5. CASE \E b \in Search[a] \ {a} : addr[b] # -1
  BY <1>0, <1>5 DEF Accounted
<1> QED
  BY <1>2, <1>3, <1>4, <1>5 DEF Accounted

\* When the search for an address finds something, the address is accounted
\* for.
LEMMA FoundIsAccounted ==
    ASSUME WellFormed, Reports, NEW c, NEW a \in Addrs, Found(a) # {}
    PROVE  Accounted(c, a)
<1>0. addr[a] \in Nat \cup {-1}
  BY DEF WellFormed, TypeOK
<1>1. PICK b \in Search[a] : addr[b] # -1
  BY DEF Found
<1>2. CASE b # a
  BY <1>1, <1>2 DEF Accounted
<1>3. CASE b = a /\ addr[a] = 0
  BY <1>3 DEF Accounted
<1>4. CASE b = a /\ addr[a] > 0
  <2>1. PICK g \in groups : g.id = addr[a] /\ g.name \in Clusters
    BY <1>4 DEF Reports
  <2> QED
    BY <2>1 DEF Accounted, GroupsOf
<1> QED
  BY <1>0, <1>1, <1>2, <1>3, <1>4

\* A call leaves the Cilium address of its cluster behind when it is accounted
\* for, and not before.
LEMMA AddressDoneStep ==
    ASSUME WellFormed, Reports, NEW p \in Callers, SyncStatus(p)
    PROVE  AddressDone(p)'
<1> USE DEF At
<1>0. /\ run \in [Callers -> Run] /\ run[p] \in Run /\ CallOK(p) /\ HasGroup(p) /\ AddressDone(p)
      /\ addr \in [Addrs -> Nat \cup {-1}] /\ lb \in [Clusters -> Addrs \cup {NoAddr}]
      /\ [Next]_vars
  BY DEF WellFormed, TypeOK, Reports, Next
<1> DEFINE AccountedNext(c, a) ==
        \/ \E g \in groups' : g.name = c /\ addr'[a] = g.id
        \/ addr'[a] = 0
        \/ \E g \in groups' : g.name \in Clusters \ {c} /\ addr'[a] = g.id
        \/ \E b \in Search[a] \ {a} : addr'[b] # -1
<1>k. ASSUME NEW c, NEW a \in Addrs, Accounted(c, a) PROVE AccountedNext(c, a)
  <2>1. Accounted(c, a)'
    BY <1>0, <1>k, AccountKept
  <2> QED
    BY <2>1 DEF Accounted, GroupsOf
<1>a. ASSUME run'[p].lb = NoAddr PROVE AddressDone(p)'
  BY <1>a DEF AddressDone
<1>c. ASSUME run'[p].lb = run[p].lb, run'[p].c = run[p].c,
             run[p].pc \in GroupedPcs \ {"readlb"}, run'[p].pc \in GroupedPcs \ {"readlb"},
             run[p].lb # NoAddr /\ (run'[p].pc \in {"findaddr", "makeaddr"} => run'[p].kind = "ts") =>
                AccountedNext(run[p].c, run[p].lb)
      PROVE  AddressDone(p)'
  BY <1>0, <1>c DEF AddressDone, Accounted, GroupsOf
<1>d. ASSUME run[p].lb # NoAddr, run[p].pc \in {"findaddr", "makeaddr"} => run[p].kind = "ts"
      PROVE  AccountedNext(run[p].c, run[p].lb)
  <2>1. run[p].lb \in Addrs
    BY <1>0, <1>d DEF Run
  <2> HIDE DEF AccountedNext
  <2> QED
    BY <1>0, <1>d, <1>k, <2>1 DEF AddressDone
<1> HIDE DEF AccountedNext
<1>e. ASSUME Goto(p, "cluster") PROVE AddressDone(p)'
  BY <1>0, <1>a, <1>e, GotoFields DEF Pcs
<1>f. ASSUME NEW pc \in GroupedPcs \ {"readlb"}, Goto(p, pc),
             run[p].pc \in GroupedPcs \ {"readlb"},
             run[p].lb # NoAddr /\ (pc \in {"findaddr", "makeaddr"} => run[p].kind = "ts") =>
                AccountedNext(run[p].c, run[p].lb)
      PROVE  AddressDone(p)'
  <2>1. pc \in Pcs \ {"cluster"}
    BY DEF Pcs, GroupedPcs, AddrPcs
  <2>2. /\ run'[p].lb = run[p].lb /\ run'[p].c = run[p].c /\ run'[p].pc = pc
        /\ pc \notin {"readts", "findtemplate"} => run'[p].kind = run[p].kind
    BY <1>0, <1>f, <2>1, GotoFields
  <2> QED
    BY <1>c, <1>f, <2>2
<1>g. ASSUME run[p].lb = NoAddr, NEW pc \in Pcs, Goto(p, pc) PROVE AddressDone(p)'
  BY <1>0, <1>a, <1>g, GotoFields
<1>h. run[p].pc \notin GroupedPcs \ {"readlb"} => run[p].lb = NoAddr
  BY <1>0 DEF AddressDone
<1>1. CASE NextID(p)
  BY <1>0, <1>1, <1>a, <1>h DEF NextID, Run, GroupedPcs, AddrPcs
<1>2. CASE NextIDFails(p) \/ Return(p)
  BY <1>0, <1>2, <1>a, IdleStep DEF NextIDFails, Return
<1>3. CASE NextCluster(p)
  BY <1>0, <1>3, <1>a, <1>h DEF NextCluster, Run, GroupedPcs, AddrPcs
<1>4. CASE FindGroup(p)
  <2>1. CASE \E g : run' = [run EXCEPT ![p].grp = g.id, ![p].pc = "readlb"]
    <3>1. run'[p].lb = run[p].lb /\ run'[p].pc = "readlb"
      BY <1>0, <2>1 DEF Run
    <3> QED
      BY <1>4, <1>a, <1>h, <3>1 DEF FindGroup, GroupedPcs, AddrPcs
  <2> QED
    BY <1>4, <1>g, <1>h, <2>1 DEF FindGroup, Pcs, GroupedPcs, AddrPcs
<1>5. CASE MakeGroup(p)
  <2>1. CASE run' = [run EXCEPT ![p].grp = NewId(groups), ![p].next = @ + 1, ![p].pc = "readlb"]
    <3>1. run'[p].lb = run[p].lb /\ run'[p].pc = "readlb"
      BY <1>0, <2>1 DEF Run
    <3> QED
      BY <1>5, <1>a, <1>h, <3>1 DEF MakeGroup, GroupedPcs, AddrPcs
  <2> QED
    BY <1>5, <1>e, <2>1 DEF MakeGroup, Answered, Skip
<1>6. CASE Refused(p)
  BY <1>6, <1>e DEF Refused, Skip
<1>7. CASE ReadLb(p)
  <2>1. run[p].c \in Clusters /\ run[p].lb = NoAddr /\ run[p].kind = "lb"
    BY <1>0, <1>7, <1>h DEF ReadLb, CallOK, BusyPcs, GroupedPcs, AddrPcs
  <2>2. CASE run[p].c \in Managed /\ lb[run[p].c] # NoAddr
    <3>1. \E n : run' = [run EXCEPT ![p].pc = "findaddr", ![p].ip = lb[run[p].c], ![p].lb = lb[run[p].c],
                                     ![p].dns = n]
      BY <1>7, <2>2 DEF ReadLb
    <3>2. run'[p].pc = "findaddr" /\ run'[p].lb = lb[run[p].c] /\ run'[p].c = run[p].c /\ run'[p].kind = "lb"
      BY <1>0, <2>1, <3>1 DEF Run
    <3> QED
      BY <1>0, <2>1, <2>2, <3>2 DEF AddressDone, GroupedPcs, AddrPcs
  <2>3. CASE ~(run[p].c \in Managed /\ lb[run[p].c] # NoAddr)
    BY <1>7, <1>g, <2>1, <2>3 DEF ReadLb, Pcs
  <2> QED
    BY <2>2, <2>3
<1>8. CASE ReadTs(p)
  <2>0. run[p].pc = "readts" /\ (run[p].lb # NoAddr => AccountedNext(run[p].c, run[p].lb))
    BY <1>8, <1>d DEF ReadTs
  <2>1. CASE Goto(p, "findtemplate")
    BY <1>f, <2>0, <2>1 DEF GroupedPcs, AddrPcs
  <2>2. CASE ~Goto(p, "findtemplate")
    <3>1. run' = [run EXCEPT ![p].pc = "findprefix", ![p].kind = "ts", ![p].ip = TailscaleAddr[run[p].c],
                             ![p].dns = NameFor(run[p].c, TailscaleAddr[run[p].c])]
      BY <1>8, <2>2 DEF ReadTs
    <3>2. run'[p].pc = "findprefix" /\ run'[p].lb = run[p].lb /\ run'[p].c = run[p].c
      BY <1>0, <3>1 DEF Run
    <3> QED
      BY <1>c, <2>0, <3>2 DEF GroupedPcs, AddrPcs
  <2> QED
    BY <2>1, <2>2
<1>9. CASE FindPrefix(p) \/ MakePrefix(p)
  <2>1. PICK pc \in {"findaddr", "makeprefix"} : Goto(p, pc)
    BY <1>9 DEF FindPrefix, MakePrefix
  <2>2. run[p].pc \in {"findprefix", "makeprefix"}
    BY <1>9 DEF FindPrefix, MakePrefix
  <2> QED
    BY <1>d, <1>f, <2>1, <2>2 DEF GroupedPcs, AddrPcs
<1>10. CASE FindAddr(p)
  <2>0. run[p].pc = "findaddr" /\ run[p].ip \in Addrs /\ run[p].c \in Clusters /\ run[p].kind \in {"lb", "ts"}
    BY <1>0, <1>10 DEF FindAddr, CallOK, AddrPcs, BusyPcs, GroupedPcs, Run
  <2>1. CASE Found(run[p].ip) = {}
    <3>1. Goto(p, "makeaddr")
      BY <1>10, <2>1 DEF FindAddr, FirstFound
    <3> QED
      BY <1>d, <1>f, <2>0, <3>1 DEF GroupedPcs, AddrPcs
  <2>2. CASE Found(run[p].ip) # {}
    <3>1. run[p].lb # NoAddr => AccountedNext(run[p].c, run[p].lb)
      <4>1. CASE run[p].kind = "ts"
        BY <1>d, <4>1
      <4>2. CASE run[p].kind = "lb"
        <5>1. run[p].ip = run[p].lb
          BY <1>0, <2>0, <4>2 DEF CallOK, AddrPcs
        <5> QED
          BY <1>k, <2>0, <2>2, <5>1, FoundIsAccounted
      <4> QED
        BY <2>0, <4>1, <4>2
    <3>2. CASE \E b : run' = [run EXCEPT ![p].ip = b, ![p].pc = "patchdns"]
      <4>1. run'[p].pc = "patchdns" /\ run'[p].lb = run[p].lb /\ run'[p].c = run[p].c
        BY <1>0, <3>2 DEF Run
      <4> QED
        BY <1>c, <2>0, <3>1, <4>1 DEF GroupedPcs, AddrPcs
    <3>3. CASE Goto(p, AfterAddr(p))
      BY <1>f, <2>0, <3>1, <3>3 DEF AfterAddr, GroupedPcs, AddrPcs
    <3> QED
      BY <1>10, <2>2, <3>2, <3>3 DEF FindAddr
  <2> QED
    BY <2>1, <2>2
<1>11. CASE PatchDns(p)
  <2>1. run[p].pc = "patchdns" /\ Goto(p, AfterAddr(p))
    BY <1>11 DEF PatchDns
  <2> QED
    BY <1>d, <1>f, <2>1 DEF AfterAddr, GroupedPcs, AddrPcs
<1>12. CASE MakeAddr(p)
  <2>0. run[p].pc = "makeaddr" /\ run[p].ip \in Addrs /\ run[p].kind \in {"lb", "ts"}
    BY <1>0, <1>12 DEF MakeAddr, CallOK, AddrPcs, Run
  <2>1. CASE Goto(p, "cluster")
    BY <1>e, <2>1
  <2>2. CASE Goto(p, "readts") /\ run[p].kind = "lb"
    <3>1. run[p].ip = run[p].lb
      BY <1>0, <2>0, <2>2 DEF CallOK, AddrPcs
    <3>2. addr'[run[p].lb] = run[p].grp
      BY <1>0, <1>12, <2>0, <3>1 DEF MakeAddr
    <3>3. PICK g \in groups : g.name = run[p].c /\ g.id = run[p].grp
      BY <1>0, <2>0 DEF HasGroup, GroupedPcs, AddrPcs, GroupsOf
    <3>4. AccountedNext(run[p].c, run[p].lb)
      BY <1>0, <3>2, <3>3, NetBoxGrows DEF AccountedNext
    <3> QED
      BY <1>f, <2>0, <2>2, <3>4 DEF GroupedPcs, AddrPcs
  <2>3. CASE Goto(p, "findtemplate") /\ run[p].kind = "ts"
    BY <1>d, <1>f, <2>0, <2>3 DEF GroupedPcs, AddrPcs
  <2> QED
    BY <1>12, <2>0, <2>1, <2>2, <2>3 DEF MakeAddr, AfterAddr
<1>13. CASE TailscaleRefused(p)
  BY <1>13, <1>d, <1>f DEF TailscaleRefused, GroupedPcs, AddrPcs
<1>14. CASE FindTemplate(p) \/ FindService(p) \/ MakeService(p)
  <2>1. run[p].pc \in {"findtemplate", "findservice", "makeservice"}
    BY <1>14 DEF FindTemplate, FindService, MakeService
  <2>2. PICK pc \in {"cluster", "findservice", "maketemplate", "makeservice"} : Goto(p, pc)
    BY <1>14 DEF FindTemplate, FindService, MakeService
  <2> QED
    BY <1>d, <1>e, <1>f, <2>1, <2>2 DEF GroupedPcs, AddrPcs
<1>15. CASE MakeTemplate(p)
  <2>1. CASE run' = [run EXCEPT ![p].pc = "findservice"]
    <3>1. run'[p].pc = "findservice" /\ run'[p].lb = run[p].lb /\ run'[p].c = run[p].c
      BY <1>0, <2>1 DEF Run
    <3> QED
      BY <1>15, <1>c, <1>d, <3>1 DEF MakeTemplate, GroupedPcs, AddrPcs
  <2> QED
    BY <1>15, <1>e, <2>1 DEF MakeTemplate, Answered, Skip
<1>16. CASE RequestFails(p)
  <2>1. PICK pc \in {"readts", "findtemplate", "findaddr", "cluster"} :
             /\ Goto(p, pc)
             /\ pc = "readts" => run[p].pc = "readlb"
             /\ pc = "findaddr" => run[p].pc \in {"findprefix", "makeprefix"}
             /\ pc = "findtemplate" => \/ run[p].pc = "readts"
                                       \/ run[p].pc \in {"findaddr", "makeaddr"} /\ run[p].kind = "ts"
    BY <1>16 DEF RequestFails
  <2>2. CASE pc = "readts"
    BY <1>g, <1>h, <2>1, <2>2 DEF Pcs
  <2>3. CASE pc = "findtemplate" \/ pc = "findaddr"
    BY <1>d, <1>f, <2>1, <2>3 DEF GroupedPcs, AddrPcs
  <2> QED
    BY <1>e, <2>1, <2>2, <2>3
<1> QED
  BY <1>1, <1>2, <1>3, <1>4, <1>5, <1>6, <1>7, <1>8, <1>9, <1>10, <1>11, <1>12, <1>13, <1>14, <1>15, <1>16
  DEF SyncStatus

\* A report without error is made when the Cilium address of the cluster is
\* accounted for.
LEMMA ReportStep ==
    ASSUME WellFormed, Reports, NEW p \in Callers, SyncStatus(p), NEW c \in Clusters,
           reported'[c] # NoAddr
    PROVE  reported'[c] \in Addrs /\ Accounted(c, reported'[c])
<1>0. /\ reported \in [Clusters -> Addrs \cup {NoAddr}] /\ run[p] \in Run /\ CallOK(p) /\ AddressDone(p)
      /\ \A d \in Clusters : reported[d] # NoAddr => Accounted(d, reported[d])
  BY DEF WellFormed, TypeOK, Reports, ReportedAddressKnown, Accounted
<1>1. CASE reported' = reported
  BY <1>0, <1>1
<1>2. CASE (FindService(p) \/ MakeService(p)) /\ Report(p)
  <2>1. run[p].pc \in {"findservice", "makeservice"} /\ run[p].c \in Clusters
    BY <1>0, <1>2 DEF FindService, MakeService, At, CallOK, BusyPcs, GroupedPcs
  <2>2. reported'[c] = reported[c] \/ (c = run[p].c /\ reported'[c] = run[p].lb)
    BY <1>0, <1>2, <2>1 DEF Report
  <2>3. run[p].lb # NoAddr => run[p].lb \in Addrs /\ Accounted(run[p].c, run[p].lb)
    BY <1>0, <2>1 DEF AddressDone, Run
  <2> QED
    BY <1>0, <2>2, <2>3
<1> QED
  BY <1>1, <1>2 DEF SyncStatus, NextID, NextIDFails, NextCluster, Return, FindGroup, MakeGroup, Refused,
     ReadLb, ReadTs, FindPrefix, MakePrefix, FindAddr, PatchDns, MakeAddr, TailscaleRefused, FindTemplate,
     MakeTemplate, FindService, MakeService, RequestFails, historyVars

\* No step reports a cluster whose address is not accounted for.
LEMMA ReportsStep ==
    ASSUME WellFormed, Reports, [Next]_vars
    PROVE  Reports'
<1> USE DEF netboxVars, historyVars
<1>0. /\ WellFormed'
      /\ \A p \in Callers : run[p] \in Run /\ CallOK(p) /\ HasGroup(p) /\ AddressDone(p)
      /\ addr \in [Addrs -> Nat \cup {-1}]
      /\ groups \subseteq groups'
      /\ \A a \in Addrs : addr[a] > 0 => \E g \in groups : g.id = addr[a] /\ g.name \in Clusters
      /\ \A c \in Clusters : reported[c] # NoAddr => reported[c] \in Addrs /\ Accounted(c, reported[c])
  BY WellFormedStep, NetBoxGrows DEF WellFormed, TypeOK, Reports, ReportedAddressKnown, Accounted
\* The calls.
<1>1. ASSUME NEW q \in Callers, run'[q] = run[q] PROVE HasGroup(q)' /\ AddressDone(q)'
  <2>1. HasGroup(q)'
    BY <1>0, <1>1 DEF HasGroup, GroupsOf
  <2>2. run[q].lb # NoAddr => run[q].lb \in Addrs
    BY <1>0 DEF Run
  <2>3. \A c : \A a \in Addrs : Accounted(c, a) =>
             \/ \E g \in groups' : g.name = c /\ addr'[a] = g.id
             \/ addr'[a] = 0
             \/ \E g \in groups' : g.name \in Clusters \ {c} /\ addr'[a] = g.id
             \/ \E b \in Search[a] \ {a} : addr'[b] # -1
    BY AccountKept DEF Accounted, GroupsOf
  <2>4. AddressDone(q)'
    <3>1. CASE run[q].lb = NoAddr
      BY <1>1, <3>1 DEF AddressDone
    <3>2. CASE run[q].pc \in {"findaddr", "makeaddr"} /\ run[q].kind # "ts"
      BY <1>0, <1>1, <3>2 DEF AddressDone
    <3>3. CASE run[q].lb # NoAddr /\ Accounted(run[q].c, run[q].lb)
      <4> DEFINE c == run[q].c
                 a == run[q].lb
      <4>1. a \in Addrs /\ Accounted(c, a)
        BY <2>2, <3>3
      <4>2. run'[q].c = c /\ run'[q].lb = a /\ run[q].pc \in GroupedPcs \ {"readlb"}
        BY <1>0, <1>1, <3>3 DEF AddressDone
      <4> HIDE DEF c, a
      <4>3. \/ \E g \in groups' : g.name = c /\ addr'[a] = g.id
            \/ addr'[a] = 0
            \/ \E g \in groups' : g.name \in Clusters \ {c} /\ addr'[a] = g.id
            \/ \E b \in Search[a] \ {a} : addr'[b] # -1
        BY <2>3, <4>1
      <4> QED
        BY <1>1, <4>2, <4>3 DEF AddressDone, Accounted, GroupsOf
    <3> QED
      BY <1>0, <3>1, <3>2, <3>3 DEF AddressDone
  <2> QED
    BY <2>1, <2>4
<1>2. ASSUME NEW p \in Callers, HasGroup(p)', AddressDone(p)', \A q \in Callers \ {p} : run'[q] = run[q]
      PROVE  \A q \in Callers : HasGroup(q)' /\ AddressDone(q)'
  BY <1>1, <1>2
<1>3. ASSUME NEW p \in Callers, run'[p].pc \in {"idle", "nextid"}, run'[p].lb = NoAddr
      PROVE  HasGroup(p)' /\ AddressDone(p)'
  BY <1>3 DEF HasGroup, AddressDone, GroupedPcs, AddrPcs
<1>4. \A q \in Callers : HasGroup(q)' /\ AddressDone(q)'
  <2>1. CASE UNCHANGED run
    BY <1>1, <2>1
  <2>2. ASSUME NEW p \in Callers, SyncStatus(p) PROVE \A q \in Callers : HasGroup(q)' /\ AddressDone(q)'
    <3>1. HasGroup(p)'
      BY <1>0, <2>2, KeepsGroup DEF HasGroup, GroupsOf
    <3> QED
      BY <1>2, <2>2, <3>1, SyncStep, AddressDoneStep
  <2>3. ASSUME NEW c \in Managed, Reconcile(c) PROVE \A q \in Callers : HasGroup(q)' /\ AddressDone(q)'
    BY <1>2, <1>3, <2>1, <2>3, BeginStep, Constants DEF Reconcile, Callers
  <2>4. CASE Command
    BY <1>2, <1>3, <2>4, BeginStep DEF Command, Callers
  <2>5. ASSUME NEW p \in Callers, Dies(p) PROVE \A q \in Callers : HasGroup(q)' /\ AddressDone(q)'
    BY <1>2, <1>3, <2>5, IdleStep DEF Dies
  <2>6. CASE \/ \E c \in Managed : ClusterChanges(c) \/ \E a \in LbAddrs[c] : AddressChanges(c, a)
             \/ \E a \in HandAddrs : RecordedByHand(a)
             \/ Resync \/ UNCHANGED vars
    BY <2>1, <2>6 DEF vars, ClusterChanges, AddressChanges, RecordedByHand, Resync
  <2> QED
    BY <2>2, <2>3, <2>4, <2>5, <2>6 DEF Next
\* The addresses.
<1>5. \A a \in Addrs : addr'[a] > 0 => \E g \in groups' : g.id = addr'[a] /\ g.name \in Clusters
  <2>0. ASSUME NEW a \in Addrs, addr'[a] = addr[a], addr'[a] > 0
        PROVE  \E g \in groups' : g.id = addr'[a] /\ g.name \in Clusters
    BY <1>0, <2>0
  <2>1. ASSUME NEW p \in Callers, MakeAddr(p), NEW a \in Addrs, addr'[a] > 0
        PROVE  \E g \in groups' : g.id = addr'[a] /\ g.name \in Clusters
    <3>1. run[p].c \in Clusters /\ \E g \in groups : g.name = run[p].c /\ g.id = run[p].grp
      BY <1>0, <2>1 DEF MakeAddr, At, CallOK, HasGroup, BusyPcs, GroupedPcs, AddrPcs, GroupsOf
    <3>2. addr'[a] = addr[a] \/ addr'[a] = run[p].grp
      BY <1>0, <2>1 DEF MakeAddr
    <3> QED
      BY <1>0, <2>0, <2>1, <3>1, <3>2
  <2>2. ASSUME NEW p \in Callers, MakeGroup(p) \/ MakePrefix(p) \/ PatchDns(p) \/ MakeTemplate(p) \/ MakeService(p)
        PROVE  UNCHANGED addr
    BY <2>2 DEF MakeGroup, MakePrefix, PatchDns, MakeTemplate, MakeService
  <2>3. ASSUME NEW b \in HandAddrs, RecordedByHand(b), NEW a \in Addrs, addr'[a] > 0
        PROVE  addr'[a] = addr[a]
    BY <1>0, <2>3 DEF RecordedByHand
  <2> QED
    BY <2>0, <2>1, <2>2, <2>3, NetBoxSteps
\* The reports.
<1>6. ASSUME NEW c \in Clusters, reported'[c] # NoAddr
      PROVE  LET a == reported'[c] IN
             \/ \E g \in groups' : g.name = c /\ addr'[a] = g.id
             \/ addr'[a] = 0
             \/ \E g \in groups' : g.name \in Clusters \ {c} /\ addr'[a] = g.id
             \/ \E b \in Search[a] \ {a} : addr'[b] # -1
  <2> DEFINE r == reported'[c]
  <2>1. r \in Addrs /\ Accounted(c, r)
    <3>1. CASE UNCHANGED reported
      BY <1>0, <1>6, <3>1
    <3>2. ASSUME NEW p \in Callers, SyncStatus(p) PROVE r \in Addrs /\ Accounted(c, r)
      BY <1>6, <3>2, ReportStep
    <3> QED
      BY <3>1, <3>2 DEF Next, vars, ClusterChanges, AddressChanges, RecordedByHand, Resync, Reconcile, Command, Dies
  <2>2. \A a \in Addrs : Accounted(c, a) =>
             \/ \E g \in groups' : g.name = c /\ addr'[a] = g.id
             \/ addr'[a] = 0
             \/ \E g \in groups' : g.name \in Clusters \ {c} /\ addr'[a] = g.id
             \/ \E b \in Search[a] \ {a} : addr'[b] # -1
    BY AccountKept DEF Accounted, GroupsOf
  <2> QED
    BY <2>1, <2>2
<1> QED
  BY <1>4, <1>5, <1>6 DEF Reports, ReportedAddressKnown, GroupsOf

\* Nothing is reported at the start.
LEMMA ReportsInit == Init => Reports
<1> SUFFICES ASSUME Init PROVE Reports
  OBVIOUS
<1>1. \A p \in Callers : run[p].pc = "idle" /\ run[p].lb = NoAddr
  BY DEF Init, Idle
<1>2. /\ \A a \in Addrs : addr[a] = -1
      /\ \A c \in Clusters : reported[c] = NoAddr
  BY DEF Init
<1> QED
  BY <1>1, <1>2 DEF Reports, HasGroup, AddressDone, ReportedAddressKnown, GroupedPcs, AddrPcs

\* However the requests of the controller and of the command interleave, fail
\* or are cut off, whatever others record and however addresses begin: the
\* Cilium address of a cluster that SyncStatus reports without error is on one
\* of its FHRP groups, unless it was recorded elsewhere before or the search
\* takes another address for it (getOrCreateIPAddress).
THEOREM ReportedIsKnown == Spec => []ReportedAddressKnown
<1>1. WellFormed /\ Reports /\ [Next]_vars => WellFormed' /\ Reports'
  BY WellFormedStep, ReportsStep
<1>2. Spec => [](WellFormed /\ Reports)
  BY <1>1, WellFormedInit, ReportsInit, PTL DEF Spec
<1>3. Reports => ReportedAddressKnown
  BY DEF Reports
<1> QED
  BY <1>2, <1>3, PTL
=============================================================================
