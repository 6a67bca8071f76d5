--------------------------- MODULE Seeding_proofs ---------------------------
(***************************************************************************)
(* Proofs about Seeding, for any number of devices, networks, controllers  *)
(* and permissions and every bound: seeding makes nothing twice, "Seed     *)
(* complete." is true, and a further run changes nothing.                  *)
(*                                                                         *)
(* The argument is about names.  An id that a run remembers may be of a    *)
(* record that is gone, but if there is a record of that id, it has the    *)
(* planned kind and name; what a record refers to exists and has the       *)
(* planned name; and names of that kind are not ambiguous.                 *)
(***************************************************************************)
EXTENDS Seeding, Lists_proofs, SequenceTheorems

-----------------------------------------------------------------------------
(* The inductive invariant.                                                *)

Places == 1..Len(Plan)
Behind == 1..(at - 1)
PlanNames == {Plan[i].name : i \in Places}

Record == [id : Nat, kind : Kinds, name : PlanNames, refs : Seq(Nat)]

\* Which kind refers to which; a permission does not count, since it stays
\* when its user is deleted.
MayRefer ==
    {<<"site", "tenant">>, <<"type", "manufacturer">>, <<"device", "site">>, <<"device", "role">>,
     <<"device", "type">>, <<"device", "tenant">>, <<"iface", "device">>, <<"address", "iface">>,
     <<"primary", "device">>, <<"primary", "address">>, <<"member", "group">>, <<"member", "akuser">>,
     <<"token", "nbuser">>, <<"perm", "nbuser">>}

Referred ==
    {"tenant", "site", "role", "manufacturer", "type", "device", "iface", "address", "group", "akuser", "nbuser"}

\* Types, and where a run is.
WellFormed ==
    /\ tool \in {"netbox", "authentik"}
    /\ pc \in {"idle", "lookup", "create", "complete", "failed"}
    /\ at \in 1..(Len(Plan) + 1)
    /\ pc \in {"lookup", "create"} => at \in Places
    /\ pc = "complete" => at = Len(Plan) + 1
    /\ nextId \in Nat /\ nextId >= 1
    /\ recs \subseteq Record
    /\ \A r \in recs : r.id \in 1..(nextId - 1)
    /\ \A r, q \in recs : r.id = q.id => r = q
    /\ got \in [{Plan[i].label : i \in Behind} -> 1..(nextId - 1)]
    /\ DOMAIN printed = {Plan[i].name : i \in {j \in Behind : Plan[j].kind = "token"}}
    /\ \A u \in DOMAIN printed : printed[u] \in {Placeholder} \cup 1..(nextId - 1)
    /\ faults \in 0..MaxFaults /\ edits \in 0..MaxEdits /\ runs \in 0..MaxRuns
    /\ touched \in BOOLEAN /\ settled \in BOOLEAN

\* Of the records R, one with this id has the kind and name that the plan
\* gives under label l.
Denotes(R, l, id) ==
    \E x \in R, j \in Places :
        Plan[j].label = l /\ x.id = id /\ x.kind = Plan[j].kind /\ x.name = Plan[j].name

\* r is the record that step s of the plan is about.  An operator may move
\* addresses, and permissions are left behind without user.
Stands(R, r, s) ==
    /\ r.kind = s.kind /\ r.name = s.name
    /\ s.kind \notin {"address", "perm"} =>
          Len(r.refs) = Len(s.refs) /\ \A k \in 1..Len(s.refs) : Denotes(R, s.refs[k], r.refs[k])

\* The primary address of a device is on one of its interfaces.
OnOwnIface(R, r) ==
    \E a, i \in R : a.id = r.refs[2] /\ a.kind = "address" /\ i.kind = "iface"
                    /\ a.refs = <<i.id>> /\ i.refs = <<r.refs[1]>>

OnSomeIface(R, r) == \E i \in R : i.kind = "iface" /\ r.refs = <<i.id>>

\* Every record is a planned one, and what it refers to is there.
Planning(R) ==
    \A r \in R :
        /\ \E j \in Places : Stands(R, r, Plan[j])
        /\ r.kind = "address" => OnSomeIface(R, r)
        /\ r.kind = "primary" => OnOwnIface(R, r)

\* An id that a run remembers is that of the planned record, or of none.
Knows(R, i) ==
    \A x \in R : x.id = got[Plan[i].label] => x.kind = Plan[i].kind /\ x.name = Plan[i].name

Knowing == \A i \in Behind : Plan[i].kind \in Referred => Knows(recs, i)

\* What is about to be created is not there.
Absence == pc = "create" /\ Here.kind # "primary" => Found(Here) = {}

Integrity == Planning(recs) /\ Knowing /\ Absence /\ NoDuplicates

\* A permission that has its user refers to the planned one.
Assigned(R, r) ==
    \E j \in Places, x \in R :
        /\ Plan[j].kind = "perm" /\ Plan[j].name = r.name
        /\ r.refs = <<x.id>> /\ x.kind = "nbuser" /\ Denotes(R, Plan[j].refs[1], x.id)

Assigning(R, O) == \A r \in R : r.kind = "perm" /\ r.id \notin O => Assigned(R, r)

\* What a run is through with, and the keys it has printed.
IsThere(R, i) == \E r \in R : Stands(R, r, Plan[i])
IsKnown(R, i) == \E x \in R : x.id = got[Plan[i].label]
IsToken(R, u) == \E t \in R : t.kind = "token" /\ t.name = u /\ t.id = printed[u]

Undisturbed ==
    ~touched =>
        /\ \A i \in Behind : IsThere(recs, i) /\ (Plan[i].kind \in Referred => IsKnown(recs, i))
        /\ \A u \in DOMAIN printed : printed[u] # Placeholder => IsToken(recs, u)

\* After a complete run, as long as nobody has interfered, all is there.
Settling == settled => ~touched /\ \A i \in Places : IsThere(recs, i)

-----------------------------------------------------------------------------
(* The plans.                                                              *)

DeviceSpec == [name : STRING, iface : STRING, addr : STRING \cup {NoAddr}]
ControllerSpec == [user : STRING, group : STRING, perms : Seq(STRING)]

Words == STRING \cup {NoAddr, "testing", "testing-site", "worker", "test-manufacturer", "test-type"}
Label == Kinds \X Words
Step == [label : Label, kind : Kinds, name : Words, refs : Seq(Label)]

\* The assumptions in pieces.
LEMMA Constants ==
    /\ MaxEdits \in Nat /\ MaxFaults \in Nat /\ MaxRuns \in Nat
    /\ Devices \in Seq(DeviceSpec) /\ Networks \in Seq(STRING)
    /\ Controllers \in Seq(ControllerSpec) /\ Len(Controllers) > 0
BY SeedingAssumption DEF DeviceSpec, ControllerSpec

\* Planned records are steps.
LEMMA PlannedStep ==
    ASSUME NEW kind \in Kinds, NEW of \in Words, NEW name \in Words, NEW refs \in Seq(Label)
    PROVE  /\ Planned(kind, of, name, refs) \in Step
           /\ Planned(kind, of, name, refs).label = <<kind, of>>
           /\ Planned(kind, of, name, refs).kind = kind
           /\ Planned(kind, of, name, refs).name = name
           /\ Planned(kind, of, name, refs).refs = refs
BY DEF Planned, Step, Label

\* Short lists of labels.
LEMMA ShortLists ==
    /\ <<>> \in Seq(Label)
    /\ \A x \in Label : <<x>> \in Seq(Label)
    /\ \A x, y \in Label : <<x, y>> \in Seq(Label)
    /\ \A x, y, z, u \in Label : <<x, y, z, u>> \in Seq(Label)
OBVIOUS

\* The steps for a device.
LEMMA DeviceStepsAre ==
    ASSUME NEW d \in DeviceSpec
    PROVE  /\ DeviceSteps(d) \in Seq(Step)
           /\ Len(DeviceSteps(d)) = IF d.addr = NoAddr THEN 2 ELSE 4
           /\ DeviceSteps(d)[1] = Planned("device", d.name, d.name,
                                          <<<<"site", "testing-site">>, <<"role", "worker">>,
                                            <<"type", "test-type">>, <<"tenant", "testing">>>>)
           /\ DeviceSteps(d)[2] = Planned("iface", d.name, d.iface, <<<<"device", d.name>>>>)
           /\ d.addr # NoAddr =>
                /\ DeviceSteps(d)[3] = Planned("address", d.name, d.addr, <<<<"iface", d.name>>>>)
                /\ DeviceSteps(d)[4] = Planned("primary", d.name, d.name,
                                               <<<<"device", d.name>>, <<"address", d.name>>>>)
<1> DEFINE s1 == Planned("device", d.name, d.name,
                         <<<<"site", "testing-site">>, <<"role", "worker">>,
                           <<"type", "test-type">>, <<"tenant", "testing">>>>)
           s2 == Planned("iface", d.name, d.iface, <<<<"device", d.name>>>>)
           s3 == Planned("address", d.name, d.addr, <<<<"iface", d.name>>>>)
           s4 == Planned("primary", d.name, d.name, <<<<"device", d.name>>, <<"address", d.name>>>>)
<1>1. d.name \in Words /\ d.iface \in Words /\ d.addr \in Words
  BY DEF DeviceSpec, Words
<1>2. {"device", "iface", "address", "primary", "site", "role", "type", "tenant"} \subseteq Kinds
  BY DEF Kinds
<1>3. /\ <<"site", "testing-site">> \in Label /\ <<"role", "worker">> \in Label
      /\ <<"type", "test-type">> \in Label /\ <<"tenant", "testing">> \in Label
      /\ <<"device", d.name>> \in Label /\ <<"iface", d.name>> \in Label /\ <<"address", d.name>> \in Label
  BY <1>1, <1>2 DEF Label, Words
<1>4. /\ <<<<"site", "testing-site">>, <<"role", "worker">>,
           <<"type", "test-type">>, <<"tenant", "testing">>>> \in Seq(Label)
      /\ <<<<"device", d.name>>>> \in Seq(Label) /\ <<<<"iface", d.name>>>> \in Seq(Label)
      /\ <<<<"device", d.name>>, <<"address", d.name>>>> \in Seq(Label)
  <2> HIDE DEF Label
  <2> QED
    BY <1>3, ShortLists
<1>5. s1 \in Step /\ s2 \in Step /\ s3 \in Step /\ s4 \in Step
  <2>1. "device" \in Kinds /\ "iface" \in Kinds /\ "address" \in Kinds /\ "primary" \in Kinds
    BY <1>2
  <2>2. s1 \in Step
    BY <1>1, <1>4, <2>1, PlannedStep
  <2>3. s2 \in Step
    BY <1>1, <1>4, <2>1, PlannedStep
  <2>4. s3 \in Step
    BY <1>1, <1>4, <2>1, PlannedStep
  <2>5. s4 \in Step
    <3>1. \A refs \in Seq(Label) : Planned("primary", d.name, d.name, refs) \in Step
      BY <1>1, <2>1, PlannedStep
    <3> QED
      BY <1>4, <3>1, Zenon
  <2> QED
    BY <2>2, <2>3, <2>4, <2>5
<1>6. DeviceSteps(d) = <<s1, s2>> \o (IF d.addr = NoAddr THEN <<>> ELSE <<s3, s4>>)
  BY DEF DeviceSteps
<1> HIDE DEF s1, s2, s3, s4
<1>7. CASE d.addr = NoAddr
  <2>1. DeviceSteps(d) = <<s1, s2>> \o <<>>
    BY <1>6, <1>7
  <2>2. DeviceSteps(d) = <<s1, s2>>
    BY <1>5, <2>1
  <2> QED
    BY <1>5, <1>7, <2>2 DEF s1, s2
<1>8. CASE d.addr # NoAddr
  <2> DEFINE h == <<s1, s2>>
             t == <<s3, s4>>
             s == h \o t
  <2>1. DeviceSteps(d) = s
    BY <1>6, <1>8
  <2>2. /\ h \in Seq(Step) /\ Len(h) = 2 /\ h[1] = s1 /\ h[2] = s2
        /\ t \in Seq(Step) /\ Len(t) = 2 /\ t[1] = s3 /\ t[2] = s4
    BY <1>5
  <2> HIDE DEF h, t
  <2>3. /\ s \in Seq(Step) /\ Len(s) = Len(h) + Len(t)
        /\ \A i \in 1..Len(s) : s[i] = IF i <= Len(h) THEN h[i] ELSE t[i - Len(h)]
    BY <2>2, ConcatPlaces
  <2> HIDE DEF s
  <2>4. Len(s) = 4 /\ s[1] = s1 /\ s[2] = s2 /\ s[3] = s3 /\ s[4] = s4
    BY <2>2, <2>3
  <2> QED
    BY <1>8, <2>1, <2>3, <2>4 DEF s1, s2, s3, s4
<1> QED
  BY <1>7, <1>8

\* The steps for a controller.
LEMMA ControllerStepsAre ==
    ASSUME NEW c \in ControllerSpec
    PROVE  LET n == Len(c.perms)
               s == ControllerSteps(c)
           IN  /\ s \in Seq(Step) /\ n \in Nat /\ Len(s) = n + 5
               /\ s[1] = Root("akuser", c.user)
               /\ s[2] = Root("group", c.group)
               /\ s[3] = Planned("member", c.user, c.user, <<<<"group", c.group>>, <<"akuser", c.user>>>>)
               /\ s[4] = Root("nbuser", c.user)
               /\ \A i \in 5..(n + 4) : s[i] = Planned("perm", c.perms[i - 4], c.perms[i - 4], <<<<"nbuser", c.user>>>>)
               /\ s[n + 5] = Planned("token", c.user, c.user, <<<<"nbuser", c.user>>>>)
<1> DEFINE n == Len(c.perms)
           s1 == Root("akuser", c.user)
           s2 == Root("group", c.group)
           s3 == Planned("member", c.user, c.user, <<<<"group", c.group>>, <<"akuser", c.user>>>>)
           s4 == Root("nbuser", c.user)
           P(i) == Planned("perm", c.perms[i], c.perms[i], <<<<"nbuser", c.user>>>>)
           p == [i \in 1..n |-> P(i)]
           s5 == Planned("token", c.user, c.user, <<<<"nbuser", c.user>>>>)
<1>1. c.user \in Words /\ c.group \in Words /\ n \in Nat /\ \A i \in 1..n : c.perms[i] \in Words
  BY DEF ControllerSpec, Words
<1>2. {"akuser", "group", "member", "nbuser", "perm", "token"} \subseteq Kinds
  BY DEF Kinds
<1>3. <<"group", c.group>> \in Label /\ <<"akuser", c.user>> \in Label /\ <<"nbuser", c.user>> \in Label
  BY <1>1, <1>2 DEF Label
<1>4. /\ <<>> \in Seq(Label) /\ <<<<"nbuser", c.user>>>> \in Seq(Label)
      /\ <<<<"group", c.group>>, <<"akuser", c.user>>>> \in Seq(Label)
  <2> HIDE DEF Label
  <2> QED
    BY <1>3, ShortLists
<1>5. s1 \in Step /\ s2 \in Step /\ s3 \in Step /\ s4 \in Step /\ s5 \in Step
  <2>1. /\ "akuser" \in Kinds /\ "group" \in Kinds /\ "member" \in Kinds
        /\ "nbuser" \in Kinds /\ "token" \in Kinds
    BY <1>2
  <2>2. s1 \in Step
    BY <1>1, <1>4, <2>1, PlannedStep DEF Root
  <2>3. s2 \in Step
    BY <1>1, <1>4, <2>1, PlannedStep DEF Root
  <2>4. s3 \in Step
    <3>1. \A refs \in Seq(Label) : Planned("member", c.user, c.user, refs) \in Step
      BY <1>1, <2>1, PlannedStep
    <3> QED
      BY <1>4, <3>1, Zenon
  <2>5. s4 \in Step
    BY <1>1, <1>4, <2>1, PlannedStep DEF Root
  <2>6. s5 \in Step
    BY <1>1, <1>4, <2>1, PlannedStep
  <2> QED
    BY <2>2, <2>3, <2>4, <2>5, <2>6
<1>6. \A i \in 1..n : P(i) \in Step
  BY <1>1, <1>2, <1>4, PlannedStep
<1>7. ControllerSteps(c) = (<<s1, s2, s3, s4>> \o p) \o <<s5>>
  BY DEF ControllerSteps
<1> HIDE DEF s1, s2, s3, s4, s5, P
<1>8. p \in Seq(Step) /\ Len(p) = n /\ \A i \in 1..n : p[i] = P(i)
  BY <1>1, <1>6
<1> HIDE DEF p, n
<1> DEFINE h == <<s1, s2, s3, s4>>
           t == <<s5>>
<1>9. /\ h \in Seq(Step) /\ Len(h) = 4 /\ h[1] = s1 /\ h[2] = s2 /\ h[3] = s3 /\ h[4] = s4
      /\ t \in Seq(Step) /\ Len(t) = 1 /\ t[1] = s5
  BY <1>5
<1> HIDE DEF h, t
<1> DEFINE g == h \o p
<1>10. /\ g \in Seq(Step) /\ Len(g) = 4 + n
       /\ \A i \in 1..(4 + n) : g[i] = IF i <= 4 THEN h[i] ELSE p[i - 4]
  <2>1. /\ g \in Seq(Step) /\ Len(g) = Len(h) + Len(p)
        /\ \A i \in 1..Len(g) : g[i] = IF i <= Len(h) THEN h[i] ELSE p[i - Len(h)]
    BY <1>8, <1>9, ConcatPlaces
  <2> HIDE DEF g
  <2> QED
    BY <1>8, <1>9, <2>1
<1> HIDE DEF g
<1> DEFINE s == g \o t
<1>11. /\ s \in Seq(Step) /\ Len(s) = n + 5
       /\ \A i \in 1..(n + 5) : s[i] = IF i <= 4 + n THEN g[i] ELSE t[i - (4 + n)]
  <2>1. /\ s \in Seq(Step) /\ Len(s) = Len(g) + Len(t)
        /\ \A i \in 1..Len(s) : s[i] = IF i <= Len(g) THEN g[i] ELSE t[i - Len(g)]
    BY <1>9, <1>10, ConcatPlaces
  <2> HIDE DEF s
  <2>2. (4 + n) + 1 = n + 5
    BY <1>1
  <2> QED
    BY <1>9, <1>10, <2>1, <2>2
<1>12. ControllerSteps(c) = s
  BY <1>7 DEF g, h, t
<1> HIDE DEF s
<1>13. s[1] = s1 /\ s[2] = s2 /\ s[3] = s3 /\ s[4] = s4
  BY <1>1, <1>9, <1>10, <1>11
<1>14. \A i \in 5..(n + 4) : s[i] = P(i - 4)
  <2> SUFFICES ASSUME NEW i \in 5..(n + 4) PROVE s[i] = P(i - 4)
    OBVIOUS
  <2>1. i \in 1..(n + 5) /\ i <= 4 + n /\ i \in 1..(4 + n) /\ ~(i <= 4) /\ i - 4 \in 1..n
    BY <1>1
  <2> QED
    BY <1>8, <1>10, <1>11, <2>1
<1>15. s[n + 5] = s5
  <2>1. n + 5 \in 1..(n + 5) /\ ~(n + 5 <= 4 + n) /\ (n + 5) - (4 + n) = 1
    BY <1>1
  <2> QED
    BY <1>9, <1>11, <2>1
<1> QED
  BY <1>1, <1>11, <1>12, <1>13, <1>14, <1>15 DEF s1, s2, s3, s4, s5, P, n

\* The steps of a block b of a plan come in their order.
InBlock(P, k, b) ==
    \E o \in 1..Len(b) : P[k] = b[o] /\ \A p \in 1..(o - 1) : \E j \in 1..(k - 1) : P[j] = b[p]

\* The first steps of seed-netbox.
LEMMA BaseStepsAre ==
    /\ BaseSteps \in Seq(Step) /\ Len(BaseSteps) = 5
    /\ BaseSteps[1] = Root("tenant", "testing")
    /\ BaseSteps[2] = Planned("site", "testing-site", "testing-site", <<<<"tenant", "testing">>>>)
    /\ BaseSteps[3] = Root("role", "worker")
    /\ BaseSteps[4] = Root("manufacturer", "test-manufacturer")
    /\ BaseSteps[5] = Planned("type", "test-type", "test-type", <<<<"manufacturer", "test-manufacturer">>>>)
<1> DEFINE s1 == Root("tenant", "testing")
           s2 == Planned("site", "testing-site", "testing-site", <<<<"tenant", "testing">>>>)
           s3 == Root("role", "worker")
           s4 == Root("manufacturer", "test-manufacturer")
           s5 == Planned("type", "test-type", "test-type", <<<<"manufacturer", "test-manufacturer">>>>)
<1>1. /\ "tenant" \in Kinds /\ "site" \in Kinds /\ "role" \in Kinds /\ "manufacturer" \in Kinds /\ "type" \in Kinds
      /\ "testing" \in Words /\ "testing-site" \in Words /\ "worker" \in Words
      /\ "test-manufacturer" \in Words /\ "test-type" \in Words
  BY DEF Kinds, Words
<1>2. <<"tenant", "testing">> \in Label /\ <<"manufacturer", "test-manufacturer">> \in Label
  BY <1>1 DEF Label
<1>3. <<>> \in Seq(Label) /\ <<<<"tenant", "testing">>>> \in Seq(Label)
      /\ <<<<"manufacturer", "test-manufacturer">>>> \in Seq(Label)
  BY <1>2, ShortLists
<1>4. s1 \in Step
  BY <1>1, <1>3, PlannedStep DEF Root
<1>5. s2 \in Step
  BY <1>1, <1>3, PlannedStep
<1>6. s3 \in Step
  BY <1>1, <1>3, PlannedStep DEF Root
<1>7. s4 \in Step
  BY <1>1, <1>3, PlannedStep DEF Root
<1>8. s5 \in Step
  BY <1>1, <1>3, PlannedStep
<1>9. BaseSteps = <<s1, s2, s3, s4, s5>>
  BY DEF BaseSteps
<1> HIDE DEF s1, s2, s3, s4, s5
<1>10. /\ BaseSteps \in Seq(Step) /\ Len(BaseSteps) = 5
       /\ BaseSteps[1] = s1 /\ BaseSteps[2] = s2 /\ BaseSteps[3] = s3 /\ BaseSteps[4] = s4 /\ BaseSteps[5] = s5
  BY <1>4, <1>5, <1>6, <1>7, <1>8, <1>9
<1> QED
  BY <1>10 DEF s1, s2, s3, s4, s5

\* The plan of seed-netbox: first what all devices need, then each device.
LEMMA NetboxPlan ==
    LET P == Plans["netbox"]
    IN  /\ P \in Seq(Step) /\ Len(P) >= 5
        /\ \A k \in 1..5 : P[k] = BaseSteps[k]
        /\ \A k \in 1..Len(P) :
              \/ k \in 1..5
              \/ k > 5 /\ \E i \in 1..Len(Networks) : P[k] = Root("prefix", Networks[i])
              \/ k > 5 /\ \E i \in 1..Len(Devices) : InBlock(P, k, DeviceSteps(Devices[i]))
<1> DEFINE P == Plans["netbox"]
           pre == [i \in 1..Len(Networks) |-> Root("prefix", Networks[i])]
           blocks == [i \in 1..Len(Devices) |-> DeviceSteps(Devices[i])]
           dev == Joined(blocks)
           base == BaseSteps \o pre
<1>1. P = base \o dev
  BY DEF Plans
<1>2. pre \in Seq(Step) /\ Len(pre) = Len(Networks) /\ Len(Networks) \in Nat
      /\ \A i \in 1..Len(Networks) : pre[i] = Root("prefix", Networks[i])
  <2>1. Len(Networks) \in Nat /\ \A i \in 1..Len(Networks) : Networks[i] \in Words
    BY Constants DEF Words
  <2>2. "prefix" \in Kinds /\ <<>> \in Seq(Label)
    BY ShortLists DEF Kinds
  <2>3. \A i \in 1..Len(Networks) : Root("prefix", Networks[i]) \in Step
    BY <2>1, <2>2, PlannedStep DEF Root
  <2> QED
    BY <2>1, <2>3
<1>3. blocks \in Seq(Seq(Step)) /\ Len(blocks) = Len(Devices) /\ Len(Devices) \in Nat
      /\ \A i \in 1..Len(Devices) : blocks[i] = DeviceSteps(Devices[i])
  <2>1. Len(Devices) \in Nat /\ \A i \in 1..Len(Devices) : Devices[i] \in DeviceSpec
    BY Constants
  <2>2. \A i \in 1..Len(Devices) : DeviceSteps(Devices[i]) \in Seq(Step)
    BY <2>1, DeviceStepsAre
  <2> QED
    BY <2>1, <2>2
<1> HIDE DEF pre, blocks
<1>4. /\ dev \in Seq(Step)
      /\ \A k \in 1..Len(dev) : \E b \in 1..Len(blocks) : \E o \in 1..Len(blocks[b]) :
            /\ dev[k] = blocks[b][o]
            /\ \A p \in 1..(o - 1) : \E j \in 1..(k - 1) : dev[j] = blocks[b][p]
  BY <1>3, JoinedParts
<1> HIDE DEF dev
<1>5. /\ base \in Seq(Step) /\ Len(base) = 5 + Len(pre)
      /\ \A i \in 1..Len(base) : base[i] = IF i <= 5 THEN BaseSteps[i] ELSE pre[i - 5]
  <2>1. /\ base \in Seq(Step) /\ Len(base) = Len(BaseSteps) + Len(pre)
        /\ \A i \in 1..Len(base) : base[i] = IF i <= Len(BaseSteps) THEN BaseSteps[i] ELSE pre[i - Len(BaseSteps)]
    <3>1. BaseSteps \in Seq(Step) /\ pre \in Seq(Step)
      BY <1>2, BaseStepsAre
    <3> QED
      BY <3>1, ConcatPlaces
  <2> HIDE DEF base
  <2> QED
    BY <2>1, BaseStepsAre
<1> HIDE DEF base
<1>6. /\ P \in Seq(Step) /\ Len(P) = Len(base) + Len(dev) /\ Len(dev) \in Nat /\ Len(base) \in Nat
      /\ \A i \in 1..Len(P) : P[i] = IF i <= Len(base) THEN base[i] ELSE dev[i - Len(base)]
  <2>1. base \in Seq(Step) /\ dev \in Seq(Step)
    BY <1>4, <1>5
  <2> HIDE DEF P
  <2> QED
    BY <1>1, <2>1, ConcatPlaces
<1> HIDE DEF P
<1>7. Len(P) >= 5 /\ \A k \in 1..5 : P[k] = BaseSteps[k]
  <2>1. \A k \in 1..5 : k \in 1..Len(P) /\ k <= Len(base) /\ k \in 1..Len(base) /\ k <= 5
    BY <1>2, <1>5, <1>6
  <2> QED
    BY <1>2, <1>5, <1>6, <2>1
<1>8. ASSUME NEW k \in 1..Len(P), k \notin 1..5, k <= Len(base)
      PROVE  k > 5 /\ \E i \in 1..Len(Networks) : P[k] = Root("prefix", Networks[i])
  <2>1. k > 5 /\ k - 5 \in 1..Len(Networks) /\ P[k] = pre[k - 5]
    BY <1>2, <1>5, <1>6, <1>8
  <2> QED
    BY <1>2, <2>1
<1>9. ASSUME NEW k \in 1..Len(P), ~(k <= Len(base))
      PROVE  k > 5 /\ \E i \in 1..Len(Devices) : InBlock(P, k, DeviceSteps(Devices[i]))
  <2> DEFINE n == Len(base)
             h == k - n
  <2>1. k > 5 /\ h \in 1..Len(dev) /\ P[k] = dev[h] /\ n \in Nat
    BY <1>2, <1>5, <1>6, <1>9
  <2> HIDE DEF h
  <2>2. PICK b \in 1..Len(blocks) : \E o \in 1..Len(blocks[b]) :
            /\ dev[h] = blocks[b][o]
            /\ \A p \in 1..(o - 1) : \E j \in 1..(h - 1) : dev[j] = blocks[b][p]
    BY <1>4, <2>1
  <2>3. PICK o \in 1..Len(blocks[b]) :
            /\ dev[h] = blocks[b][o]
            /\ \A p \in 1..(o - 1) : \E j \in 1..(h - 1) : dev[j] = blocks[b][p]
    BY <2>2
  <2>4. ASSUME NEW p \in 1..(o - 1) PROVE \E j \in 1..(k - 1) : P[j] = blocks[b][p]
    <3>1. PICK j \in 1..(h - 1) : dev[j] = blocks[b][p]
      BY <2>3
    <3>2. h = k - n
      BY DEF h
    <3>3. j + n \in 1..(k - 1) /\ j + n \in 1..Len(P) /\ ~(j + n <= n) /\ (j + n) - n = j
      BY <2>1, <3>2
    <3>4. P[j + n] = dev[j]
      BY <1>6, <3>3
    <3> QED
      BY <3>1, <3>3, <3>4
  <2>5. b \in 1..Len(Devices) /\ blocks[b] = DeviceSteps(Devices[b])
    BY <1>3
  <2>6. InBlock(P, k, DeviceSteps(Devices[b]))
    BY <2>1, <2>3, <2>4, <2>5 DEF InBlock
  <2> QED
    BY <2>1, <2>5, <2>6
<1>10. \A k \in 1..Len(P) : k <= Len(base) \/ ~(k <= Len(base))
  OBVIOUS
<1> QED
  BY <1>6, <1>7, <1>8, <1>9, <1>10 DEF P

\* The plan of seed-authentik: each controller.
LEMMA AuthentikPlan ==
    LET P == Plans["authentik"]
    IN  /\ P \in Seq(Step)
        /\ \A k \in 1..Len(P) : \E i \in 1..Len(Controllers) : InBlock(P, k, ControllerSteps(Controllers[i]))
        /\ \A i \in 1..Len(Controllers) : Parts(ControllerSteps(Controllers[i])) \subseteq Parts(P)
<1> DEFINE P == Plans["authentik"]
           blocks == [i \in 1..Len(Controllers) |-> ControllerSteps(Controllers[i])]
<1>1. P = Joined(blocks)
  BY DEF Plans
<1>2. blocks \in Seq(Seq(Step)) /\ Len(blocks) = Len(Controllers)
      /\ \A i \in 1..Len(Controllers) : blocks[i] = ControllerSteps(Controllers[i])
  <2>1. Len(Controllers) \in Nat /\ \A i \in 1..Len(Controllers) : Controllers[i] \in ControllerSpec
    BY Constants
  <2>2. \A i \in 1..Len(Controllers) : ControllerSteps(Controllers[i]) \in Seq(Step)
    BY <2>1, ControllerStepsAre
  <2> QED
    BY <2>1, <2>2
<1> HIDE DEF blocks
<1>3. /\ P \in Seq(Step)
      /\ \A b \in 1..Len(blocks) : Parts(blocks[b]) \subseteq Parts(P)
      /\ \A k \in 1..Len(P) : \E b \in 1..Len(blocks) : \E o \in 1..Len(blocks[b]) :
            /\ P[k] = blocks[b][o]
            /\ \A p \in 1..(o - 1) : \E j \in 1..(k - 1) : P[j] = blocks[b][p]
  <2> DEFINE J == Joined(blocks)
  <2>1. J \in Seq(Step) /\ \A b \in 1..Len(blocks) : Parts(blocks[b]) \subseteq Parts(J)
    BY <1>2, JoinedParts
  <2>2. \A k \in 1..Len(J) : \E b \in 1..Len(blocks) : \E o \in 1..Len(blocks[b]) :
            /\ J[k] = blocks[b][o]
            /\ \A p \in 1..(o - 1) : \E j \in 1..(k - 1) : J[j] = blocks[b][p]
    BY <1>2, JoinedParts
  <2>3. P = J
    BY <1>1
  <2> HIDE DEF P, J
  <2> QED
    BY <2>1, <2>2, <2>3
<1> HIDE DEF P
<1>4. \A k \in 1..Len(P) : \E i \in 1..Len(Controllers) : InBlock(P, k, ControllerSteps(Controllers[i]))
  <2> SUFFICES ASSUME NEW k \in 1..Len(P)
               PROVE  \E i \in 1..Len(Controllers) : InBlock(P, k, ControllerSteps(Controllers[i]))
    OBVIOUS
  <2>1. PICK b \in 1..Len(blocks) : InBlock(P, k, blocks[b])
    BY <1>3 DEF InBlock
  <2> QED
    BY <1>2, <2>1
<1> QED
  BY <1>2, <1>3, <1>4 DEF P

\* The steps of a plan, by kind.
DeviceStep(d) == Planned("device", d.name, d.name, <<<<"site", "testing-site">>, <<"role", "worker">>,
                                                     <<"type", "test-type">>, <<"tenant", "testing">>>>)
IfaceStep(d) == Planned("iface", d.name, d.iface, <<<<"device", d.name>>>>)
AddressStep(d) == Planned("address", d.name, d.addr, <<<<"iface", d.name>>>>)
PrimaryStep(d) == Planned("primary", d.name, d.name, <<<<"device", d.name>>, <<"address", d.name>>>>)
MemberStep(c) == Planned("member", c.user, c.user, <<<<"group", c.group>>, <<"akuser", c.user>>>>)
PermStep(c, p) == Planned("perm", p, p, <<<<"nbuser", c.user>>>>)
TokenStep(c) == Planned("token", c.user, c.user, <<<<"nbuser", c.user>>>>)

Form(s) ==
    /\ s.kind \in Kinds
    /\ s.kind = "tenant" => s = Root("tenant", "testing")
    /\ s.kind = "site" => s = Planned("site", "testing-site", "testing-site", <<<<"tenant", "testing">>>>)
    /\ s.kind = "role" => s = Root("role", "worker")
    /\ s.kind = "manufacturer" => s = Root("manufacturer", "test-manufacturer")
    /\ s.kind = "type" =>
          s = Planned("type", "test-type", "test-type", <<<<"manufacturer", "test-manufacturer">>>>)
    /\ s.kind = "prefix" => \E n \in STRING : s = Root("prefix", n)
    /\ s.kind = "device" => \E d \in Parts(Devices) : s = DeviceStep(d)
    /\ s.kind = "iface" => \E d \in Parts(Devices) : s = IfaceStep(d)
    /\ s.kind = "address" => \E d \in Parts(Devices) : s = AddressStep(d)
    /\ s.kind = "primary" => \E d \in Parts(Devices) : s = PrimaryStep(d)
    /\ s.kind = "akuser" => \E c \in Parts(Controllers) : s = Root("akuser", c.user)
    /\ s.kind = "group" => \E c \in Parts(Controllers) : s = Root("group", c.group)
    /\ s.kind = "member" => \E c \in Parts(Controllers) : s = MemberStep(c)
    /\ s.kind = "nbuser" => \E c \in Parts(Controllers) : s = Root("nbuser", c.user)
    /\ s.kind = "perm" => \E c \in Parts(Controllers) : \E p \in Parts(c.perms) : s = PermStep(c, p)
    /\ s.kind = "token" => \E c \in Parts(Controllers) : s = TokenStep(c)

\* A step comes after those it refers to.
Ordered(P, k) ==
    \A m \in 1..Len(P[k].refs) : \E j \in 1..(k - 1) :
        P[j].label = P[k].refs[m] /\ <<P[k].kind, P[j].kind>> \in MayRefer

\* Device and controller of a list.
LEMMA Listed ==
    /\ \A i \in 1..Len(Devices) : Devices[i] \in Parts(Devices) /\ Devices[i] \in DeviceSpec
    /\ \A i \in 1..Len(Controllers) : Controllers[i] \in Parts(Controllers) /\ Controllers[i] \in ControllerSpec
    /\ Parts(Devices) \subseteq DeviceSpec /\ Parts(Controllers) \subseteq ControllerSpec
BY Constants DEF Parts

\* Every step of seed-netbox has its form and its place.
LEMMA NetboxForms ==
    ASSUME NEW k \in 1..Len(Plans["netbox"])
    PROVE  Form(Plans["netbox"][k]) /\ Ordered(Plans["netbox"], k)
<1> DEFINE P == Plans["netbox"]
           s == P[k]
<1> SUFFICES Form(s) /\ Ordered(P, k)
  OBVIOUS
<1>0. P \in Seq(Step) /\ Len(P) >= 5 /\ k \in 1..Len(P)
  BY NetboxPlan
<1>1. /\ P[1] = Root("tenant", "testing")
      /\ P[2] = Planned("site", "testing-site", "testing-site", <<<<"tenant", "testing">>>>)
      /\ P[3] = Root("role", "worker")
      /\ P[4] = Root("manufacturer", "test-manufacturer")
      /\ P[5] = Planned("type", "test-type", "test-type", <<<<"manufacturer", "test-manufacturer">>>>)
  <2>1. \A i \in 1..5 : P[i] = BaseSteps[i]
    BY NetboxPlan
  <2> HIDE DEF P
  <2> QED
    BY <2>1, BaseStepsAre
<1>2. \/ k \in 1..5
      \/ k > 5 /\ \E i \in 1..Len(Networks) : s = Root("prefix", Networks[i])
      \/ k > 5 /\ \E i \in 1..Len(Devices) : InBlock(P, k, DeviceSteps(Devices[i]))
  BY NetboxPlan
<1> HIDE DEF P
<1>3. CASE k \in 1..5
  <2>1. CASE k = 1
    <3>1. Form(s)
      BY <1>1, <2>1 DEF Form, Root, Planned, Kinds
    <3>2. s.refs = <<>>
      BY <1>1, <2>1 DEF Root, Planned
    <3> QED
      BY <3>1, <3>2 DEF Ordered
  <2>2. CASE k = 2
    <3>1. Form(s)
      BY <1>1, <2>2 DEF Form, Root, Planned, Kinds
    <3>2. 1 \in 1..(k - 1) /\ P[1].label = <<"tenant", "testing">> /\ P[1].kind = "tenant"
      BY <1>1, <2>2 DEF Root, Planned
    <3>3. Len(s.refs) = 1 /\ s.refs[1] = <<"tenant", "testing">> /\ s.kind = "site"
      BY <1>1, <2>2 DEF Planned
    <3>4. <<"site", "tenant">> \in MayRefer
      BY DEF MayRefer
    <3> HIDE DEF s
    <3>5. \A m \in 1..Len(s.refs) : m = 1
      BY <3>3
    <3>6. \A m \in 1..Len(s.refs) : P[1].label = s.refs[m] /\ <<s.kind, P[1].kind>> \in MayRefer
      BY <3>2, <3>3, <3>4, <3>5
    <3> QED
      BY <3>1, <3>2, <3>6 DEF Ordered, s
  <2>3. CASE k = 3
    <3>1. Form(s)
      BY <1>1, <2>3 DEF Form, Root, Planned, Kinds
    <3>2. s.refs = <<>>
      BY <1>1, <2>3 DEF Root, Planned
    <3> QED
      BY <3>1, <3>2 DEF Ordered
  <2>4. CASE k = 4
    <3>1. Form(s)
      BY <1>1, <2>4 DEF Form, Root, Planned, Kinds
    <3>2. s.refs = <<>>
      BY <1>1, <2>4 DEF Root, Planned
    <3> QED
      BY <3>1, <3>2 DEF Ordered
  <2>5. CASE k = 5
    <3>1. Form(s)
      BY <1>1, <2>5 DEF Form, Root, Planned, Kinds
    <3>2. 4 \in 1..(k - 1) /\ P[4].label = <<"manufacturer", "test-manufacturer">> /\ P[4].kind = "manufacturer"
      BY <1>1, <2>5 DEF Root, Planned
    <3>3. Len(s.refs) = 1 /\ s.refs[1] = <<"manufacturer", "test-manufacturer">> /\ s.kind = "type"
      BY <1>1, <2>5 DEF Planned
    <3>4. <<"type", "manufacturer">> \in MayRefer
      BY DEF MayRefer
    <3> HIDE DEF s
    <3>5. \A m \in 1..Len(s.refs) : m = 1
      BY <3>3
    <3>6. \A m \in 1..Len(s.refs) : P[4].label = s.refs[m] /\ <<s.kind, P[4].kind>> \in MayRefer
      BY <3>2, <3>3, <3>4, <3>5
    <3> QED
      BY <3>1, <3>2, <3>6 DEF Ordered, s
  <2> QED
    BY <1>3, <2>1, <2>2, <2>3, <2>4, <2>5
<1>4. CASE k > 5 /\ \E i \in 1..Len(Networks) : s = Root("prefix", Networks[i])
  <2>0. PICK i \in 1..Len(Networks) : s = Root("prefix", Networks[i])
    BY <1>4
  <2>1. PICK n \in STRING : s = Root("prefix", n)
    <3>1. Networks[i] \in STRING
      BY Constants
    <3> QED
      BY <2>0, <3>1
  <2>2. Form(s)
    BY <2>1 DEF Form, Root, Planned, Kinds
  <2>3. s.refs = <<>>
    BY <2>1 DEF Root, Planned
  <2> QED
    BY <2>2, <2>3 DEF Ordered
<1>5. CASE k > 5 /\ \E i \in 1..Len(Devices) : InBlock(P, k, DeviceSteps(Devices[i]))
  <2>1. PICK i \in 1..Len(Devices) : InBlock(P, k, DeviceSteps(Devices[i]))
    BY <1>5
  <2> DEFINE d == Devices[i]
             b == DeviceSteps(d)
  <2>2. d \in Parts(Devices) /\ d \in DeviceSpec
    BY Listed
  <2>3. /\ Len(b) \in {2, 4} /\ b[1] = DeviceStep(d) /\ b[2] = IfaceStep(d)
        /\ Len(b) = 4 => b[3] = AddressStep(d) /\ b[4] = PrimaryStep(d)
    <3> HIDE DEF d
    <3>1. Len(b) = IF d.addr = NoAddr THEN 2 ELSE 4
      BY <2>2, DeviceStepsAre
    <3>2. b[1] = DeviceStep(d) /\ b[2] = IfaceStep(d)
      BY <2>2, DeviceStepsAre DEF DeviceStep, IfaceStep
    <3>3. d.addr # NoAddr => b[3] = AddressStep(d) /\ b[4] = PrimaryStep(d)
      BY <2>2, DeviceStepsAre DEF AddressStep, PrimaryStep
    <3> QED
      BY <3>1, <3>2, <3>3
  <2>4. PICK o \in 1..Len(b) : s = b[o] /\ \A p \in 1..(o - 1) : \E j \in 1..(k - 1) : P[j] = b[p]
    BY <2>1 DEF InBlock
  <2> HIDE DEF b, d, s
  <2>5. CASE o = 1
    <3>1. s = DeviceStep(d)
      BY <2>3, <2>4, <2>5
    <3>2. Form(s)
      BY <2>2, <3>1 DEF Form, DeviceStep, Planned, Kinds
    <3>3. /\ Len(s.refs) = 4 /\ s.refs[1] = <<"site", "testing-site">> /\ s.refs[2] = <<"role", "worker">>
          /\ s.refs[3] = <<"type", "test-type">> /\ s.refs[4] = <<"tenant", "testing">> /\ s.kind = "device"
      BY <3>1 DEF DeviceStep, Planned
    <3>4. /\ P[2].label = <<"site", "testing-site">> /\ P[2].kind = "site"
          /\ P[3].label = <<"role", "worker">> /\ P[3].kind = "role"
          /\ P[5].label = <<"type", "test-type">> /\ P[5].kind = "type"
          /\ P[1].label = <<"tenant", "testing">> /\ P[1].kind = "tenant"
      BY <1>1 DEF Root, Planned
    <3>5. /\ <<"device", "site">> \in MayRefer /\ <<"device", "role">> \in MayRefer
          /\ <<"device", "type">> \in MayRefer /\ <<"device", "tenant">> \in MayRefer
      BY DEF MayRefer
    <3>6. 1 \in 1..(k - 1) /\ 2 \in 1..(k - 1) /\ 3 \in 1..(k - 1) /\ 5 \in 1..(k - 1)
      BY <1>5
    <3>7. ASSUME NEW m \in 1..Len(s.refs)
          PROVE  \E j \in 1..(k - 1) : P[j].label = s.refs[m] /\ <<s.kind, P[j].kind>> \in MayRefer
      <4>1. m \in {1, 2, 3, 4}
        BY <3>3
      <4>2. CASE m = 1
        BY <3>3, <3>4, <3>5, <3>6, <4>2
      <4>3. CASE m = 2
        BY <3>3, <3>4, <3>5, <3>6, <4>3
      <4>4. CASE m = 3
        BY <3>3, <3>4, <3>5, <3>6, <4>4
      <4>5. CASE m = 4
        BY <3>3, <3>4, <3>5, <3>6, <4>5
      <4> QED
        BY <4>1, <4>2, <4>3, <4>4, <4>5
    <3> QED
      BY <3>2, <3>7 DEF Ordered, s
  <2>6. CASE o = 2
    <3>1. s = IfaceStep(d)
      BY <2>3, <2>4, <2>6
    <3>2. Form(s)
      BY <2>2, <3>1 DEF Form, IfaceStep, Planned, Kinds
    <3>3. PICK j \in 1..(k - 1) : P[j] = DeviceStep(d)
      BY <2>3, <2>4, <2>6
    <3>4. P[j].label = <<"device", d.name>> /\ P[j].kind = "device"
      BY <3>3 DEF DeviceStep, Planned
    <3>5. Len(s.refs) = 1 /\ s.refs[1] = <<"device", d.name>> /\ s.kind = "iface"
      BY <3>1 DEF IfaceStep, Planned
    <3>6. <<"iface", "device">> \in MayRefer
      BY DEF MayRefer
    <3>7. \A m \in 1..Len(s.refs) : m = 1
      BY <3>5
    <3>8. \A m \in 1..Len(s.refs) : P[j].label = s.refs[m] /\ <<s.kind, P[j].kind>> \in MayRefer
      BY <3>4, <3>5, <3>6, <3>7
    <3> QED
      BY <3>2, <3>8 DEF Ordered, s
  <2>7. CASE o = 3
    <3>1. s = AddressStep(d)
      BY <2>3, <2>4, <2>7
    <3>2. Form(s)
      BY <2>2, <3>1 DEF Form, AddressStep, Planned, Kinds
    <3>3. PICK j \in 1..(k - 1) : P[j] = IfaceStep(d)
      BY <2>3, <2>4, <2>7
    <3>4. P[j].label = <<"iface", d.name>> /\ P[j].kind = "iface"
      BY <3>3 DEF IfaceStep, Planned
    <3>5. Len(s.refs) = 1 /\ s.refs[1] = <<"iface", d.name>> /\ s.kind = "address"
      BY <3>1 DEF AddressStep, Planned
    <3>6. <<"address", "iface">> \in MayRefer
      BY DEF MayRefer
    <3>7. \A m \in 1..Len(s.refs) : m = 1
      BY <3>5
    <3>8. \A m \in 1..Len(s.refs) : P[j].label = s.refs[m] /\ <<s.kind, P[j].kind>> \in MayRefer
      BY <3>4, <3>5, <3>6, <3>7
    <3> QED
      BY <3>2, <3>8 DEF Ordered, s
  <2>8. CASE o = 4
    <3>1. s = PrimaryStep(d)
      BY <2>3, <2>4, <2>8
    <3>2. Form(s)
      BY <2>2, <3>1 DEF Form, PrimaryStep, Planned, Kinds
    <3>3. PICK j \in 1..(k - 1) : P[j] = DeviceStep(d)
      BY <2>3, <2>4, <2>8
    <3>4. PICK h \in 1..(k - 1) : P[h] = AddressStep(d)
      BY <2>3, <2>4, <2>8
    <3>5. /\ P[j].label = <<"device", d.name>> /\ P[j].kind = "device"
          /\ P[h].label = <<"address", d.name>> /\ P[h].kind = "address"
      BY <3>3, <3>4 DEF DeviceStep, AddressStep, Planned
    <3>6. Len(s.refs) = 2 /\ s.refs[1] = <<"device", d.name>> /\ s.refs[2] = <<"address", d.name>>
          /\ s.kind = "primary"
      BY <3>1 DEF PrimaryStep, Planned
    <3>7. <<"primary", "device">> \in MayRefer /\ <<"primary", "address">> \in MayRefer
      BY DEF MayRefer
    <3>8. \A m \in 1..Len(s.refs) : m = 1 \/ m = 2
      BY <3>6
    <3>9. \A m \in 1..Len(s.refs) :
             \/ P[j].label = s.refs[m] /\ <<s.kind, P[j].kind>> \in MayRefer
             \/ P[h].label = s.refs[m] /\ <<s.kind, P[h].kind>> \in MayRefer
      BY <3>5, <3>6, <3>7, <3>8
    <3> QED
      BY <3>2, <3>9 DEF Ordered, s
  <2>9. o \in {1, 2, 3, 4}
    <3>1. Len(b) = 2 \/ Len(b) = 4
      BY <2>3
    <3>2. o \in 1..Len(b)
      OBVIOUS
    <3>3. CASE Len(b) = 2
      BY <3>2, <3>3
    <3>4. CASE Len(b) = 4
      BY <3>2, <3>4
    <3> QED
      BY <3>1, <3>3, <3>4
  <2> QED
    BY <2>5, <2>6, <2>7, <2>8, <2>9 DEF s
<1> QED
  BY <1>2, <1>3, <1>4, <1>5

\* A step that refers to one earlier step is ordered.
LEMMA OneRef ==
    ASSUME NEW P, NEW k, NEW l, P[k].refs = <<l>>,
           \E j \in 1..(k - 1) : P[j].label = l /\ <<P[k].kind, P[j].kind>> \in MayRefer
    PROVE  Ordered(P, k)
<1>1. \A m \in 1..Len(P[k].refs) : P[k].refs[m] = l
  OBVIOUS
<1> QED
  BY <1>1 DEF Ordered

\* Every step of seed-authentik has its form and its place.
LEMMA AuthentikForms ==
    ASSUME NEW k \in 1..Len(Plans["authentik"])
    PROVE  Form(Plans["authentik"][k]) /\ Ordered(Plans["authentik"], k)
<1> DEFINE P == Plans["authentik"]
           s == P[k]
<1> SUFFICES Form(s) /\ Ordered(P, k)
  OBVIOUS
<1>1. PICK i \in 1..Len(Controllers) : InBlock(P, k, ControllerSteps(Controllers[i]))
  BY AuthentikPlan
<1> HIDE DEF P
<1> DEFINE c == Controllers[i]
           n == Len(c.perms)
           b == ControllerSteps(c)
<1>2. c \in Parts(Controllers) /\ c \in ControllerSpec
  BY Listed
<1> HIDE DEF c
<1>3. /\ n \in Nat /\ Len(b) = n + 5 /\ \A h \in 1..n : c.perms[h] \in STRING
  <2>1. n \in Nat /\ Len(b) = n + 5
    BY <1>2, ControllerStepsAre
  <2>2. c.perms \in Seq(STRING)
    BY <1>2 DEF ControllerSpec
  <2> QED
    BY <2>1, <2>2
<1>4. b[1] = Root("akuser", c.user) /\ b[2] = Root("group", c.group) /\ b[4] = Root("nbuser", c.user)
  BY <1>2, ControllerStepsAre
<1>5. b[3] = MemberStep(c) /\ b[n + 5] = TokenStep(c)
  BY <1>2, ControllerStepsAre DEF MemberStep, TokenStep
<1>6. \A h \in 5..(n + 4) : b[h] = PermStep(c, c.perms[h - 4])
  BY <1>2, ControllerStepsAre DEF PermStep
<1>7. PICK o \in 1..Len(b) : s = b[o] /\ \A p \in 1..(o - 1) : \E j \in 1..(k - 1) : P[j] = b[p]
  BY <1>1 DEF InBlock, c
<1> HIDE DEF b, n, s
<1>8. CASE o \in {1, 2, 4}
  <2>0. s \in {Root("akuser", c.user), Root("group", c.group), Root("nbuser", c.user)}
    BY <1>4, <1>7, <1>8
  <2>1. Form(s)
    <3>1. CASE s = Root("akuser", c.user)
      BY <1>2, <3>1 DEF Form, Root, Planned, Kinds
    <3>2. CASE s = Root("group", c.group)
      BY <1>2, <3>2 DEF Form, Root, Planned, Kinds
    <3>3. CASE s = Root("nbuser", c.user)
      BY <1>2, <3>3 DEF Form, Root, Planned, Kinds
    <3> QED
      BY <2>0, <3>1, <3>2, <3>3
  <2>2. s.refs = <<>>
    BY <2>0 DEF Root, Planned
  <2> QED
    BY <2>1, <2>2 DEF Ordered, s
<1>9. CASE o = 3
  <2>1. s = MemberStep(c)
    BY <1>5, <1>7, <1>9
  <2>2. Form(s)
    BY <1>2, <2>1 DEF Form, MemberStep, Planned, Kinds
  <2>3. PICK j \in 1..(k - 1) : P[j] = Root("group", c.group)
    BY <1>4, <1>7, <1>9
  <2>4. PICK h \in 1..(k - 1) : P[h] = Root("akuser", c.user)
    BY <1>4, <1>7, <1>9
  <2>5. /\ P[j].label = <<"group", c.group>> /\ P[j].kind = "group"
        /\ P[h].label = <<"akuser", c.user>> /\ P[h].kind = "akuser"
    BY <2>3, <2>4 DEF Root, Planned
  <2>6. Len(s.refs) = 2 /\ s.refs[1] = <<"group", c.group>> /\ s.refs[2] = <<"akuser", c.user>>
        /\ s.kind = "member"
    BY <2>1 DEF MemberStep, Planned
  <2>7. <<"member", "group">> \in MayRefer /\ <<"member", "akuser">> \in MayRefer
    BY DEF MayRefer
  <2>8. \A m \in 1..Len(s.refs) : m = 1 \/ m = 2
    BY <2>6
  <2>9. \A m \in 1..Len(s.refs) :
           \/ P[j].label = s.refs[m] /\ <<s.kind, P[j].kind>> \in MayRefer
           \/ P[h].label = s.refs[m] /\ <<s.kind, P[h].kind>> \in MayRefer
    BY <2>5, <2>6, <2>7, <2>8
  <2> QED
    BY <2>2, <2>9 DEF Ordered, s
<1>10. CASE o > 4
  <2>1. PICK j \in 1..(k - 1) : P[j] = Root("nbuser", c.user)
    BY <1>4, <1>7, <1>10
  <2>2. P[j].label = <<"nbuser", c.user>> /\ P[j].kind = "nbuser"
    BY <2>1 DEF Root, Planned
  <2>3. <<"perm", "nbuser">> \in MayRefer /\ <<"token", "nbuser">> \in MayRefer
    BY DEF MayRefer
  <2>4. CASE o = n + 5
    <3>1. s = TokenStep(c)
      BY <1>5, <1>7, <2>4
    <3>2. Form(s)
      BY <1>2, <3>1 DEF Form, TokenStep, Planned, Kinds
    <3>3. s.refs = <<<<"nbuser", c.user>>>> /\ s.kind = "token"
      BY <3>1 DEF TokenStep, Planned
    <3>4. Ordered(P, k)
      BY <2>2, <2>3, <3>3, OneRef DEF s
    <3> QED
      BY <3>2, <3>4
  <2>5. CASE o # n + 5
    <3>1. o \in 5..(n + 4) /\ o - 4 \in 1..n
      BY <1>3, <1>7, <1>10, <2>5
    <3>2. PICK p \in Parts(c.perms) : s = PermStep(c, p)
      <4>1. c.perms[o - 4] \in Parts(c.perms)
        BY <3>1 DEF Parts, n
      <4> QED
        BY <1>6, <1>7, <3>1, <4>1
    <3>3. Form(s)
      BY <1>2, <3>2 DEF Form, PermStep, Planned, Kinds
    <3>4. s.refs = <<<<"nbuser", c.user>>>> /\ s.kind = "perm"
      BY <3>2 DEF PermStep, Planned
    <3>5. Ordered(P, k)
      BY <2>2, <2>3, <3>4, OneRef DEF s
    <3> QED
      BY <3>3, <3>5
  <2> QED
    BY <2>4, <2>5
<1>11. o \in Nat /\ o >= 1
  BY <1>3
<1> QED
  BY <1>8, <1>9, <1>10, <1>11 DEF s

Tools == {"netbox", "authentik"}

\* The plan of the tool that is run: steps in their forms, in order.
LEMMA PlanFacts ==
    ASSUME tool \in Tools
    PROVE  /\ Plan \in Seq(Step) /\ Len(Plan) \in Nat /\ Len(Plan) > 0
           /\ \A k \in Places : Plan[k] \in Step /\ Form(Plan[k]) /\ Ordered(Plan, k)
<1>1. CASE tool = "netbox"
  <2>1. Plans["netbox"] \in Seq(Step) /\ Len(Plans["netbox"]) >= 5
    BY NetboxPlan
  <2> DEFINE P == Plans["netbox"]
  <2>2. \A k \in 1..Len(P) : Form(P[k]) /\ Ordered(P, k)
    BY NetboxForms
  <2>3. Plan = P
    BY <1>1 DEF Plan
  <2> HIDE DEF P
  <2>4. P \in Seq(Step) /\ Len(P) >= 5
    BY <2>1 DEF P
  <2> QED
    BY <2>2, <2>3, <2>4 DEF Places
<1>2. CASE tool = "authentik"
  <2> DEFINE P == Plans["authentik"]
             c == Controllers[1]
  <2>1. P \in Seq(Step) /\ \A i \in 1..Len(Controllers) : Parts(ControllerSteps(Controllers[i])) \subseteq Parts(P)
    BY AuthentikPlan
  <2>2. \A k \in 1..Len(P) : Form(P[k]) /\ Ordered(P, k)
    BY AuthentikForms
  <2>3. Plan = P
    BY <1>2 DEF Plan
  <2> HIDE DEF P
  <2>4. 1 \in 1..Len(Controllers) /\ c \in ControllerSpec
    BY Constants, Listed
  <2> DEFINE b == ControllerSteps(c)
  <2>5. 1 \in 1..Len(b)
    <3> HIDE DEF c
    <3>1. Len(c.perms) \in Nat /\ Len(b) = Len(c.perms) + 5
      BY <2>4, ControllerStepsAre
    <3> QED
      BY <3>1
  <2>6. b[1] \in Parts(P)
    <3>1. Parts(b) \subseteq Parts(P)
      BY <2>1, <2>4
    <3> HIDE DEF b
    <3> QED
      BY <2>5, <3>1 DEF Parts
  <2>7. Len(P) \in Nat /\ Len(P) > 0
    BY <2>1, <2>6 DEF Parts
  <2> QED
    BY <2>1, <2>2, <2>3, <2>7 DEF Places
<1> QED
  BY <1>1, <1>2 DEF Tools

\* Devices and controllers go by their names.
LEMMA Distinct ==
    /\ \A d, e \in Parts(Devices) : d.name = e.name => d = e
    /\ \A c, e \in Parts(Controllers) : c.user = e.user => c = e
    /\ \A c, e \in Parts(Controllers) : \A p : p \in Parts(c.perms) /\ p \in Parts(e.perms) => c = e
<1>1. \A i, j \in 1..Len(Controllers) : i # j =>
         Controllers[i].user # Controllers[j].user /\ Parts(Controllers[i].perms) \cap Parts(Controllers[j].perms) = {}
  BY SeedingAssumption
<1>2. \A i, j \in 1..Len(Devices) : i # j => Devices[i].name # Devices[j].name
  BY SeedingAssumption
<1>3. \A d, e \in Parts(Devices) : d.name = e.name => d = e
  BY <1>2 DEF Parts
<1>4. ASSUME NEW c \in Parts(Controllers), NEW e \in Parts(Controllers), c # e
      PROVE  c.user # e.user /\ Parts(c.perms) \cap Parts(e.perms) = {}
  <2>1. PICK i \in 1..Len(Controllers) : c = Controllers[i]
    BY DEF Parts
  <2>2. PICK j \in 1..Len(Controllers) : e = Controllers[j]
    BY DEF Parts
  <2> QED
    BY <1>1, <1>4, <2>1, <2>2
<1> QED
  BY <1>3, <1>4

\* A label begins with its kind.
LEMMA LabelKind ==
    ASSUME NEW s, Form(s)
    PROVE  s.label[1] = s.kind
<1>1. CASE s.kind \in {"tenant", "site", "role", "manufacturer", "type"}
  BY <1>1 DEF Form, Root, Planned
<1>2. CASE s.kind = "prefix"
  BY <1>2 DEF Form, Root, Planned
<1>3. CASE s.kind \in {"device", "iface"}
  BY <1>3 DEF Form, DeviceStep, IfaceStep, Planned
<1>4. CASE s.kind \in {"address", "primary"}
  BY <1>4 DEF Form, AddressStep, PrimaryStep, Planned
<1>5. CASE s.kind \in {"akuser", "group", "nbuser"}
  BY <1>5 DEF Form, Root, Planned
<1>6. CASE s.kind \in {"member", "perm", "token"}
  BY <1>6 DEF Form, MemberStep, PermStep, TokenStep, Planned
<1> QED
  BY <1>1, <1>2, <1>3, <1>4, <1>5, <1>6 DEF Form, Kinds

\* A label stands for one step, or for permissions of one name.
LEMMA SameLabel ==
    ASSUME NEW s, NEW t, Form(s), Form(t), s.label = t.label
    PROVE  s.kind = t.kind /\ s.name = t.name /\ (s.kind # "perm" => s = t)
<1>0. s.kind = t.kind
  BY LabelKind
<1>1. CASE s.kind \in {"tenant", "site", "role", "manufacturer", "type"}
  BY <1>0, <1>1 DEF Form
<1>2. CASE s.kind = "prefix"
  BY <1>0, <1>2 DEF Form, Root, Planned
<1>3. CASE s.kind = "device"
  BY <1>0, <1>3, Distinct DEF Form, DeviceStep, Planned
<1>4. CASE s.kind = "iface"
  BY <1>0, <1>4, Distinct DEF Form, IfaceStep, Planned
<1>5. CASE s.kind = "address"
  BY <1>0, <1>5, Distinct DEF Form, AddressStep, Planned
<1>6. CASE s.kind = "primary"
  BY <1>0, <1>6, Distinct DEF Form, PrimaryStep, Planned
<1>7. CASE s.kind \in {"akuser", "group", "nbuser"}
  BY <1>0, <1>7 DEF Form, Root, Planned
<1>8. CASE s.kind = "member"
  BY <1>0, <1>8, Distinct DEF Form, MemberStep, Planned
<1>9. CASE s.kind = "perm"
  BY <1>0, <1>9 DEF Form, PermStep, Planned
<1>10. CASE s.kind = "token"
  BY <1>0, <1>10, Distinct DEF Form, TokenStep, Planned
<1> QED
  BY <1>1, <1>2, <1>3, <1>4, <1>5, <1>6, <1>7, <1>8, <1>9, <1>10 DEF Form, Kinds

\* So does a kind and a name, except for interfaces, addresses and
\* permissions.
LEMMA SameName ==
    ASSUME NEW s, NEW t, Form(s), Form(t), s.kind = t.kind, s.name = t.name,
           s.kind \notin {"iface", "address", "perm"}
    PROVE  s = t
<1>1. CASE s.kind \in {"tenant", "site", "role", "manufacturer", "type"}
  BY <1>1 DEF Form
<1>2. CASE s.kind = "prefix"
  BY <1>2 DEF Form, Root, Planned
<1>3. CASE s.kind = "device"
  BY <1>3, Distinct DEF Form, DeviceStep, Planned
<1>6. CASE s.kind = "primary"
  BY <1>6, Distinct DEF Form, PrimaryStep, Planned
<1>7. CASE s.kind \in {"akuser", "group", "nbuser"}
  BY <1>7 DEF Form, Root, Planned
<1>8. CASE s.kind = "member"
  BY <1>8, Distinct DEF Form, MemberStep, Planned
<1>10. CASE s.kind = "token"
  BY <1>10, Distinct DEF Form, TokenStep, Planned
<1> QED
  BY <1>1, <1>2, <1>3, <1>6, <1>7, <1>8, <1>10 DEF Form, Kinds

\* A permission is planned for one user.
LEMMA SamePerm ==
    ASSUME NEW s, NEW t, Form(s), Form(t), s.kind = "perm", t.kind = "perm", s.name = t.name
    PROVE  s = t
<1>1. PICK c \in Parts(Controllers) : \E p \in Parts(c.perms) : s = PermStep(c, p)
  BY DEF Form
<1>2. PICK p \in Parts(c.perms) : s = PermStep(c, p)
  BY <1>1
<1>3. PICK e \in Parts(Controllers) : \E q \in Parts(e.perms) : t = PermStep(e, q)
  BY DEF Form
<1>4. PICK q \in Parts(e.perms) : t = PermStep(e, q)
  BY <1>3
<1>5. s.name = p /\ t.name = q
  BY <1>2, <1>4 DEF PermStep, Planned
<1>6. p = q /\ c = e
  BY <1>5, Distinct
<1> QED
  BY <1>2, <1>4, <1>6

\* A permission is planned with the account of its user.
LEMMA PermRefs ==
    ASSUME NEW s, Form(s), s.kind = "perm"
    PROVE  \E c \in Parts(Controllers) : s.refs = <<<<"nbuser", c.user>>>>
BY DEF Form, PermStep, Planned

\* What interfaces, addresses, primary addresses and tokens are planned with.
LEMMA FormRefs ==
    ASSUME NEW s, Form(s)
    PROVE  /\ s.kind \in {"iface", "address"} => Len(s.refs) = 1
           /\ s.kind = "device" => s.label = <<"device", s.name>>
           /\ s.kind = "primary" => s.refs = <<<<"device", s.name>>, <<"address", s.name>>>>
           /\ s.kind = "token" => s.name \in Users
<1>1. s.kind = "iface" => Len(s.refs) = 1
  BY DEF Form, IfaceStep, Planned
<1>2. s.kind = "address" => Len(s.refs) = 1
  BY DEF Form, AddressStep, Planned
<1>3. s.kind = "device" => s.label = <<"device", s.name>>
  BY DEF Form, DeviceStep, Planned
<1>4. s.kind = "primary" => s.refs = <<<<"device", s.name>>, <<"address", s.name>>>>
  BY DEF Form, PrimaryStep, Planned
<1>5. s.kind = "token" => s.name \in Users
  BY DEF Form, TokenStep, Planned, Users, Parts
<1> QED
  BY <1>1, <1>2, <1>3, <1>4, <1>5

\* seed-authentik makes a token for every user.
LEMMA TokensPlanned ==
    ASSUME tool = "authentik", NEW u \in Users
    PROVE  \E k \in Places : Plan[k].kind = "token" /\ Plan[k].name = u
<1>1. PICK i \in 1..Len(Controllers) : u = Controllers[i].user
  BY DEF Users
<1> DEFINE c == Controllers[i]
           b == ControllerSteps(c)
<1>2. c \in ControllerSpec
  BY Listed
<1>3. Parts(b) \subseteq Parts(Plan)
  BY AuthentikPlan DEF Plan
<1> HIDE DEF c
<1>4. Len(b) \in Nat /\ Len(b) > 0 /\ b[Len(b)] = Planned("token", c.user, c.user, <<<<"nbuser", c.user>>>>)
  <2>1. /\ Len(c.perms) \in Nat /\ Len(b) = Len(c.perms) + 5
        /\ b[Len(c.perms) + 5] = Planned("token", c.user, c.user, <<<<"nbuser", c.user>>>>)
    BY <1>2, ControllerStepsAre
  <2> HIDE DEF b
  <2> QED
    BY <2>1
<1> HIDE DEF b
<1>5. b[Len(b)] \in Parts(Plan)
  <2>1. Len(b) \in 1..Len(b)
    BY <1>4
  <2> QED
    BY <1>3, <2>1 DEF Parts
<1>6. PICK k \in Places : Plan[k] = b[Len(b)]
  BY <1>5 DEF Parts, Places
<1>7. Plan[k].kind = "token" /\ Plan[k].name = c.user
  BY <1>4, <1>6 DEF Planned
<1> QED
  BY <1>1, <1>7 DEF c

-----------------------------------------------------------------------------
(* The steps, as far as types are concerned.                               *)

\* The record that is made here, and the primary addresses it replaces.
New == [id |-> nextId, kind |-> Here.kind, name |-> Here.name, refs |-> RefIds(Here)]
Old == {r \in recs : Here.kind = "primary" /\ r.kind = "primary" /\ r.refs[1] = RefIds(Here)[1]}

\* Where a run is in its plan.
LEMMA PlaceFacts ==
    ASSUME WellFormed
    PROVE  /\ Plan \in Seq(Step) /\ Len(Plan) \in Nat /\ Len(Plan) > 0
           /\ \A k \in Places : Plan[k] \in Step /\ Form(Plan[k]) /\ Ordered(Plan, k)
           /\ Behind \subseteq Places /\ at \in Nat /\ at >= 1
           /\ \A k \in Behind : k \in Nat /\ k < at
<1>1. tool \in Tools
  BY DEF WellFormed, Tools
<1>2. at \in 1..(Len(Plan) + 1)
  BY DEF WellFormed
<1>3. Len(Plan) \in Nat
  BY <1>1, PlanFacts
<1> QED
  BY <1>1, <1>2, <1>3, PlanFacts DEF Places, Behind

\* What the step here refers to is behind, and the run has its id.
LEMMA RefsBehind ==
    ASSUME WellFormed, NEW k \in Places, k <= at, NEW m \in 1..Len(Plan[k].refs)
    PROVE  /\ \E j \in Behind : j < k /\ Plan[j].label = Plan[k].refs[m] /\ <<Plan[k].kind, Plan[j].kind>> \in MayRefer
           /\ got[Plan[k].refs[m]] \in 1..(nextId - 1)
<1>1. Ordered(Plan, k) /\ at \in Nat /\ k \in Nat
  BY PlaceFacts DEF Places
<1>2. PICK j \in 1..(k - 1) : Plan[j].label = Plan[k].refs[m] /\ <<Plan[k].kind, Plan[j].kind>> \in MayRefer
  BY <1>1 DEF Ordered
<1>3. j \in Behind /\ j < k
  BY <1>1 DEF Behind
<1>4. got[Plan[j].label] \in 1..(nextId - 1)
  BY <1>3 DEF WellFormed
<1> QED
  BY <1>2, <1>3, <1>4

\* The ids a step refers to are a list as long as its labels.
LEMMA RefIdsAre ==
    ASSUME WellFormed, NEW k \in Places, k <= at
    PROVE  /\ RefIds(Plan[k]) \in Seq(Nat)
           /\ Len(Plan[k].refs) \in Nat /\ Len(RefIds(Plan[k])) = Len(Plan[k].refs)
           /\ \A m \in 1..Len(Plan[k].refs) : RefIds(Plan[k])[m] = got[Plan[k].refs[m]]
<1> DEFINE s == Plan[k]
           n == Len(s.refs)
<1>1. s \in Step
  BY PlaceFacts
<1>2. n \in Nat
  BY <1>1 DEF Step
<1>3. \A m \in 1..n : got[s.refs[m]] \in Nat
  <2>1. nextId \in Nat
    BY DEF WellFormed
  <2> QED
    BY <2>1, RefsBehind
<1> HIDE DEF s
<1>4. RefIds(s) = [m \in 1..n |-> got[s.refs[m]]]
  BY DEF RefIds
<1> HIDE DEF n
<1>5. RefIds(s) \in Seq(Nat) /\ Len(RefIds(s)) = n /\ \A m \in 1..n : RefIds(s)[m] = got[s.refs[m]]
  BY <1>2, <1>3, <1>4
<1> QED
  BY <1>2, <1>5 DEF s, n

\* The record that is made is one.
LEMMA NewType ==
    ASSUME WellFormed, at \in Places
    PROVE  New \in Record /\ New.id = nextId /\ New.kind = Here.kind /\ New.name = Here.name
           /\ New.refs = RefIds(Here)
<1>1. at <= at /\ RefIds(Plan[at]) \in Seq(Nat)
  BY PlaceFacts, RefIdsAre DEF Places
<1>2. Plan[at].kind \in Kinds /\ Plan[at].name \in PlanNames
  BY PlaceFacts DEF Step, PlanNames
<1>3. nextId \in Nat
  BY DEF WellFormed
<1> QED
  BY <1>1, <1>2, <1>3 DEF New, Record, Here

\* What becomes of the records when one is made.
LEMMA AfterIs ==
    ASSUME WellFormed, at \in Places
    PROVE  \/ /\ After(Here) = recs
              /\ \/ Here.kind = "member" /\ Found(Here) # {}
                 \/ Here.kind = "primary" /\ \E r \in recs : r.kind = "primary" /\ r.refs = RefIds(Here)
           \/ After(Here) = (recs \ Old) \cup {New}
<1> DEFINE old == {r \in recs : r.kind = "primary" /\ r.refs[1] = New.refs[1]}
<1>0. New.refs = RefIds(Here)
  BY NewType
<1>1. After(Here) = CASE Here.kind = "primary" ->
                           IF \E r \in old : r.refs = New.refs THEN recs ELSE (recs \ old) \cup {New}
                      [] Here.kind = "member" /\ Found(Here) # {} -> recs
                      [] OTHER -> recs \cup {New}
  BY DEF After, New
<1>2. CASE Here.kind = "primary"
  <2>1. Old = old
    BY <1>0, <1>2 DEF Old
  <2>2. After(Here) = IF \E r \in old : r.refs = New.refs THEN recs ELSE (recs \ old) \cup {New}
    <3>1. Here.kind # "member"
      BY <1>2
    <3> HIDE DEF old
    <3> QED
      BY <1>1, <1>2, <3>1
  <2> QED
    BY <1>0, <1>2, <2>1, <2>2
<1>3. CASE Here.kind = "member" /\ Found(Here) # {}
  BY <1>1, <1>3
<1>4. CASE Here.kind # "primary" /\ ~(Here.kind = "member" /\ Found(Here) # {})
  <2>1. After(Here) = recs \cup {New}
    BY <1>1, <1>4
  <2>2. Old = {}
    BY <1>4 DEF Old
  <2> QED
    BY <2>1, <2>2
<1> QED
  BY <1>2, <1>3, <1>4

\* Whatever is made, records stay records of different ids.
LEMMA AfterTypes ==
    ASSUME WellFormed, at \in Places
    PROVE  /\ After(Here) \subseteq Record
           /\ \A r \in After(Here) : r.id \in 1..nextId
           /\ \A r, q \in After(Here) : r.id = q.id => r = q
<1>1. After(Here) \subseteq recs \cup {New}
  BY AfterIs
<1>2. recs \subseteq Record /\ nextId \in Nat
      /\ (\A r \in recs : r.id \in 1..(nextId - 1)) /\ \A r, q \in recs : r.id = q.id => r = q
  BY DEF WellFormed
<1>3. New \in Record /\ New.id = nextId
  BY NewType
<1>4. nextId >= 1
  BY DEF WellFormed
<1>5. \A r \in recs : r.id # New.id
  BY <1>2, <1>3
<1> QED
  BY <1>1, <1>2, <1>3, <1>4, <1>5

\* A tool keeps to its plan.
LEMMA SamePlan ==
    ASSUME tool' = tool
    PROVE  Plan' = Plan /\ Places' = Places /\ PlanNames' = PlanNames /\ Record' = Record
BY DEF Plan, Places, PlanNames, Record

\* A run that goes on is one step further.
LEMMA GoesOnTypes ==
    ASSUME WellFormed, at \in Places, tool' = tool, NEW id, NEW key, NEW N \in Nat, nextId <= N,
           id \in 1..(N - 1), key \in {Placeholder} \cup 1..(N - 1), GoesOn(id, key)
    PROVE  /\ pc' \in {"lookup", "complete"} /\ at' = at + 1
           /\ at' \in 1..(Len(Plan) + 1)
           /\ pc' \in {"lookup", "create"} => at' \in Places
           /\ pc' = "complete" => at' = Len(Plan) + 1
           /\ Behind' = Behind \cup {at}
           /\ got' \in [{Plan[i].label : i \in Behind'} -> 1..(N - 1)]
           /\ DOMAIN printed' = {Plan[i].name : i \in {j \in Behind' : Plan[j].kind = "token"}}
           /\ \A u \in DOMAIN printed' : printed'[u] \in {Placeholder} \cup 1..(N - 1)
           /\ settled' \in BOOLEAN
<1>1. Len(Plan) \in Nat /\ at \in 1..Len(Plan) /\ nextId \in Nat
  BY PlaceFacts DEF Places, WellFormed
<1>2. at' = at + 1 /\ Behind' = Behind \cup {at}
  BY <1>1 DEF GoesOn, Behind
<1>3. pc' = IF at = Len(Plan) THEN "complete" ELSE "lookup"
  BY DEF GoesOn
<1>4. got' \in [{Plan[i].label : i \in Behind'} -> 1..(N - 1)]
  <2> DEFINE B == {Plan[i].label : i \in Behind}
             l == Here.label
  <2>1. got \in [B -> 1..(nextId - 1)]
    BY DEF WellFormed
  <2>2. got' = [y \in DOMAIN got \cup {l} |-> IF y = l THEN id ELSE got[y]]
    BY DEF GoesOn, Bind
  <2>3. {Plan[i].label : i \in Behind'} = B \cup {l}
    BY <1>2 DEF Here
  <2> HIDE DEF B, l
  <2>4. 1..(nextId - 1) \subseteq 1..(N - 1)
    BY <1>1
  <2>5. got' \in [B \cup {l} -> 1..(N - 1)]
    BY <2>1, <2>2, <2>4
  <2> QED
    BY <2>3, <2>5
<1>5. /\ DOMAIN printed' = {Plan[i].name : i \in {j \in Behind' : Plan[j].kind = "token"}}
      /\ \A u \in DOMAIN printed' : printed'[u] \in {Placeholder} \cup 1..(N - 1)
  <2>1. /\ DOMAIN printed = {Plan[i].name : i \in {j \in Behind : Plan[j].kind = "token"}}
        /\ \A u \in DOMAIN printed : printed[u] \in {Placeholder} \cup 1..(N - 1)
    <3>1. 1..(nextId - 1) \subseteq 1..(N - 1)
      BY <1>1
    <3> QED
      BY <3>1 DEF WellFormed
  <2>2. CASE Here.kind = "token"
    <3>1. printed' = [y \in DOMAIN printed \cup {Here.name} |-> IF y = Here.name THEN key ELSE printed[y]]
      BY <2>2 DEF GoesOn, Bind
    <3>2. DOMAIN printed' = DOMAIN printed \cup {Here.name}
      BY <3>1
    <3>3. {Plan[i].name : i \in {j \in Behind' : Plan[j].kind = "token"}}
            = {Plan[i].name : i \in {j \in Behind : Plan[j].kind = "token"}} \cup {Here.name}
      BY <1>2, <2>2 DEF Here
    <3> QED
      BY <2>1, <3>1, <3>2, <3>3
  <2>3. CASE Here.kind # "token"
    <3>1. printed' = printed
      BY <2>3 DEF GoesOn
    <3>2. {j \in Behind' : Plan[j].kind = "token"} = {j \in Behind : Plan[j].kind = "token"}
      BY <1>2, <2>3 DEF Here
    <3> QED
      BY <2>1, <3>1, <3>2
  <2> QED
    BY <2>2, <2>3
<1>6. settled' \in BOOLEAN
  BY DEF GoesOn, WellFormed
<1> QED
  BY <1>1, <1>2, <1>3, <1>4, <1>5, <1>6 DEF Places

\* What an operator leaves of the records: S, changed as in f.  A permission
\* may lose its user, an address may be moved.
Leaves(S, f) ==
    /\ S \subseteq recs /\ f \in [S -> Record] /\ recs' = {f[q] : q \in S}
    /\ \A q \in S : /\ f[q].id = q.id /\ f[q].kind = q.kind /\ f[q].name = q.name
                    /\ q.kind \notin {"perm", "address"} => f[q] = q
                    /\ q.kind = "address" /\ f[q] # q =>
                          /\ S = recs /\ \E i \in recs : i.kind = "iface" /\ f[q].refs = <<i.id>>
                          /\ ~\E p \in recs : p.kind = "primary" /\ Refers(p, q)

\* What is gone when r is deleted.
Hangs(S) == S \cup {q \in recs : q.kind # "perm" /\ \E x \in S : Refers(q, x)}
Gone(r) == Hangs(Hangs(Hangs({r})))

\* Deleting a record.
LEMMA DeleteLeaves ==
    ASSUME WellFormed, NEW r \in recs, Delete(r)
    PROVE  \E f : Leaves(recs \ Gone(r), f)
<1> DEFINE S == recs \ Gone(r)
           g(q) == [q EXCEPT !.refs = IF q.kind = "perm" /\ Refers(q, r) THEN <<>> ELSE @]
           f == [q \in S |-> g(q)]
<1>1. recs' = {g(q) : q \in S}
  BY DEF Delete, Gone, Hangs
<1>2. recs \subseteq Record
  BY DEF WellFormed
<1>3. ASSUME NEW q \in S
      PROVE  /\ g(q) \in Record /\ g(q).id = q.id /\ g(q).kind = q.kind /\ g(q).name = q.name
             /\ q.kind # "perm" => g(q) = q
  <2>1. q \in Record
    BY <1>2
  <2>2. <<>> \in Seq(Nat)
    OBVIOUS
  <2> QED
    BY <2>1, <2>2 DEF Record
<1> HIDE DEF g
<1>4. f \in [S -> Record] /\ \A q \in S : f[q] = g(q)
  BY <1>3
<1> HIDE DEF f
<1>5. recs' = {f[q] : q \in S}
  BY <1>1, <1>4
<1>6. Leaves(S, f)
  <2> HIDE DEF S
  <2>1. S \subseteq recs
    BY DEF S
  <2> QED
    BY <1>3, <1>4, <1>5, <2>1 DEF Leaves
<1> QED
  BY <1>6

\* Moving an address.
LEMMA MoveLeaves ==
    ASSUME WellFormed, NEW r \in recs, NEW i \in recs, MoveAddress(r, i)
    PROVE  \E f : Leaves(recs, f)
<1> DEFINE m == [r EXCEPT !.refs = <<i.id>>]
           f == [q \in recs |-> IF q = r THEN m ELSE q]
<1>1. recs \subseteq Record
  BY DEF WellFormed
<1>2. m \in Record /\ m.id = r.id /\ m.kind = r.kind /\ m.name = r.name /\ m.refs = <<i.id>>
  <2>1. r \in Record /\ i \in Record
    BY <1>1
  <2>2. <<i.id>> \in Seq(Nat)
    BY <2>1 DEF Record
  <2> QED
    BY <2>1, <2>2 DEF Record
<1>3. recs' = (recs \ {r}) \cup {m} /\ r.kind = "address" /\ i.kind = "iface"
      /\ ~\E q \in recs : q.kind = "primary" /\ Refers(q, r)
  BY DEF MoveAddress
<1> HIDE DEF m
<1>4. f \in [recs -> Record] /\ \A q \in recs : f[q] = IF q = r THEN m ELSE q
  BY <1>1, <1>2
<1> HIDE DEF f
<1>5. recs' = {f[q] : q \in recs}
  BY <1>3, <1>4
<1>6. ASSUME NEW q \in recs
      PROVE  /\ f[q].id = q.id /\ f[q].kind = q.kind /\ f[q].name = q.name
             /\ q.kind \notin {"perm", "address"} => f[q] = q
             /\ q.kind = "address" /\ f[q] # q =>
                    /\ \E x \in recs : x.kind = "iface" /\ f[q].refs = <<x.id>>
                    /\ ~\E p \in recs : p.kind = "primary" /\ Refers(p, q)
  BY <1>2, <1>3, <1>4
<1> QED
  BY <1>4, <1>5, <1>6 DEF Leaves

\* Records an operator leaves are still records of different ids.
LEMMA LeavesTypes ==
    ASSUME WellFormed, NEW S, NEW f, Leaves(S, f)
    PROVE  /\ recs' \subseteq Record
           /\ \A r \in recs' : r.id \in 1..(nextId - 1)
           /\ \A r, q \in recs' : r.id = q.id => r = q
<1>1. S \subseteq recs /\ f \in [S -> Record] /\ recs' = {f[q] : q \in S} /\ \A q \in S : f[q].id = q.id
  BY DEF Leaves
<1>2. (\A r \in recs : r.id \in 1..(nextId - 1)) /\ \A r, q \in recs : r.id = q.id => r = q
  BY DEF WellFormed
<1> QED
  BY <1>1, <1>2

\* Runs begin well-formed.
LEMMA WellFormedInit ==
    ASSUME Init
    PROVE  WellFormed
<1>1. tool \in Tools /\ tool \in {"netbox", "authentik"}
  BY DEF Init, Tools
<1>2. Len(Plan) \in Nat /\ Len(Plan) > 0
  BY <1>1, PlanFacts
<1>3. /\ recs = {} /\ pc = "idle" /\ at = 1 /\ got = <<>> /\ printed = <<>> /\ nextId = 1
      /\ faults = 0 /\ edits = 0 /\ runs = 0 /\ touched = FALSE /\ settled = FALSE
  BY DEF Init
<1>4. Behind = {}
  BY <1>3 DEF Behind
<1>5. got \in [{Plan[i].label : i \in Behind} -> 1..(nextId - 1)]
  BY <1>3, <1>4
<1>6. DOMAIN printed = {Plan[i].name : i \in {j \in Behind : Plan[j].kind = "token"}}
      /\ \A u \in DOMAIN printed : printed[u] \in {Placeholder} \cup 1..(nextId - 1)
  BY <1>3, <1>4
<1>7. /\ at \in 1..(Len(Plan) + 1) /\ pc \in {"idle", "lookup", "create", "complete", "failed"}
      /\ (pc \in {"lookup", "create"} => at \in Places) /\ (pc = "complete" => at = Len(Plan) + 1)
      /\ nextId \in Nat /\ nextId >= 1
      /\ faults \in 0..MaxFaults /\ edits \in 0..MaxEdits /\ runs \in 0..MaxRuns
  <2>1. at \in 1..(Len(Plan) + 1) /\ nextId \in Nat /\ nextId >= 1
    BY <1>2, <1>3
  <2>2. faults \in 0..MaxFaults /\ edits \in 0..MaxEdits /\ runs \in 0..MaxRuns
    BY <1>3, Constants
  <2> QED
    BY <1>3, <2>1, <2>2
<1>8. recs \subseteq Record /\ (\A r \in recs : r.id \in 1..(nextId - 1)) /\ \A r, q \in recs : r.id = q.id => r = q
  BY <1>3
<1>9. touched \in BOOLEAN /\ settled \in BOOLEAN
  BY <1>3
<1> QED
  BY <1>1, <1>5, <1>6, <1>7, <1>8, <1>9 DEF WellFormed

\* Every step leaves it so.
LEMMA WellFormedStep ==
    ASSUME WellFormed, [Next]_vars
    PROVE  WellFormed'
<1>0. /\ tool \in {"netbox", "authentik"} /\ Len(Plan) \in Nat /\ Len(Plan) > 0
      /\ pc \in {"idle", "lookup", "create", "complete", "failed"}
      /\ at \in 1..(Len(Plan) + 1)
      /\ (pc \in {"lookup", "create"} => at \in Places) /\ (pc = "complete" => at = Len(Plan) + 1)
      /\ nextId \in Nat /\ nextId >= 1
      /\ recs \subseteq Record /\ (\A r \in recs : r.id \in 1..(nextId - 1))
      /\ \A r, q \in recs : r.id = q.id => r = q
  BY PlaceFacts DEF WellFormed
<1>1. /\ got \in [{Plan[i].label : i \in Behind} -> 1..(nextId - 1)]
      /\ DOMAIN printed = {Plan[i].name : i \in {j \in Behind : Plan[j].kind = "token"}}
      /\ \A u \in DOMAIN printed : printed[u] \in {Placeholder} \cup 1..(nextId - 1)
  BY DEF WellFormed
<1>2. /\ faults \in 0..MaxFaults /\ edits \in 0..MaxEdits /\ runs \in 0..MaxRuns
      /\ touched \in BOOLEAN /\ settled \in BOOLEAN
  BY DEF WellFormed
<1>3. MaxEdits \in Nat /\ MaxFaults \in Nat /\ MaxRuns \in Nat
  BY Constants
\* What WellFormed' says, over the plan that stays.
<1> DEFINE Counts == /\ faults' \in 0..MaxFaults /\ edits' \in 0..MaxEdits /\ runs' \in 0..MaxRuns
                     /\ touched' \in BOOLEAN /\ settled' \in BOOLEAN
           Stage == /\ pc' \in {"idle", "lookup", "create", "complete", "failed"}
                    /\ at' \in 1..(Len(Plan) + 1)
                    /\ (pc' \in {"lookup", "create"} => at' \in Places)
                    /\ (pc' = "complete" => at' = Len(Plan) + 1)
           Store == /\ nextId' \in Nat /\ nextId' >= 1
                    /\ recs' \subseteq Record /\ (\A r \in recs' : r.id \in 1..(nextId' - 1))
                    /\ \A r, q \in recs' : r.id = q.id => r = q
           Memory == /\ got' \in [{Plan[i].label : i \in Behind'} -> 1..(nextId' - 1)]
                     /\ DOMAIN printed' = {Plan[i].name : i \in {j \in Behind' : Plan[j].kind = "token"}}
                     /\ \A u \in DOMAIN printed' : printed'[u] \in {Placeholder} \cup 1..(nextId' - 1)
<1>4. ASSUME tool' = tool, Counts, Stage, Store, Memory
      PROVE  WellFormed'
  <2>1. Plan' = Plan /\ Places' = Places /\ Record' = Record
    BY <1>4, SamePlan
  <2> QED
    BY <1>0, <1>4, <2>1 DEF WellFormed
<1>5. ASSUME UNCHANGED <<at, got, printed, nextId>>
      PROVE  Memory
  BY <1>1, <1>5 DEF Behind
<1>6. ASSUME UNCHANGED <<recs, nextId>>
      PROVE  Store
  BY <1>0, <1>6
<1>7. CASE Run
  <2>1. /\ at' = 1 /\ got' = <<>> /\ printed' = <<>> /\ touched' = FALSE /\ pc' \in {"lookup", "failed"}
        /\ UNCHANGED <<tool, recs, nextId, edits, settled>>
    BY <1>7 DEF Run
  <2>2. Counts
    <3>1. runs' \in 0..MaxRuns
      BY <1>2, <1>3, <1>7 DEF Run
    <3>2. faults' \in 0..MaxFaults
      BY <1>2, <1>3, <1>7 DEF Run, SpendFault
    <3> QED
      BY <1>2, <2>1, <3>1, <3>2
  <2>3. Stage
    BY <1>0, <2>1 DEF Places
  <2>4. Memory
    <3>1. Behind' = {}
      BY <2>1 DEF Behind
    <3> QED
      BY <2>1, <3>1
  <2>5. Store
    BY <1>6, <2>1
  <2> QED
    BY <1>4, <2>1, <2>2, <2>3, <2>4, <2>5
<1>8. CASE Lookup
  <2>1. pc = "lookup" /\ UNCHANGED <<tool, recs, nextId, edits, runs, touched>> /\ at \in Places
    BY <1>0, <1>8 DEF Lookup
  <2>2. Store
    BY <1>6, <2>1
  <2>3. CASE \E r \in Found(Here) : GoesOn(r.id, Placeholder) /\ UNCHANGED faults
    <3>1. PICK r \in Found(Here) : GoesOn(r.id, Placeholder) /\ UNCHANGED faults
      BY <2>3
    <3>2. r.id \in 1..(nextId - 1)
      BY <1>0 DEF Found
    <3>3. /\ Stage /\ settled' \in BOOLEAN
          /\ got' \in [{Plan[i].label : i \in Behind'} -> 1..(nextId - 1)]
          /\ DOMAIN printed' = {Plan[i].name : i \in {j \in Behind' : Plan[j].kind = "token"}}
          /\ \A u \in DOMAIN printed' : printed'[u] \in {Placeholder} \cup 1..(nextId - 1)
      <4>1. Placeholder \in {Placeholder} \cup 1..(nextId - 1) /\ nextId <= nextId
        BY <1>0
      <4> QED
        BY <1>0, <2>1, <3>1, <3>2, <4>1, GoesOnTypes
    <3>4. Counts /\ Memory
      BY <1>2, <2>1, <3>1, <3>3
    <3> QED
      BY <1>4, <2>1, <2>2, <3>3, <3>4
  <2>4. CASE /\ pc' = "create" \/ (pc' = "failed" /\ SpendFault)
             /\ pc' = "create" => UNCHANGED faults
             /\ UNCHANGED <<at, got, printed, settled>>
    <3>1. Memory /\ Stage
      BY <1>0, <1>5, <2>1, <2>4
    <3>2. faults' \in 0..MaxFaults
      BY <1>2, <1>3, <2>4 DEF SpendFault
    <3>3. Counts
      BY <1>2, <2>1, <2>4, <3>2
    <3> QED
      BY <1>4, <2>1, <2>2, <3>1, <3>3
  <2> QED
    BY <1>8, <2>3, <2>4 DEF Lookup
<1>9. CASE Create
  <2>1. pc = "create" /\ UNCHANGED <<tool, edits, runs, touched>> /\ at \in Places
    BY <1>0, <1>9 DEF Create
  <2>2. CASE recs' = After(Here) /\ nextId' = nextId + 1
    <3>1. nextId' - 1 = nextId /\ nextId' \in Nat /\ nextId' >= 1 /\ nextId <= nextId'
      BY <1>0, <2>2
    <3>2. Store
      BY <2>1, <2>2, <3>1, AfterTypes
    <3>3. CASE GoesOn(nextId, nextId) /\ UNCHANGED faults
      <4>1. nextId \in 1..(nextId' - 1) /\ nextId \in {Placeholder} \cup 1..(nextId' - 1)
        <5>1. nextId \in 1..nextId
          BY <1>0
        <5> QED
          BY <3>1, <5>1
      <4> DEFINE N == nextId'
      <4> HIDE DEF N
      <4>2. /\ Stage /\ settled' \in BOOLEAN
            /\ got' \in [{Plan[i].label : i \in Behind'} -> 1..(N - 1)]
            /\ DOMAIN printed' = {Plan[i].name : i \in {j \in Behind' : Plan[j].kind = "token"}}
            /\ \A u \in DOMAIN printed' : printed'[u] \in {Placeholder} \cup 1..(N - 1)
        <5>1. N \in Nat /\ nextId <= N /\ nextId \in 1..(N - 1) /\ nextId \in {Placeholder} \cup 1..(N - 1)
          BY <3>1, <4>1 DEF N
        <5> QED
          BY <2>1, <3>3, <5>1, GoesOnTypes
      <4>3. Counts /\ Memory
        BY <1>2, <2>1, <3>3, <4>2 DEF N
      <4> QED
        BY <1>4, <2>1, <3>2, <4>2, <4>3
    <3>4. CASE pc' = "failed" /\ SpendFault /\ UNCHANGED <<at, got, printed, settled>>
      <4>1. Stage
        BY <1>0, <3>4
      <4>2. Memory
        <5>1. 1..(nextId - 1) \subseteq 1..(nextId' - 1)
          <6>1. 1..(nextId - 1) \subseteq 1..nextId
            BY <1>0
          <6> QED
            BY <3>1, <6>1
        <5>2. Behind' = Behind
          BY <3>4 DEF Behind
        <5>3. UNCHANGED <<got, printed>>
          BY <3>4
        <5>4. got \in [{Plan[i].label : i \in Behind} -> 1..(nextId' - 1)]
          BY <1>1, <5>1
        <5>5. \A u \in DOMAIN printed : printed[u] \in {Placeholder} \cup 1..(nextId' - 1)
          BY <1>1, <5>1
        <5> QED
          BY <1>1, <5>2, <5>3, <5>4, <5>5
      <4>3. faults' \in 0..MaxFaults
        BY <1>2, <1>3, <3>4 DEF SpendFault
      <4>4. Counts
        BY <1>2, <2>1, <3>4, <4>3
      <4> QED
        BY <1>4, <2>1, <3>2, <4>1, <4>2, <4>4
    <3> QED
      BY <1>9, <2>2, <3>3, <3>4 DEF Create
  <2>3. CASE /\ IF Accepted(Here) THEN SpendFault ELSE UNCHANGED faults
             /\ pc' = "failed" /\ UNCHANGED <<recs, at, got, printed, nextId, settled>>
    <3>1. Stage /\ Memory /\ Store
      BY <1>0, <1>5, <1>6, <2>3
    <3>2. faults' \in 0..MaxFaults
      BY <1>2, <1>3, <2>3 DEF SpendFault
    <3>3. Counts
      BY <1>2, <2>1, <2>3, <3>2
    <3> QED
      BY <1>4, <2>1, <3>1, <3>3
  <2> QED
    BY <1>9, <2>2, <2>3 DEF Create
<1>10. CASE Operator
  <2>1. Edits
    BY <1>10 DEF Operator, Delete, MoveAddress
  <2>2. PICK S, f : Leaves(S, f)
    <3>1. CASE \E r \in recs : Delete(r)
      BY <3>1, DeleteLeaves
    <3>2. CASE \E r, i \in recs : MoveAddress(r, i)
      BY <3>2, MoveLeaves
    <3> QED
      BY <1>10, <3>1, <3>2 DEF Operator
  <2>3. UNCHANGED <<tool, pc, at, got, printed, nextId, faults, runs>> /\ touched' = TRUE /\ settled' = FALSE
        /\ edits < MaxEdits /\ edits' = edits + 1
    BY <2>1 DEF Edits
  <2>4. Store
    BY <1>0, <2>2, <2>3, LeavesTypes
  <2>5. Stage /\ Memory
    BY <1>0, <1>5, <2>3
  <2>6. edits' \in 0..MaxEdits
    BY <1>2, <1>3, <2>3
  <2>7. touched' \in BOOLEAN /\ settled' \in BOOLEAN
    BY <2>3
  <2>8. Counts
    BY <1>2, <2>3, <2>6, <2>7
  <2> QED
    BY <1>4, <2>3, <2>4, <2>5, <2>8
<1>11. CASE UNCHANGED vars
  <2>1. UNCHANGED <<tool, recs, pc, at, got, printed, nextId, faults, edits, runs, touched, settled>>
    BY <1>11 DEF vars
  <2>2. Store /\ Memory
    BY <1>5, <1>6, <2>1
  <2>3. Stage /\ Counts
    BY <1>0, <1>2, <2>1
  <2> QED
    BY <1>4, <2>1, <2>2, <2>3
<1> QED
  BY <1>7, <1>8, <1>9, <1>10, <1>11 DEF Next, Tool

\* Seeding keeps to its types: the run is at a place of its plan, remembers
\* the ids of what is behind it and no other, and prints keys of users only.
THEOREM SeedingTypes == Spec => []TypeOK
<1>1. ASSUME WellFormed
      PROVE  TypeOK
  <2>1. Len(Plan) \in Nat
    BY <1>1, PlaceFacts
  <2>2. \A r \in recs : r.kind \in Kinds
    BY <1>1 DEF WellFormed, Record
  <2>3. \A u \in DOMAIN printed : u \in Users
    <3>1. \A i \in Behind : Plan[i].kind = "token" => Plan[i].name \in Users
      BY <1>1, PlaceFacts, FormRefs
    <3> QED
      BY <1>1, <3>1 DEF WellFormed
  <2> QED
    BY <1>1, <2>1, <2>2, <2>3 DEF WellFormed, TypeOK, Behind
<1> QED
  BY <1>1, WellFormedInit, WellFormedStep, PTL DEF Spec

-----------------------------------------------------------------------------
(* What records refer to.                                                  *)

\* A record of the plan, in the midst of the records R.
PlannedIn(R, r) ==
    /\ \E j \in Places : Stands(R, r, Plan[j])
    /\ r.kind = "address" => OnSomeIface(R, r)
    /\ r.kind = "primary" => OnOwnIface(R, r)

\* The pairs of kinds that occur are the planned ones.
LEMMA RefersTo ==
    ASSUME WellFormed, Planning(recs), NEW q \in recs, NEW x \in recs, q.kind # "perm", Refers(q, x)
    PROVE  <<q.kind, x.kind>> \in MayRefer
<1>1. PICK j \in Places : Stands(recs, q, Plan[j])
  BY DEF Planning
<1>2. PICK k \in 1..Len(q.refs) : q.refs[k] = x.id
  BY DEF Refers
<1>3. CASE q.kind = "address"
  <2>1. PICK i \in recs : i.kind = "iface" /\ q.refs = <<i.id>>
    BY <1>3 DEF Planning, OnSomeIface
  <2>2. x.id = i.id
    BY <1>2, <2>1
  <2>3. x = i
    BY <2>2 DEF WellFormed
  <2> QED
    BY <1>3, <2>1, <2>3 DEF MayRefer
<1>4. CASE q.kind # "address"
  <2>1. k \in 1..Len(Plan[j].refs) /\ Denotes(recs, Plan[j].refs[k], q.refs[k]) /\ q.kind = Plan[j].kind
    BY <1>1, <1>2, <1>4 DEF Stands
  <2>2. PICK y \in recs, i \in Places :
           Plan[i].label = Plan[j].refs[k] /\ y.id = q.refs[k] /\ y.kind = Plan[i].kind
    BY <2>1 DEF Denotes
  <2>3. x = y
    BY <1>2, <2>2 DEF WellFormed
  <2>4. PICK h \in 1..(j - 1) : Plan[h].label = Plan[j].refs[k] /\ <<Plan[j].kind, Plan[h].kind>> \in MayRefer
    BY <2>1, PlaceFacts DEF Ordered
  <2>5. h \in Places
    BY PlaceFacts DEF Places
  <2>6. Plan[h].kind = Plan[i].kind
    BY <2>2, <2>4, <2>5, PlaceFacts, SameLabel
  <2> QED
    BY <2>1, <2>2, <2>3, <2>4, <2>6
<1> QED
  BY <1>3, <1>4

\* Four references in a row lead to a record that cannot be deleted.
LEMMA Chains ==
    ASSUME NEW a, NEW b, NEW c, NEW d, NEW e,
           <<a, b>> \in MayRefer, <<b, c>> \in MayRefer, <<c, d>> \in MayRefer, <<d, e>> \in MayRefer
    PROVE  e \notin Owning
<1>1. /\ c \in {"tenant", "manufacturer", "site", "role", "type", "device", "iface", "address", "group", "akuser", "nbuser"}
      /\ b \in {"site", "type", "device", "iface", "address"} /\ a \in {"device", "iface", "address", "primary"}
  BY DEF MayRefer
<1>2. b # "address" \/ a = "primary"
  BY DEF MayRefer
<1>3. c \in {"tenant", "manufacturer", "site", "role", "type", "device", "iface"}
  BY <1>1 DEF MayRefer
<1>4. d \in {"tenant", "manufacturer", "site", "role", "type", "device"}
  BY <1>3 DEF MayRefer
<1>5. e \in {"tenant", "manufacturer", "site", "role", "type"}
  BY <1>4 DEF MayRefer
<1> QED
  BY <1>5 DEF Owning

\* What a record refers to that outlives a deletion outlives it as well: the
\* deletion of what belongs to r is complete.
LEMMA DeleteClosed ==
    ASSUME WellFormed, Planning(recs), NEW r \in recs, Delete(r),
           NEW q \in recs \ Gone(r), NEW x \in recs, q.kind # "perm", Refers(q, x)
    PROVE  x \notin Gone(r)
<1> SUFFICES ASSUME x \in Gone(r) PROVE FALSE
  OBVIOUS
<1> DEFINE A == Hangs({r})
           B == Hangs(A)
           C == Hangs(B)
<1>0. Gone(r) = C
  BY DEF Gone
<1>1. /\ A = {r} \cup {y \in recs : y.kind # "perm" /\ \E z \in {r} : Refers(y, z)}
      /\ B = A \cup {y \in recs : y.kind # "perm" /\ \E z \in A : Refers(y, z)}
      /\ C = B \cup {y \in recs : y.kind # "perm" /\ \E z \in B : Refers(y, z)}
  BY DEF Hangs
<1> HIDE DEF A, B, C
<1>2. A \subseteq recs /\ B \subseteq recs /\ A \subseteq B
  BY <1>1
<1>3. x \in C /\ q \notin C
  BY <1>0
<1>4. x \notin B
  BY <1>1, <1>3
<1>5. PICK y \in B : x.kind # "perm" /\ Refers(x, y)
  BY <1>1, <1>3, <1>4
<1>6. y \notin A
  BY <1>1, <1>4, <1>5
<1>7. PICK z \in A : y.kind # "perm" /\ Refers(y, z)
  BY <1>1, <1>6
<1>8. z # r
  BY <1>1, <1>2, <1>6, <1>7
<1>9. z.kind # "perm" /\ Refers(z, r)
  BY <1>1, <1>8
<1>10. r.kind \in Owning
  BY <1>2, <1>9 DEF Delete
<1>11. /\ <<q.kind, x.kind>> \in MayRefer /\ <<x.kind, y.kind>> \in MayRefer
       /\ <<y.kind, z.kind>> \in MayRefer /\ <<z.kind, r.kind>> \in MayRefer
  BY <1>2, <1>5, <1>7, <1>9, RefersTo
<1> QED
  BY <1>10, <1>11, Chains

\* A record stays planned when what it refers to stays.
LEMMA StaysPlanned ==
    ASSUME WellFormed, NEW R, NEW q \in recs, PlannedIn(recs, q),
           \A x \in recs : q.kind # "perm" /\ Refers(q, x) =>
               \E y \in R : y.id = x.id /\ y.kind = x.kind /\ y.name = x.name,
           \A x \in recs : q.kind \in {"address", "primary"} /\ Refers(q, x) => x \in R,
           \A x, i \in recs : q.kind = "primary" /\ Refers(q, x) /\ Refers(x, i) => i \in R
    PROVE  PlannedIn(R, q)
<1>1. PICK j \in Places : Stands(recs, q, Plan[j])
  BY DEF PlannedIn
<1>2. Stands(R, q, Plan[j])
  <2> SUFFICES ASSUME q.kind \notin {"address", "perm"}, NEW k \in 1..Len(Plan[j].refs)
               PROVE  Denotes(R, Plan[j].refs[k], q.refs[k])
    BY <1>1 DEF Stands
  <2>1. Len(q.refs) = Len(Plan[j].refs) /\ Denotes(recs, Plan[j].refs[k], q.refs[k])
    BY <1>1 DEF Stands
  <2>2. PICK x \in recs, i \in Places :
           Plan[i].label = Plan[j].refs[k] /\ x.id = q.refs[k] /\ x.kind = Plan[i].kind /\ x.name = Plan[i].name
    BY <2>1 DEF Denotes
  <2>3. Refers(q, x)
    BY <2>1, <2>2 DEF Refers
  <2> QED
    BY <2>2, <2>3 DEF Denotes
<1>3. ASSUME q.kind = "address"
      PROVE  OnSomeIface(R, q)
  <2>1. PICK i \in recs : i.kind = "iface" /\ q.refs = <<i.id>>
    BY <1>3 DEF PlannedIn, OnSomeIface
  <2>2. Refers(q, i)
    BY <2>1 DEF Refers
  <2> QED
    BY <1>3, <2>1, <2>2 DEF OnSomeIface
<1>4. ASSUME q.kind = "primary"
      PROVE  OnOwnIface(R, q)
  <2>1. PICK a \in recs, i \in recs : /\ a.id = q.refs[2] /\ a.kind = "address" /\ i.kind = "iface"
                                      /\ a.refs = <<i.id>> /\ i.refs = <<q.refs[1]>>
    BY <1>4 DEF PlannedIn, OnOwnIface
  <2>2. Refers(a, i)
    BY <2>1 DEF Refers
  <2>3. Len(q.refs) = 2
    <3>1. Plan[j].kind = "primary" /\ Len(q.refs) = Len(Plan[j].refs)
      BY <1>1, <1>4 DEF Stands
    <3>2. Plan[j].refs = <<<<"device", Plan[j].name>>, <<"address", Plan[j].name>>>>
      BY <3>1, PlaceFacts, FormRefs
    <3> QED
      BY <3>1, <3>2
  <2>4. Refers(q, a)
    BY <2>1, <2>3 DEF Refers
  <2>5. a \in R /\ i \in R
    BY <1>4, <2>2, <2>4
  <2> QED
    BY <2>1, <2>5 DEF OnOwnIface
<1> QED
  BY <1>2, <1>3, <1>4 DEF PlannedIn

\* What an operator leaves is planned, if nothing is left without what it
\* refers to.
LEMMA LeavesPlanning ==
    ASSUME WellFormed, Planning(recs), NEW S, NEW f, Leaves(S, f),
           \A q \in S, x \in recs : q.kind # "perm" /\ Refers(q, x) => x \in S
    PROVE  Planning(recs')
<1>1. /\ S \subseteq recs /\ recs' = {f[q] : q \in S}
      /\ \A q \in S : /\ f[q].id = q.id /\ f[q].kind = q.kind /\ f[q].name = q.name
                      /\ q.kind \notin {"perm", "address"} => f[q] = q
                      /\ q.kind = "address" /\ f[q] # q =>
                            /\ S = recs /\ \E i \in recs : i.kind = "iface" /\ f[q].refs = <<i.id>>
                            /\ ~\E p \in recs : p.kind = "primary" /\ Refers(p, q)
  BY DEF Leaves
<1>2. ASSUME NEW q \in S
      PROVE  PlannedIn(recs', f[q])
  <2>1. PlannedIn(recs, q) /\ q \in recs
    BY <1>1, <1>2 DEF Planning, PlannedIn
  <2>2. CASE q.kind = "perm"
    <3>1. PICK j \in Places : Stands(recs, q, Plan[j])
      BY <2>1 DEF PlannedIn
    <3>2. Stands(recs', f[q], Plan[j])
      BY <1>1, <1>2, <2>2, <3>1 DEF Stands
    <3> QED
      BY <1>1, <2>2, <3>2 DEF PlannedIn
  <2>3. CASE q.kind = "address" /\ f[q] # q
    <3>1. PICK j \in Places : Stands(recs, q, Plan[j])
      BY <2>1 DEF PlannedIn
    <3>2. Stands(recs', f[q], Plan[j])
      BY <1>1, <1>2, <2>3, <3>1 DEF Stands
    <3>3. PICK i \in recs : i.kind = "iface" /\ f[q].refs = <<i.id>> /\ i \in S
      BY <1>1, <2>3
    <3>4. i \in recs'
      BY <1>1, <3>3
    <3>5. OnSomeIface(recs', f[q])
      BY <3>3, <3>4 DEF OnSomeIface
    <3> QED
      BY <1>1, <2>3, <3>2, <3>5 DEF PlannedIn
  <2>4. CASE q.kind # "perm" /\ f[q] = q
    <3>1. \A x \in recs : Refers(q, x) => f[x] \in recs' /\ f[x].id = x.id /\ f[x].kind = x.kind /\ f[x].name = x.name
      BY <1>1, <2>4
    <3>2. ASSUME q.kind \in {"address", "primary"}, NEW x \in recs, Refers(q, x)
          PROVE  x \in recs' /\ x \in S /\ x.kind # "perm"
      <4>1. x \in S /\ <<q.kind, x.kind>> \in MayRefer
        BY <2>1, <2>4, <3>2, RefersTo
      <4>2. x.kind # "perm" /\ (x.kind = "address" => q.kind = "primary")
        BY <4>1 DEF MayRefer
      <4>3. f[x] = x
        BY <1>1, <2>1, <3>2, <4>1, <4>2
      <4> QED
        BY <1>1, <4>1, <4>2, <4>3
    <3>3. ASSUME q.kind = "primary", NEW x \in recs, NEW i \in recs, Refers(q, x), Refers(x, i)
          PROVE  i \in recs'
      <4>1. x \in S /\ x.kind # "perm" /\ <<q.kind, x.kind>> \in MayRefer
        BY <2>1, <2>4, <3>2, <3>3, RefersTo
      <4>2. i \in S /\ <<x.kind, i.kind>> \in MayRefer
        BY <3>3, <4>1, RefersTo
      <4>3. i.kind \notin {"perm", "address"}
        BY <3>3, <4>1, <4>2 DEF MayRefer
      <4> QED
        BY <1>1, <4>2, <4>3
    <3> QED
      BY <2>1, <2>4, <3>1, <3>2, <3>3, StaysPlanned
  <2> QED
    BY <1>1, <2>2, <2>3, <2>4
<1>3. \A r \in recs' : PlannedIn(recs', r)
  BY <1>1, <1>2
<1> QED
  BY <1>3 DEF Planning, PlannedIn

-----------------------------------------------------------------------------
(* Nothing is made twice.                                                  *)

\* What is referred to by a record that NetBox or Authentik accepts is what
\* the plan says.
LEMMA AcceptedRefs ==
    ASSUME WellFormed, Knowing, at \in Places, Accepted(Here), NEW m \in 1..Len(Here.refs)
    PROVE  \E x \in recs, j \in Behind :
              /\ x.id = RefIds(Here)[m] /\ Plan[j].label = Here.refs[m]
              /\ <<Here.kind, Plan[j].kind>> \in MayRefer
              /\ x.kind = Plan[j].kind /\ x.name = Plan[j].name
<1>1. at <= at /\ Here = Plan[at]
  BY PlaceFacts DEF Here
<1>2. PICK j \in Behind : Plan[j].label = Here.refs[m] /\ <<Here.kind, Plan[j].kind>> \in MayRefer
  BY <1>1, RefsBehind
<1>3. m \in 1..Len(RefIds(Here)) /\ RefIds(Here)[m] = got[Here.refs[m]]
  BY <1>1, RefIdsAre
<1>4. PICK x \in recs : x.id = RefIds(Here)[m]
  BY <1>3 DEF Accepted
<1>5. Plan[j].kind \in Referred
  BY <1>2 DEF MayRefer, Referred
<1>6. x.kind = Plan[j].kind /\ x.name = Plan[j].name
  BY <1>2, <1>3, <1>4, <1>5 DEF Knowing, Knows
<1> QED
  BY <1>2, <1>4, <1>6

\* A label that is not one of an interface stands for one record.
LEMMA Unambiguous ==
    ASSUME WellFormed, NoDuplicates, NEW l, NEW a, NEW b, Denotes(recs, l, a), Denotes(recs, l, b), l[1] # "iface"
    PROVE  a = b
<1>1. PICK x \in recs, i \in Places :
         Plan[i].label = l /\ x.id = a /\ x.kind = Plan[i].kind /\ x.name = Plan[i].name
  BY DEF Denotes
<1>2. PICK y \in recs, j \in Places :
         Plan[j].label = l /\ y.id = b /\ y.kind = Plan[j].kind /\ y.name = Plan[j].name
  BY DEF Denotes
<1>3. Plan[i].kind = Plan[j].kind /\ Plan[i].name = Plan[j].name
  BY <1>1, <1>2, PlaceFacts, SameLabel
<1>4. Plan[i].kind # "iface"
  BY <1>1, PlaceFacts, LabelKind
<1>5. x = y
  BY <1>1, <1>2, <1>3, <1>4 DEF NoDuplicates
<1> QED
  BY <1>1, <1>2, <1>5

\* Two records of a step that says which by its name refer to the same, as
\* far as those are not interfaces.
LEMMA SameRefs ==
    ASSUME WellFormed, Planning(recs), NoDuplicates, Knowing, at \in Places, Accepted(Here),
           Here.kind \in {"member", "primary"}, NEW q \in recs, q.kind = Here.kind, q.name = Here.name
    PROVE  /\ Len(q.refs) = Len(Here.refs)
           /\ \A m \in 1..Len(Here.refs) : q.refs[m] = RefIds(Here)[m]
<1>1. PICK j \in Places : Stands(recs, q, Plan[j])
  BY DEF Planning
<1>2. Plan[j] = Here
  BY <1>1, PlaceFacts, SameName DEF Stands, Here
<1>3. Len(q.refs) = Len(Here.refs) /\ \A m \in 1..Len(Here.refs) : Denotes(recs, Here.refs[m], q.refs[m])
  BY <1>1, <1>2 DEF Stands
<1>4. ASSUME NEW m \in 1..Len(Here.refs)
      PROVE  q.refs[m] = RefIds(Here)[m]
  <2>1. PICK x \in recs, i \in Behind :
              /\ x.id = RefIds(Here)[m] /\ Plan[i].label = Here.refs[m]
              /\ <<Here.kind, Plan[i].kind>> \in MayRefer
              /\ x.kind = Plan[i].kind /\ x.name = Plan[i].name
    BY AcceptedRefs
  <2>2. i \in Places
    BY PlaceFacts
  <2>3. Denotes(recs, Here.refs[m], RefIds(Here)[m])
    BY <2>1, <2>2 DEF Denotes
  <2>4. Here.refs[m][1] # "iface"
    <3>1. Plan[i].kind # "iface"
      BY <2>1 DEF MayRefer
    <3> QED
      BY <2>1, <2>2, <3>1, PlaceFacts, LabelKind
  <2> QED
    BY <1>3, <2>3, <2>4, Unambiguous
<1> QED
  BY <1>3, <1>4

\* Only primary addresses are replaced.
LEMMA OldPrimary == \A x \in Old : x \in recs /\ x.kind = "primary"
BY DEF Old

\* The record that is made is the planned one.
LEMMA NewStands ==
    ASSUME WellFormed, Knowing, at \in Places, Accepted(Here), NEW R, recs \ Old \subseteq R
    PROVE  Stands(R, New, Here) /\ PlannedIn(R, New)
<1>1. New.kind = Here.kind /\ New.name = Here.name /\ New.refs = RefIds(Here) /\ Here = Plan[at]
  BY NewType DEF Here
<1>2. Len(RefIds(Here)) = Len(Here.refs) /\ Len(Here.refs) \in Nat
  BY <1>1, PlaceFacts, RefIdsAre
<1>3. ASSUME NEW m \in 1..Len(Here.refs)
      PROVE  \E x \in R, j \in Places :
                /\ x.id = RefIds(Here)[m] /\ Plan[j].label = Here.refs[m] /\ <<Here.kind, Plan[j].kind>> \in MayRefer
                /\ x.kind = Plan[j].kind /\ x.name = Plan[j].name /\ x \in recs /\ Here.refs[m][1] = x.kind
  <2>1. PICK x \in recs, j \in Behind :
              /\ x.id = RefIds(Here)[m] /\ Plan[j].label = Here.refs[m]
              /\ <<Here.kind, Plan[j].kind>> \in MayRefer
              /\ x.kind = Plan[j].kind /\ x.name = Plan[j].name
    BY AcceptedRefs
  <2>2. x.kind # "primary"
    BY <2>1 DEF MayRefer
  <2>3. x \in R /\ j \in Places
    BY <2>2, OldPrimary, PlaceFacts
  <2>4. Here.refs[m][1] = x.kind
    BY <2>1, <2>3, PlaceFacts, LabelKind
  <2> QED
    BY <2>1, <2>3, <2>4
<1>4. Stands(R, New, Here)
  <2>1. \A m \in 1..Len(Here.refs) : Denotes(R, Here.refs[m], RefIds(Here)[m])
    BY <1>3 DEF Denotes
  <2> QED
    BY <1>1, <1>2, <2>1 DEF Stands
<1>5. ASSUME Here.kind = "address"
      PROVE  OnSomeIface(R, New)
  <2>1. Len(Here.refs) = 1
    BY <1>1, <1>5, PlaceFacts, FormRefs
  <2>2. PICK x \in R : x.id = RefIds(Here)[1] /\ <<"address", x.kind>> \in MayRefer
    BY <1>3, <1>5, <2>1
  <2>3. x.kind = "iface"
    BY <2>2 DEF MayRefer
  <2>4. RefIds(Here) \in Seq(Nat)
    BY <1>1, PlaceFacts, RefIdsAre
  <2>5. RefIds(Here) = <<x.id>>
    <3> DEFINE rs == RefIds(Here)
    <3>1. rs \in Seq(Nat) /\ Len(rs) = 1 /\ rs[1] = x.id
      BY <1>2, <2>1, <2>2, <2>4
    <3> HIDE DEF rs
    <3>2. rs = <<x.id>>
      BY <3>1
    <3> QED
      BY <3>2 DEF rs
  <2> QED
    BY <1>1, <2>2, <2>3, <2>5 DEF OnSomeIface
<1>6. ASSUME Here.kind = "primary"
      PROVE  OnOwnIface(R, New)
  <2>1. Here.refs = <<<<"device", Here.name>>, <<"address", Here.name>>>>
    BY <1>1, <1>6, PlaceFacts, FormRefs
  <2>2. Len(Here.refs) = 2 /\ Here.refs[2][1] = "address"
    BY <2>1
  <2>3. PICK x \in R : x.id = RefIds(Here)[2] /\ x.kind = "address" /\ x \in recs
    <3>1. 2 \in 1..Len(Here.refs)
      BY <2>2
    <3>2. PICK x \in R : x.id = RefIds(Here)[2] /\ x \in recs /\ Here.refs[2][1] = x.kind
      BY <1>3, <3>1
    <3> QED
      BY <2>2, <3>2
  <2>4. PICK a \in recs, i \in recs : /\ a.id = RefIds(Here)[2] /\ i.kind = "iface"
                                      /\ a.refs = <<i.id>> /\ i.refs = <<RefIds(Here)[1]>>
    BY <1>6 DEF Accepted
  <2>5. a = x
    BY <2>3, <2>4 DEF WellFormed
  <2>6. a \in R /\ i \in R
    BY <2>3, <2>4, <2>5, OldPrimary
  <2> QED
    BY <1>1, <2>3, <2>4, <2>5, <2>6 DEF OnOwnIface
<1> QED
  BY <1>1, <1>4, <1>5, <1>6 DEF PlannedIn

\* After a record is made, all are planned.
LEMMA AfterPlanning ==
    ASSUME WellFormed, Planning(recs), Knowing, at \in Places, Accepted(Here)
    PROVE  Planning(After(Here))
<1>1. CASE After(Here) = recs
  BY <1>1
<1>2. CASE After(Here) = (recs \ Old) \cup {New}
  <2> DEFINE R == (recs \ Old) \cup {New}
  <2>1. PlannedIn(R, New)
    BY NewStands
  <2>2. ASSUME NEW q \in recs \ Old
        PROVE  PlannedIn(R, q)
    <3>1. PlannedIn(recs, q)
      BY DEF Planning, PlannedIn
    <3>2. \A y \in recs : y.kind # "primary" => y \in R
      BY OldPrimary
    <3> HIDE DEF R
    <3>3. ASSUME NEW p \in recs, p.kind # "perm", NEW x \in recs, Refers(p, x)
          PROVE  x \in R /\ x.kind \in Referred /\ <<p.kind, x.kind>> \in MayRefer
      <4>1. <<p.kind, x.kind>> \in MayRefer
        BY <3>3, RefersTo
      <4>2. x.kind \in Referred /\ x.kind # "primary"
        BY <4>1 DEF MayRefer, Referred
      <4> QED
        BY <3>2, <4>1, <4>2
    <3>4. \A x, i \in recs : q.kind = "primary" /\ Refers(q, x) /\ Refers(x, i) => i \in R
      <4> SUFFICES ASSUME NEW x \in recs, NEW i \in recs, q.kind = "primary", Refers(q, x), Refers(x, i)
                   PROVE  i \in R
        OBVIOUS
      <4>1. x.kind # "perm"
        BY <3>3 DEF Referred
      <4> QED
        BY <3>3, <4>1
    <3> QED
      BY <3>1, <3>3, <3>4, StaysPlanned
  <2> QED
    BY <1>2, <2>1, <2>2 DEF Planning, PlannedIn
<1> QED
  BY <1>1, <1>2, AfterIs

\* After a record is made, none is there twice.
LEMMA AfterUnique ==
    ASSUME WellFormed, Integrity, pc = "create", at \in Places, Accepted(Here),
           NEW r \in After(Here), NEW q \in After(Here),
           r.kind = q.kind, r.name = q.name, r.kind = "iface" => r.refs = q.refs
    PROVE  r = q
<1>0. Planning(recs) /\ Knowing /\ NoDuplicates /\ (Here.kind # "primary" => Found(Here) = {})
  BY DEF Integrity, Absence
<1>1. CASE After(Here) = recs
  BY <1>0, <1>1 DEF NoDuplicates
<1>2. CASE After(Here) = (recs \ Old) \cup {New}
  <2>1. ASSUME NEW p \in recs \ Old, p.kind = New.kind, p.name = New.name, p.kind = "iface" => p.refs = New.refs
        PROVE  FALSE
    <3>1. p.kind = Here.kind /\ p.name = Here.name /\ New.refs = RefIds(Here)
      BY <2>1, NewType
    <3>2. Here = Plan[at] /\ Len(Here.refs) \in Nat /\ RefIds(Here) \in Seq(Nat) /\ Len(RefIds(Here)) = Len(Here.refs)
      BY PlaceFacts, RefIdsAre DEF Here
    <3>3. CASE Here.kind = "member"
      <4>1. Len(p.refs) = Len(Here.refs) /\ \A m \in 1..Len(Here.refs) : p.refs[m] = RefIds(Here)[m]
        BY <1>0, <3>1, <3>3, SameRefs
      <4>2. p.refs \in Seq(Nat)
        BY DEF WellFormed, Record
      <4>3. p.refs = RefIds(Here)
        <5> DEFINE u == p.refs
                   v == RefIds(Here)
        <5>1. u \in Seq(Nat) /\ v \in Seq(Nat) /\ Len(u) = Len(v) /\ \A m \in 1..Len(v) : u[m] = v[m]
          BY <3>2, <4>1, <4>2
        <5> HIDE DEF u, v
        <5>2. u = v
          BY <5>1, SeqEqual
        <5> QED
          BY <5>2 DEF u, v
      <4>4. p \in Found(Here)
        BY <3>1, <4>3 DEF Found
      <4> QED
        BY <1>0, <3>3, <4>4
    <3>4. CASE Here.kind = "primary"
      <4>1. Here.refs = <<<<"device", Here.name>>, <<"address", Here.name>>>>
        BY <3>2, <3>4, PlaceFacts, FormRefs
      <4>2. Len(Here.refs) = 2
        BY <4>1
      <4>3. p.refs[1] = RefIds(Here)[1]
        BY <1>0, <3>1, <3>4, <4>2, SameRefs
      <4> QED
        BY <3>1, <3>4, <4>3 DEF Old
    <3>5. CASE Here.kind \notin {"member", "primary"}
      <4>1. p \in Found(Here)
        BY <2>1, <3>1, <3>5 DEF Found
      <4> QED
        BY <1>0, <3>5, <4>1
    <3> QED
      BY <3>3, <3>4, <3>5
  <2>2. r \in recs \ Old \/ r = New
    BY <1>2
  <2>3. q \in recs \ Old \/ q = New
    BY <1>2
  <2>4. CASE r \in recs \ Old /\ q \in recs \ Old
    BY <1>0, <2>4 DEF NoDuplicates
  <2> QED
    BY <2>1, <2>2, <2>3, <2>4
<1> QED
  BY <1>1, <1>2, AfterIs

\* A run that goes on knows what it is through with.
LEMMA KnowsOn ==
    ASSUME WellFormed, at \in Places, tool' = tool, Knowing, NEW id, NEW key, GoesOn(id, key),
           \A x \in recs' : x.id = id => x.kind = Here.kind /\ x.name = Here.name,
           \A x \in recs' : x.id \in 1..(nextId - 1) => x \in recs
    PROVE  Knowing'
<1>1. Plan' = Plan /\ Places' = Places
  BY SamePlan
<1>2. Behind' = Behind \cup {at}
  <2>1. at \in Nat /\ at >= 1 /\ at' = at + 1
    BY PlaceFacts DEF GoesOn
  <2> QED
    BY <2>1 DEF Behind
<1>3. got \in [{Plan[i].label : i \in Behind} -> 1..(nextId - 1)]
  BY DEF WellFormed
<1>4. got' = [y \in DOMAIN got \cup {Here.label} |-> IF y = Here.label THEN id ELSE got[y]]
  BY DEF GoesOn, Bind
<1> SUFFICES ASSUME NEW i \in Behind', Plan[i].kind \in Referred, NEW x \in recs', x.id = got'[Plan[i].label]
             PROVE  x.kind = Plan[i].kind /\ x.name = Plan[i].name
  BY <1>1 DEF Knowing, Knows
<1>5. i \in Places
  BY <1>2, PlaceFacts
<1>6. CASE Plan[i].label = Here.label
  <2>1. x.kind = Here.kind /\ x.name = Here.name
    BY <1>4, <1>6
  <2> QED
    BY <1>5, <1>6, <2>1, PlaceFacts, SameLabel DEF Here
<1>7. CASE Plan[i].label # Here.label
  <2>1. i \in Behind
    BY <1>2, <1>7 DEF Here
  <2>2. got'[Plan[i].label] = got[Plan[i].label] /\ got[Plan[i].label] \in 1..(nextId - 1)
    BY <1>3, <1>4, <1>7, <2>1
  <2> QED
    BY <2>1, <2>2 DEF Knowing, Knows
<1> QED
  BY <1>6, <1>7

\* The plan being the same, records are planned next as they are now.
LEMMA PlanningNext ==
    ASSUME tool' = tool, Planning(recs')
    PROVE  Planning(recs)'
<1>1. Plan' = Plan /\ Places' = Places
  BY SamePlan
<1>2. ASSUME NEW r \in recs'
      PROVE  /\ \E j \in Places' : Stands(recs, r, Plan[j])'
             /\ r.kind = "address" => OnSomeIface(recs, r)'
             /\ r.kind = "primary" => OnOwnIface(recs, r)'
  <2>1. PICK j \in Places : Stands(recs', r, Plan[j])
    BY DEF Planning
  <2>2. Stands(recs, r, Plan[j])'
    BY <1>1, <2>1 DEF Stands, Denotes
  <2>3. (r.kind = "address" => OnSomeIface(recs', r)) /\ (r.kind = "primary" => OnOwnIface(recs', r))
    BY DEF Planning
  <2> QED
    BY <1>1, <2>2, <2>3 DEF OnSomeIface, OnOwnIface
<1> QED
  BY <1>2 DEF Planning

\* What an operator leaves: planned records, none twice.
LEMMA OperatorLeaves ==
    ASSUME WellFormed, Planning(recs), Operator
    PROVE  Edits /\ Planning(recs') /\ \E S, f : Leaves(S, f)
<1>1. Edits
  BY DEF Operator, Delete, MoveAddress
<1>2. CASE \E r \in recs : Delete(r)
  <2>1. PICK r \in recs : Delete(r)
    BY <1>2
  <2>2. PICK f : Leaves(recs \ Gone(r), f)
    BY <2>1, DeleteLeaves
  <2>3. \A q \in recs \ Gone(r), x \in recs : q.kind # "perm" /\ Refers(q, x) => x \in recs \ Gone(r)
    BY <2>1, DeleteClosed
  <2> QED
    BY <1>1, <2>2, <2>3, LeavesPlanning
<1>3. CASE \E r, i \in recs : MoveAddress(r, i)
  <2>1. PICK f : Leaves(recs, f)
    BY <1>3, MoveLeaves
  <2> QED
    BY <1>1, <2>1, LeavesPlanning
<1> QED
  BY <1>2, <1>3 DEF Operator

\* There is nothing at the beginning.
LEMMA IntegrityInit ==
    ASSUME Init
    PROVE  Integrity
<1>1. recs = {} /\ at = 1 /\ pc = "idle"
  BY DEF Init
<1>2. Behind = {}
  BY <1>1 DEF Behind
<1> QED
  BY <1>1, <1>2 DEF Integrity, Planning, Knowing, Absence, NoDuplicates

\* Every step leaves planned records, none of them twice.
LEMMA IntegrityStep ==
    ASSUME WellFormed, Integrity, [Next]_vars
    PROVE  Integrity'
<1>0. Planning(recs) /\ Knowing /\ Absence /\ NoDuplicates
  BY DEF Integrity
<1>1. /\ pc \in {"lookup", "create"} => at \in Places
      /\ nextId \in Nat /\ nextId >= 1 /\ (\A r \in recs : r.id \in 1..(nextId - 1))
      /\ \A r, q \in recs : r.id = q.id => r = q
      /\ got \in [{Plan[i].label : i \in Behind} -> 1..(nextId - 1)]
  BY DEF WellFormed
<1>2. ASSUME tool' = tool, recs' = recs
      PROVE  Planning(recs)' /\ NoDuplicates'
  <2>1. Planning(recs')
    BY <1>0, <1>2
  <2> QED
    BY <1>0, <1>2, <2>1, PlanningNext DEF NoDuplicates
<1>3. ASSUME tool' = tool, UNCHANGED <<at, got>>, \A x \in recs' : x.id \in 1..(nextId - 1) => x \in recs
      PROVE  Knowing'
  <2>1. Plan' = Plan /\ Behind' = Behind
    BY <1>3, SamePlan DEF Behind
  <2> SUFFICES ASSUME NEW i \in Behind, Plan[i].kind \in Referred, NEW x \in recs', x.id = got[Plan[i].label]
               PROVE  x.kind = Plan[i].kind /\ x.name = Plan[i].name
    BY <1>3, <2>1 DEF Knowing, Knows
  <2>2. x \in recs
    BY <1>1, <1>3
  <2> QED
    BY <1>0, <2>2 DEF Knowing, Knows
<1>4. ASSUME pc' # "create"
      PROVE  Absence'
  BY <1>4 DEF Absence
<1>5. CASE Run
  <2>1. UNCHANGED <<tool, recs>> /\ at' = 1 /\ pc' # "create"
    BY <1>5 DEF Run
  <2>2. Behind' = {}
    BY <2>1 DEF Behind
  <2>3. Knowing'
    BY <2>2 DEF Knowing
  <2> QED
    BY <1>2, <1>4, <2>1, <2>3 DEF Integrity
<1>6. CASE Lookup
  <2>1. pc = "lookup" /\ UNCHANGED <<tool, recs, nextId>> /\ at \in Places
    BY <1>1, <1>6 DEF Lookup
  <2>2. CASE \E r \in Found(Here) : GoesOn(r.id, Placeholder)
    <3>1. PICK r \in Found(Here) : GoesOn(r.id, Placeholder)
      BY <2>2
    <3>2. r \in recs /\ r.kind = Here.kind /\ r.name = Here.name
      BY DEF Found
    <3>3. \A x \in recs' : x.id = r.id => x.kind = Here.kind /\ x.name = Here.name
      BY <1>1, <2>1, <3>2
    <3>4. Knowing'
      BY <1>0, <2>1, <3>1, <3>3, KnowsOn
    <3>5. pc' # "create"
      BY <3>1 DEF GoesOn
    <3> QED
      BY <1>2, <1>4, <2>1, <3>4, <3>5 DEF Integrity
  <2>3. CASE /\ Here.kind = "primary" \/ Found(Here) = {} \/ pc' = "failed"
             /\ UNCHANGED <<at, got>>
    <3>1. Knowing'
      BY <1>3, <2>1, <2>3
    <3>2. Absence'
      <4>1. Here' = Here
        BY <2>1, <2>3, SamePlan DEF Here
      <4>2. Found(Here)' = Found(Here)
        BY <2>1, <2>3, <4>1 DEF Found, RefIds
      <4> QED
        BY <2>3, <4>1, <4>2 DEF Absence
    <3> QED
      BY <1>2, <2>1, <3>1, <3>2 DEF Integrity
  <2> QED
    BY <1>6, <2>2, <2>3 DEF Lookup
<1>7. CASE Create
  <2>1. pc = "create" /\ UNCHANGED tool /\ at \in Places
    BY <1>1, <1>7 DEF Create
  <2>2. CASE Accepted(Here) /\ recs' = After(Here)
    <3>1. Planning(recs)'
      BY <1>0, <2>1, <2>2, AfterPlanning, PlanningNext
    <3>2. NoDuplicates'
      BY <2>1, <2>2, AfterUnique DEF NoDuplicates
    <3>3. \A x \in recs' : x \in recs \/ x = New
      BY <2>1, <2>2, AfterIs
    <3>4. New.id = nextId /\ New.kind = Here.kind /\ New.name = Here.name
      BY <2>1, NewType
    <3>5. \A x \in recs' : x.id \in 1..(nextId - 1) => x \in recs
      BY <1>1, <3>3, <3>4
    <3>6. CASE GoesOn(nextId, nextId)
      <4>1. \A x \in recs' : x.id = nextId => x.kind = Here.kind /\ x.name = Here.name
        BY <1>1, <3>3, <3>4
      <4>2. Knowing'
        BY <1>0, <2>1, <3>5, <3>6, <4>1, KnowsOn
      <4>3. pc' # "create"
        BY <3>6 DEF GoesOn
      <4> QED
        BY <1>4, <3>1, <3>2, <4>2, <4>3 DEF Integrity
    <3>7. CASE pc' = "failed" /\ UNCHANGED <<at, got>>
      <4>1. Knowing'
        BY <1>3, <2>1, <3>5, <3>7
      <4> QED
        BY <1>4, <3>1, <3>2, <3>7, <4>1 DEF Integrity
    <3> QED
      BY <1>7, <2>2, <3>6, <3>7 DEF Create
  <2>3. CASE pc' = "failed" /\ UNCHANGED <<recs, at, got>>
    <3>1. Knowing'
      BY <1>3, <2>1, <2>3
    <3> QED
      BY <1>2, <1>4, <2>1, <2>3, <3>1 DEF Integrity
  <2> QED
    BY <1>7, <2>2, <2>3 DEF Create
<1>8. CASE Operator
  <2>1. Edits /\ Planning(recs') /\ \E S, f : Leaves(S, f)
    BY <1>0, <1>8, OperatorLeaves
  <2>2. UNCHANGED <<tool, pc, at, got>>
    BY <2>1 DEF Edits
  <2>3. PICK S, f : Leaves(S, f)
    BY <2>1
  <2>4. /\ S \subseteq recs /\ recs' = {f[q] : q \in S}
        /\ \A q \in S : /\ f[q].id = q.id /\ f[q].kind = q.kind /\ f[q].name = q.name
                        /\ q.kind \notin {"perm", "address"} => f[q] = q
    BY <2>3 DEF Leaves
  <2>5. NoDuplicates'
    <3> SUFFICES ASSUME NEW q \in S, NEW p \in S, f[q].kind = f[p].kind, f[q].name = f[p].name,
                        f[q].kind = "iface" => f[q].refs = f[p].refs
                 PROVE  f[q] = f[p]
      BY <2>4 DEF NoDuplicates
    <3>1. q.kind = p.kind /\ q.name = p.name /\ (q.kind = "iface" => q.refs = p.refs)
      BY <2>4
    <3>2. q = p
      BY <1>0, <2>4, <3>1 DEF NoDuplicates
    <3> QED
      BY <3>2
  <2>6. Knowing'
    <3>1. Plan' = Plan /\ Behind' = Behind
      BY <2>2, SamePlan DEF Behind
    <3> SUFFICES ASSUME NEW i \in Behind, Plan[i].kind \in Referred, NEW q \in S, f[q].id = got[Plan[i].label]
                 PROVE  f[q].kind = Plan[i].kind /\ f[q].name = Plan[i].name
      BY <2>2, <2>4, <3>1 DEF Knowing, Knows
    <3> QED
      BY <1>0, <2>4 DEF Knowing, Knows
  <2>7. Absence'
    <3>1. Here' = Here /\ RefIds(Here)' = RefIds(Here)
      BY <2>2, SamePlan DEF Here, RefIds
    <3>2. ASSUME NEW q \in S, f[q].kind = Here.kind, f[q].name = Here.name,
                 Here.kind \in {"iface", "member"} => f[q].refs = RefIds(Here)
          PROVE  q \in Found(Here)
      BY <2>4, <3>2 DEF Found
    <3>3. ASSUME Found(Here) = {}
          PROVE  Found(Here)' = {}
      <4> SUFFICES ASSUME NEW q \in S, f[q] \in Found(Here)' PROVE FALSE
        BY <2>4 DEF Found
      <4> QED
        BY <3>1, <3>2, <3>3 DEF Found
    <3> QED
      BY <1>0, <2>2, <3>1, <3>3 DEF Absence
  <2> QED
    BY <2>1, <2>2, <2>5, <2>6, <2>7, PlanningNext DEF Integrity
<1>9. CASE UNCHANGED vars
  <2>1. UNCHANGED <<tool, recs, pc, at, got>>
    BY <1>9 DEF vars
  <2>2. Knowing'
    BY <1>3, <2>1
  <2>3. Absence'
    <3>1. Here' = Here
      BY <2>1, SamePlan DEF Here
    <3>2. Found(Here)' = Found(Here)
      BY <2>1, <3>1 DEF Found, RefIds
    <3> QED
      BY <1>0, <2>1, <3>1, <3>2 DEF Absence
  <2> QED
    BY <1>2, <2>1, <2>2, <2>3 DEF Integrity
<1> QED
  BY <1>5, <1>6, <1>7, <1>8, <1>9 DEF Next, Tool

\* However often runs fail, before or after a request was carried out, and
\* whatever an operator deletes or moves between a lookup and the creation
\* after it, no record is there twice.
THEOREM NothingTwice == Spec => []NoDuplicates
<1>1. Init => WellFormed /\ Integrity
  BY WellFormedInit, IntegrityInit
<1>2. WellFormed /\ Integrity /\ [Next]_vars => (WellFormed /\ Integrity)'
  BY WellFormedStep, IntegrityStep
<1>3. Integrity => NoDuplicates
  BY DEF Integrity
<1> QED
  BY <1>1, <1>2, <1>3, PTL DEF Spec

-----------------------------------------------------------------------------
(* "Seed complete." is true.                                               *)

\* As long as nobody interferes, a run knows what the steps up to here refer
\* to.
LEMMA KnownDenotes ==
    ASSUME WellFormed, Knowing, Undisturbed, ~touched, NEW k \in Places, k <= at, NEW m \in 1..Len(Plan[k].refs)
    PROVE  Denotes(recs, Plan[k].refs[m], RefIds(Plan[k])[m])
<1>1. PICK j \in Behind : Plan[j].label = Plan[k].refs[m] /\ <<Plan[k].kind, Plan[j].kind>> \in MayRefer
  BY RefsBehind
<1>2. Plan[j].kind \in Referred /\ j \in Places
  BY <1>1, PlaceFacts DEF MayRefer, Referred
<1>3. RefIds(Plan[k])[m] = got[Plan[j].label]
  BY <1>1, RefIdsAre
<1>4. PICK x \in recs : x.id = got[Plan[j].label]
  BY <1>1, <1>2 DEF Undisturbed, IsKnown
<1>5. x.kind = Plan[j].kind /\ x.name = Plan[j].name
  BY <1>1, <1>2, <1>4 DEF Knowing, Knows
<1> QED
  BY <1>1, <1>2, <1>3, <1>4, <1>5 DEF Denotes

\* A record that a step is about refers to the ids that the run knows.
LEMMA StandsRefs ==
    ASSUME WellFormed, Integrity, Undisturbed, ~touched, NEW k \in Places, k <= at,
           Plan[k].kind \in {"iface", "member", "primary"}, NEW r \in recs, Stands(recs, r, Plan[k])
    PROVE  r.refs = RefIds(Plan[k])
<1> DEFINE u == r.refs
           v == RefIds(Plan[k])
<1>0. Knowing /\ NoDuplicates
  BY DEF Integrity
<1>1. v \in Seq(Nat) /\ Len(v) = Len(Plan[k].refs)
  BY RefIdsAre
<1>2. u \in Seq(Nat)
  BY DEF WellFormed, Record
<1>3. Len(u) = Len(Plan[k].refs) /\ \A m \in 1..Len(Plan[k].refs) : Denotes(recs, Plan[k].refs[m], u[m])
  BY DEF Stands
<1>4. ASSUME NEW m \in 1..Len(Plan[k].refs)
      PROVE  u[m] = v[m]
  <2>1. Denotes(recs, Plan[k].refs[m], v[m])
    BY <1>0, KnownDenotes
  <2>2. Plan[k].refs[m][1] # "iface"
    <3>1. PICK j \in Behind : Plan[j].label = Plan[k].refs[m] /\ <<Plan[k].kind, Plan[j].kind>> \in MayRefer
      BY RefsBehind
    <3>2. Plan[j].kind # "iface"
      BY <3>1 DEF MayRefer
    <3>3. j \in Places
      BY PlaceFacts
    <3> QED
      BY <3>1, <3>2, <3>3, PlaceFacts, LabelKind
  <2> QED
    BY <1>0, <1>3, <2>1, <2>2, Unambiguous
<1> HIDE DEF u, v
<1>5. u = v
  BY <1>1, <1>2, <1>3, <1>4, SeqEqual
<1> QED
  BY <1>5 DEF u, v

\* The lookup finds the record that a step is about.
LEMMA StandsFound ==
    ASSUME WellFormed, Integrity, Undisturbed, ~touched, NEW k \in Places, k <= at, IsThere(recs, k)
    PROVE  Found(Plan[k]) # {}
<1>1. PICK r \in recs : Stands(recs, r, Plan[k])
  BY DEF IsThere
<1>2. Plan[k].kind \in {"iface", "member"} => r.refs = RefIds(Plan[k])
  BY <1>1, StandsRefs
<1>3. r \in Found(Plan[k])
  BY <1>1, <1>2 DEF Stands, Found
<1> QED
  BY <1>3

\* What the lookup finds is the record that the step is about.
LEMMA FoundStands ==
    ASSUME WellFormed, Integrity, Undisturbed, ~touched, at \in Places, NEW r \in Found(Here)
    PROVE  Stands(recs, r, Here)
<1>0. Planning(recs) /\ Knowing /\ Here = Plan[at] /\ at <= at
  BY PlaceFacts DEF Integrity, Here
<1>1. r \in recs /\ r.kind = Here.kind /\ r.name = Here.name
      /\ (Here.kind \in {"iface", "member"} => r.refs = RefIds(Here))
  BY DEF Found
<1>2. CASE Here.kind \in {"address", "perm"}
  BY <1>1, <1>2 DEF Stands
<1>3. CASE Here.kind = "iface"
  <2>1. Len(RefIds(Here)) = Len(Here.refs)
    BY <1>0, RefIdsAre
  <2>2. \A m \in 1..Len(Here.refs) : Denotes(recs, Here.refs[m], RefIds(Here)[m])
    BY <1>0, KnownDenotes
  <2> QED
    BY <1>1, <1>3, <2>1, <2>2 DEF Stands
<1>4. CASE Here.kind \notin {"address", "perm", "iface"}
  <2>1. PICK j \in Places : Stands(recs, r, Plan[j])
    BY <1>0, <1>1 DEF Planning
  <2>2. Plan[j] = Here
    BY <1>0, <1>1, <1>4, <2>1, PlaceFacts, SameName DEF Stands
  <2> QED
    BY <2>1, <2>2
<1> QED
  BY <1>2, <1>3, <1>4

\* A primary address goes by the name of its device.
LEMMA PrimaryOf ==
    ASSUME WellFormed, NEW q \in recs, q.kind = "primary", NEW j \in Places, Stands(recs, q, Plan[j]),
           NEW n, Denotes(recs, <<"device", n>>, q.refs[1])
    PROVE  Plan[j].name = n
<1>1. Plan[j].refs = <<<<"device", Plan[j].name>>, <<"address", Plan[j].name>>>>
  BY PlaceFacts, FormRefs DEF Stands
<1>2. 1 \in 1..Len(Plan[j].refs) /\ Plan[j].refs[1] = <<"device", Plan[j].name>>
  BY <1>1
<1>3. Denotes(recs, <<"device", Plan[j].name>>, q.refs[1])
  BY <1>2 DEF Stands
<1>4. ASSUME NEW w, Denotes(recs, <<"device", w>>, q.refs[1])
      PROVE  \E x \in recs : x.id = q.refs[1] /\ x.name = w
  <2>1. PICK x \in recs, i \in Places :
           Plan[i].label = <<"device", w>> /\ x.id = q.refs[1] /\ x.kind = Plan[i].kind /\ x.name = Plan[i].name
    BY <1>4 DEF Denotes
  <2>2. Plan[i].kind = "device"
    BY <2>1, PlaceFacts, LabelKind
  <2>3. Plan[i].label = <<"device", Plan[i].name>>
    BY <2>2, PlaceFacts, FormRefs
  <2>4. Plan[i].name = w
    BY <2>1, <2>3
  <2> QED
    BY <2>1, <2>4
<1> QED
  BY <1>3, <1>4 DEF WellFormed

\* A step that makes the primary address of a device that has this one.
LEMMA PrimaryHere ==
    ASSUME WellFormed, Knowing, at \in Places, Accepted(Here), Here.kind = "primary",
           NEW q \in recs, q.kind = "primary", q.refs[1] = RefIds(Here)[1],
           NEW j \in Places, Stands(recs, q, Plan[j])
    PROVE  Plan[j] = Here
<1>0. Here = Plan[at]
  BY DEF Here
<1>1. Here.refs = <<<<"device", Here.name>>, <<"address", Here.name>>>>
  BY <1>0, PlaceFacts, FormRefs
<1>2. 1 \in 1..Len(Here.refs) /\ Here.refs[1] = <<"device", Here.name>>
  BY <1>1
<1>3. PICK x \in recs, i \in Behind :
              /\ x.id = RefIds(Here)[1] /\ Plan[i].label = Here.refs[1]
              /\ x.kind = Plan[i].kind /\ x.name = Plan[i].name
  BY <1>2, AcceptedRefs
<1>4. Denotes(recs, <<"device", Here.name>>, q.refs[1])
  BY <1>2, <1>3, PlaceFacts DEF Denotes
<1>5. Plan[j].name = Here.name
  BY <1>4, PrimaryOf
<1> QED
  BY <1>0, <1>5, PlaceFacts, SameName DEF Stands

\* Making a record takes no other away, save a primary address.
LEMMA AfterHas ==
    ASSUME WellFormed, at \in Places, NEW x \in recs, x.kind # "primary"
    PROVE  x \in After(Here)
BY AfterIs, OldPrimary

\* A record stands where it stood.
LEMMA StandsAfter ==
    ASSUME WellFormed, Planning(recs), at \in Places, NEW r \in recs, NEW k \in Places, Stands(recs, r, Plan[k])
    PROVE  Stands(After(Here), r, Plan[k])
<1> SUFFICES ASSUME Plan[k].kind \notin {"address", "perm"}, NEW m \in 1..Len(Plan[k].refs)
             PROVE  Denotes(After(Here), Plan[k].refs[m], r.refs[m])
  BY DEF Stands
<1>1. r.kind = Plan[k].kind /\ Len(r.refs) = Len(Plan[k].refs) /\ Denotes(recs, Plan[k].refs[m], r.refs[m])
  BY DEF Stands
<1>2. PICK x \in recs, i \in Places :
         Plan[i].label = Plan[k].refs[m] /\ x.id = r.refs[m] /\ x.kind = Plan[i].kind /\ x.name = Plan[i].name
  BY <1>1 DEF Denotes
<1>3. Refers(r, x)
  BY <1>1, <1>2 DEF Refers
<1>4. x.kind # "primary"
  BY <1>1, <1>3, RefersTo DEF MayRefer
<1>5. x \in After(Here)
  BY <1>4, AfterHas
<1> QED
  BY <1>2, <1>5 DEF Denotes

\* What is there stays there when another record is made.
LEMMA AfterKeeps ==
    ASSUME WellFormed, Integrity, at \in Places, Accepted(Here), NEW k \in Places, IsThere(recs, k)
    PROVE  IsThere(After(Here), k)
<1>0. Planning(recs) /\ Knowing
  BY DEF Integrity
<1>1. PICK r \in recs : Stands(recs, r, Plan[k])
  BY DEF IsThere
<1>2. CASE r \in After(Here)
  BY <1>0, <1>1, <1>2, StandsAfter DEF IsThere
<1>3. CASE r \notin After(Here)
  <2>1. After(Here) = (recs \ Old) \cup {New} /\ r \in Old
    BY <1>3, AfterIs
  <2>2. Here.kind = "primary" /\ r.kind = "primary" /\ r.refs[1] = RefIds(Here)[1]
    BY <2>1 DEF Old
  <2>3. Plan[k] = Here
    BY <1>0, <1>1, <2>2, PrimaryHere
  <2>4. Stands(After(Here), New, Here)
    BY <1>0, <2>1, NewStands
  <2> QED
    BY <2>1, <2>3, <2>4 DEF IsThere
<1> QED
  BY <1>2, <1>3

\* The record that is made is there.
LEMMA AfterHere ==
    ASSUME WellFormed, Integrity, pc = "create", at \in Places, Accepted(Here)
    PROVE  IsThere(After(Here), at) /\ (Here.kind # "primary" => New \in After(Here))
<1>0. Planning(recs) /\ Knowing /\ Here = Plan[at] /\ (Here.kind # "primary" => Found(Here) = {})
  BY DEF Integrity, Absence, Here
<1>1. CASE After(Here) = (recs \ Old) \cup {New}
  <2>1. Stands(After(Here), New, Here)
    BY <1>0, <1>1, NewStands
  <2> QED
    BY <1>0, <1>1, <2>1 DEF IsThere
<1>2. CASE After(Here) = recs /\ Here.kind = "primary" /\ \E r \in recs : r.kind = "primary" /\ r.refs = RefIds(Here)
  <2>1. PICK r \in recs : r.kind = "primary" /\ r.refs = RefIds(Here)
    BY <1>2
  <2>2. PICK j \in Places : Stands(recs, r, Plan[j])
    BY <1>0 DEF Planning
  <2>3. Plan[j] = Here
    BY <1>0, <1>2, <2>1, <2>2, PrimaryHere
  <2> QED
    BY <1>0, <1>2, <2>2, <2>3 DEF IsThere
<1> QED
  BY <1>0, <1>1, <1>2, AfterIs

\* The plan being the same, a record is there next as it is now.
LEMMA ThereNext ==
    ASSUME tool' = tool, NEW i, IsThere(recs', i)
    PROVE  IsThere(recs, i)'
BY SamePlan DEF IsThere, Stands, Denotes

\* A run that goes on, with id for the record here, while the others stay.
LEMMA UndisturbedOn ==
    ASSUME WellFormed, Knowing, Undisturbed, ~touched, at \in Places, tool' = tool, NEW id, NEW key, GoesOn(id, key),
           \A i \in Behind : IsThere(recs', i), IsThere(recs', at),
           \A x \in recs : x.kind # "primary" => x \in recs',
           Here.kind \in Referred => \E x \in recs' : x.id = id,
           Here.kind = "token" /\ key # Placeholder =>
               \E t \in recs' : t.kind = "token" /\ t.name = Here.name /\ t.id = key
    PROVE  Undisturbed'
<1>1. Plan' = Plan /\ Places' = Places
  BY SamePlan
<1>2. Behind' = Behind \cup {at}
  <2>1. at \in Nat /\ at >= 1 /\ at' = at + 1
    BY PlaceFacts DEF GoesOn
  <2> QED
    BY <2>1 DEF Behind
<1>3. got \in [{Plan[i].label : i \in Behind} -> 1..(nextId - 1)]
  BY DEF WellFormed
<1>4. got' = [y \in DOMAIN got \cup {Here.label} |-> IF y = Here.label THEN id ELSE got[y]]
  BY DEF GoesOn, Bind
<1>5. ASSUME NEW i \in Behind'
      PROVE  IsThere(recs, i)'
  BY <1>2, ThereNext
<1>6. ASSUME NEW i \in Behind', Plan[i].kind \in Referred
      PROVE  IsKnown(recs, i)'
  <2> SUFFICES \E x \in recs' : x.id = got'[Plan[i].label]
    BY <1>1 DEF IsKnown
  <2>0. i \in Places
    BY <1>2, PlaceFacts
  <2>1. CASE Plan[i].label = Here.label
    <3>1. Plan[i].kind = Here.kind
      BY <2>0, <2>1, PlaceFacts, SameLabel DEF Here
    <3> QED
      BY <1>4, <1>6, <2>1, <3>1
  <2>2. CASE Plan[i].label # Here.label
    <3>1. i \in Behind
      BY <1>2, <2>2 DEF Here
    <3>2. got'[Plan[i].label] = got[Plan[i].label]
      BY <1>3, <1>4, <2>2, <3>1
    <3>3. PICK x \in recs : x.id = got[Plan[i].label]
      BY <1>6, <3>1 DEF Undisturbed, IsKnown
    <3>4. x.kind \in Referred
      BY <1>6, <3>1, <3>3 DEF Knowing, Knows
    <3>5. x \in recs'
      BY <3>4 DEF Referred
    <3> QED
      BY <3>2, <3>3, <3>5
  <2> QED
    BY <2>1, <2>2
<1>7. ASSUME NEW u \in DOMAIN printed', printed'[u] # Placeholder
      PROVE  IsToken(recs, u)'
  <2> SUFFICES \E t \in recs' : t.kind = "token" /\ t.name = u /\ t.id = printed'[u]
    BY DEF IsToken
  <2>1. ASSUME u \in DOMAIN printed, printed'[u] = printed[u]
        PROVE  \E t \in recs' : t.kind = "token" /\ t.name = u /\ t.id = printed'[u]
    <3>1. PICK t \in recs : t.kind = "token" /\ t.name = u /\ t.id = printed[u]
      BY <1>7, <2>1 DEF Undisturbed, IsToken
    <3>2. t \in recs'
      BY <3>1
    <3> QED
      BY <2>1, <3>1, <3>2
  <2>2. CASE Here.kind = "token"
    <3>1. printed' = [y \in DOMAIN printed \cup {Here.name} |-> IF y = Here.name THEN key ELSE printed[y]]
      BY <2>2 DEF GoesOn, Bind
    <3>2. CASE u = Here.name
      <4>1. printed'[u] = key
        BY <3>1, <3>2
      <4> QED
        BY <1>7, <2>2, <3>2, <4>1
    <3>3. CASE u # Here.name
      <4>1. u \in DOMAIN printed /\ printed'[u] = printed[u]
        BY <1>7, <3>1, <3>3
      <4> QED
        BY <2>1, <4>1
    <3> QED
      BY <3>2, <3>3
  <2>3. CASE Here.kind # "token"
    <3>1. printed' = printed
      BY <2>3 DEF GoesOn
    <3> QED
      BY <1>7, <2>1, <3>1
  <2> QED
    BY <2>2, <2>3
<1> QED
  BY <1>1, <1>5, <1>6, <1>7 DEF Undisturbed

\* A run that stays where it is, while other records stay.
LEMMA UndisturbedHere ==
    ASSUME WellFormed, Knowing, Undisturbed, tool' = tool, UNCHANGED <<at, got, printed, touched>>,
           ~touched => \A i \in Behind : IsThere(recs', i),
           \A x \in recs : x.kind # "primary" => x \in recs'
    PROVE  Undisturbed'
<1> SUFFICES ASSUME ~touched
             PROVE  /\ \A i \in Behind : IsThere(recs, i)' /\ (Plan[i].kind \in Referred => IsKnown(recs, i)')
                    /\ \A u \in DOMAIN printed : printed[u] # Placeholder => IsToken(recs, u)'
  <2>1. Plan' = Plan /\ Behind' = Behind
    BY SamePlan DEF Behind
  <2> QED
    BY <2>1 DEF Undisturbed
<1>1. Plan' = Plan
  BY SamePlan
<1>2. \A i \in Behind : IsThere(recs, i)'
  BY ThereNext
<1>3. ASSUME NEW i \in Behind, Plan[i].kind \in Referred
      PROVE  IsKnown(recs, i)'
  <2>1. PICK x \in recs : x.id = got[Plan[i].label]
    BY <1>3 DEF Undisturbed, IsKnown
  <2>2. x.kind \in Referred
    BY <1>3, <2>1 DEF Knowing, Knows
  <2>3. x \in recs'
    BY <2>2 DEF Referred
  <2> QED
    BY <1>1, <2>1, <2>3 DEF IsKnown
<1>4. ASSUME NEW u \in DOMAIN printed, printed[u] # Placeholder
      PROVE  IsToken(recs, u)'
  <2>1. PICK t \in recs : t.kind = "token" /\ t.name = u /\ t.id = printed[u]
    BY <1>4 DEF Undisturbed, IsToken
  <2>2. t \in recs'
    BY <2>1
  <2> QED
    BY <2>1, <2>2 DEF IsToken
<1> QED
  BY <1>2, <1>3, <1>4

\* What a run is through with stays, as long as nobody interferes.
LEMMA UndisturbedStep ==
    ASSUME WellFormed, Integrity, Undisturbed, [Next]_vars
    PROVE  Undisturbed'
<1>0. Planning(recs) /\ Knowing
  BY DEF Integrity
<1>1. ~touched => \A i \in Behind : IsThere(recs, i)
  BY DEF Undisturbed
<1>2. pc \in {"lookup", "create"} => at \in Places
  BY DEF WellFormed
<1>3. CASE Run
  <2>1. at' = 1 /\ printed' = <<>>
    BY <1>3 DEF Run
  <2>2. Behind' = {} /\ DOMAIN printed' = {}
    BY <2>1 DEF Behind
  <2> QED
    BY <2>2 DEF Undisturbed
<1>4. CASE Lookup
  <2>1. pc = "lookup" /\ UNCHANGED <<tool, recs, touched>> /\ at \in Places
    BY <1>2, <1>4 DEF Lookup
  <2>2. CASE \E r \in Found(Here) : GoesOn(r.id, Placeholder)
    <3> SUFFICES ASSUME ~touched PROVE Undisturbed'
      BY <2>1 DEF Undisturbed
    <3>1. PICK r \in Found(Here) : GoesOn(r.id, Placeholder)
      BY <2>2
    <3>2. Stands(recs, r, Here) /\ r \in recs
      BY <2>1, FoundStands DEF Found
    <3>3. IsThere(recs, at)
      BY <3>2 DEF IsThere, Here
    <3>4. /\ \A i \in Behind : IsThere(recs', i)
          /\ IsThere(recs', at)
          /\ \A x \in recs : x \in recs'
          /\ r \in recs'
      BY <1>1, <2>1, <3>2, <3>3
    <3> QED
      BY <1>0, <2>1, <3>1, <3>4, UndisturbedOn
  <2>3. CASE UNCHANGED <<at, got, printed>>
    <3>1. (~touched => \A i \in Behind : IsThere(recs', i)) /\ \A x \in recs : x \in recs'
      BY <1>1, <2>1
    <3> QED
      BY <1>0, <2>1, <2>3, <3>1, UndisturbedHere
  <2> QED
    BY <1>4, <2>2, <2>3 DEF Lookup
<1>5. CASE Create
  <2>1. pc = "create" /\ UNCHANGED <<tool, touched>> /\ at \in Places
    BY <1>2, <1>5 DEF Create
  <2>2. CASE Accepted(Here) /\ recs' = After(Here)
    <3>1. ~touched => \A i \in Behind : IsThere(recs', i)
      BY <1>1, <2>1, <2>2, PlaceFacts, AfterKeeps
    <3>2. \A x \in recs : x.kind # "primary" => x \in recs'
      BY <2>1, <2>2, AfterHas
    <3>3. CASE GoesOn(nextId, nextId)
      <4> SUFFICES ASSUME ~touched PROVE Undisturbed'
        BY <2>1 DEF Undisturbed
      <4>1. IsThere(recs', at) /\ (Here.kind # "primary" => New \in recs')
        BY <2>1, <2>2, AfterHere
      <4>2. New.id = nextId /\ New.kind = Here.kind /\ New.name = Here.name
        BY <2>1, NewType
      <4>3. Here.kind \in Referred => \E x \in recs' : x.id = nextId
        BY <4>1, <4>2 DEF Referred
      <4>4. Here.kind = "token" => \E t \in recs' : t.kind = "token" /\ t.name = Here.name /\ t.id = nextId
        BY <4>1, <4>2
      <4> QED
        BY <1>0, <2>1, <3>1, <3>2, <3>3, <4>1, <4>3, <4>4, UndisturbedOn
    <3>4. CASE UNCHANGED <<at, got, printed>>
      BY <1>0, <2>1, <3>1, <3>2, <3>4, UndisturbedHere
    <3> QED
      BY <1>5, <2>2, <3>3, <3>4 DEF Create
  <2>3. CASE UNCHANGED <<recs, at, got, printed>>
    <3>1. (~touched => \A i \in Behind : IsThere(recs', i)) /\ \A x \in recs : x \in recs'
      BY <1>1, <2>3
    <3> QED
      BY <1>0, <2>1, <2>3, <3>1, UndisturbedHere
  <2> QED
    BY <1>5, <2>2, <2>3 DEF Create
<1>6. CASE Operator
  <2>1. touched' = TRUE
    BY <1>6 DEF Operator, Delete, MoveAddress, Edits
  <2> QED
    BY <2>1 DEF Undisturbed
<1>7. CASE UNCHANGED vars
  <2>1. UNCHANGED <<tool, recs, at, got, printed, touched>>
    BY <1>7 DEF vars
  <2>2. (~touched => \A i \in Behind : IsThere(recs', i)) /\ \A x \in recs : x \in recs'
    BY <1>1, <2>1
  <2> QED
    BY <1>0, <2>1, <2>2, UndisturbedHere
<1> QED
  BY <1>3, <1>4, <1>5, <1>6, <1>7 DEF Next, Tool

\* After a complete run, all is there until somebody interferes.
LEMMA SettlingStep ==
    ASSUME WellFormed, Integrity, Undisturbed, Settling, [Next]_vars
    PROVE  Settling'
<1> USE DEF Settling
<1>1. Undisturbed' /\ WellFormed'
  BY UndisturbedStep, WellFormedStep
<1>2. pc \in {"lookup", "create"} => at \in Places
  BY DEF WellFormed
<1>3. ASSUME tool' = tool, settled' => settled, ~touched => ~touched', settled => \A i \in Places : IsThere(recs', i)
      PROVE  Settling'
  <2>1. Places' = Places
    BY <1>3, SamePlan
  <2> QED
    BY <1>3, <2>1, ThereNext
<1>4. ASSUME tool' = tool, touched' = touched, pc' = "complete", settled' = ~touched
      PROVE  Settling'
  <2>1. at' = Len(Plan)' + 1 /\ Len(Plan)' \in Nat
    <3>1. Plan' = Plan /\ Len(Plan) \in Nat
      BY <1>4, SamePlan, PlaceFacts
    <3> QED
      BY <1>1, <1>4, <3>1 DEF WellFormed
  <2>2. Behind' = Places'
    BY <2>1 DEF Behind, Places
  <2> QED
    BY <1>1, <1>4, <2>2 DEF Undisturbed
<1>5. CASE Run
  <2>1. UNCHANGED <<tool, recs, settled>> /\ touched' = FALSE
    BY <1>5 DEF Run
  <2> QED
    BY <1>3, <2>1
<1>6. CASE Lookup
  <2>1. UNCHANGED <<tool, recs, touched>>
    BY <1>6 DEF Lookup
  <2>2. CASE settled' = settled
    BY <1>3, <2>1, <2>2
  <2>3. CASE pc' = "complete" /\ settled' = ~touched
    BY <1>4, <2>1, <2>3
  <2> QED
    BY <1>6, <2>2, <2>3 DEF Lookup, GoesOn
<1>7. CASE Create
  <2>1. UNCHANGED <<tool, touched>> /\ pc = "create" /\ at \in Places
    BY <1>2, <1>7 DEF Create
  <2>2. settled => \A i \in Places : IsThere(recs', i)
    <3>1. CASE recs' = recs
      BY <3>1
    <3>2. CASE Accepted(Here) /\ recs' = After(Here)
      BY <2>1, <3>2, AfterKeeps
    <3> QED
      BY <1>7, <3>1, <3>2 DEF Create
  <2>3. CASE settled' = settled
    BY <1>3, <2>1, <2>2, <2>3
  <2>4. CASE pc' = "complete" /\ settled' = ~touched
    BY <1>4, <2>1, <2>4
  <2> QED
    BY <1>7, <2>3, <2>4 DEF Create, GoesOn
<1>8. CASE Operator
  <2>1. settled' = FALSE
    BY <1>8 DEF Operator, Delete, MoveAddress, Edits
  <2> QED
    BY <2>1
<1>9. CASE UNCHANGED vars
  <2>1. UNCHANGED <<tool, recs, touched, settled>>
    BY <1>9 DEF vars
  <2> QED
    BY <1>3, <2>1
<1> QED
  BY <1>5, <1>6, <1>7, <1>8, <1>9 DEF Next, Tool

\* The plan being the same, permissions are assigned next as they are now.
LEMMA AssigningNext ==
    ASSUME tool' = tool, Assigning(recs', orphaned')
    PROVE  Assigning(recs, orphaned)'
BY SamePlan DEF Assigning, Assigned, Denotes

\* A record that is kept with all that is not a primary address stays denoted.
LEMMA DenotesKept ==
    ASSUME NEW R, NEW l, NEW x \in recs, x \in R, Denotes(recs, l, x.id),
           \A r, q \in recs : r.id = q.id => r = q
    PROVE  Denotes(R, l, x.id)
BY DEF Denotes

\* An account refers to nothing, so it is only gone when it is deleted itself.
LEMMA AccountGone ==
    ASSUME WellFormed, Planning(recs), NEW r \in recs, NEW x \in recs, x.kind = "nbuser", x # r
    PROVE  x \notin Gone(r)
<1>1. ASSUME NEW y \in recs, Refers(x, y)
      PROVE  FALSE
  <2>1. <<"nbuser", y.kind>> \in MayRefer
    BY <1>1, RefersTo
  <2> QED
    BY <2>1 DEF MayRefer
<1>2. ASSUME NEW S, S \subseteq recs, x \notin S
      PROVE  Hangs(S) \subseteq recs /\ x \notin Hangs(S)
  BY <1>1, <1>2 DEF Hangs
<1>3. Hangs({r}) \subseteq recs /\ x \notin Hangs({r})
  BY <1>2
<1>4. Hangs(Hangs({r})) \subseteq recs /\ x \notin Hangs(Hangs({r}))
  BY <1>2, <1>3
<1> QED
  BY <1>2, <1>4 DEF Gone

\* A permission keeps its user as long as nobody deletes that user.
LEMMA AssigningStep ==
    ASSUME WellFormed, Integrity, Assigning(recs, orphaned), [Next]_vars
    PROVE  Assigning(recs, orphaned)'
<1>0. Planning(recs) /\ Knowing
  BY DEF Integrity
<1>1. (pc \in {"lookup", "create"} => at \in Places) /\ recs \subseteq Record
      /\ \A r, q \in recs : r.id = q.id => r = q
  BY DEF WellFormed
<1>2. ASSUME UNCHANGED <<tool, recs, orphaned>>
      PROVE  Assigning(recs, orphaned)'
  <2>1. Assigning(recs', orphaned')
    BY <1>2
  <2> QED
    BY <1>2, <2>1, AssigningNext
<1>3. ASSUME NEW R, NEW q \in recs, Assigned(recs, q), \A x \in recs : x.kind = "nbuser" /\ Refers(q, x) => x \in R
      PROVE  Assigned(R, q)
  <2>1. PICK j \in Places, x \in recs :
           /\ Plan[j].kind = "perm" /\ Plan[j].name = q.name
           /\ q.refs = <<x.id>> /\ x.kind = "nbuser" /\ Denotes(recs, Plan[j].refs[1], x.id)
    BY <1>3 DEF Assigned
  <2>2. Refers(q, x)
    BY <2>1 DEF Refers
  <2>3. x \in R
    BY <1>3, <2>1, <2>2
  <2>4. Denotes(R, Plan[j].refs[1], x.id)
    BY <1>1, <2>1, <2>3, DenotesKept
  <2> QED
    BY <2>1, <2>3, <2>4 DEF Assigned
<1>4. CASE Run
  BY <1>2, <1>4 DEF Run
<1>5. CASE Lookup
  BY <1>2, <1>5 DEF Lookup
<1>6. CASE Create
  <2>1. UNCHANGED <<tool, orphaned>> /\ pc = "create" /\ at \in Places
    BY <1>1, <1>6 DEF Create
  <2>2. CASE recs' = recs
    BY <1>2, <2>1, <2>2
  <2>3. CASE Accepted(Here) /\ recs' = After(Here)
    <3>1. \A x \in recs : x.kind # "primary" => x \in recs'
      BY <2>1, <2>3, AfterHas
    <3>2. ASSUME NEW q \in recs, q.kind = "perm", q.id \notin orphaned
          PROVE  Assigned(recs', q)
      BY <1>3, <3>1, <3>2 DEF Assigning
    <3>3. ASSUME Here.kind = "perm"
          PROVE  Assigned(recs', New)
      <4>0. Here = Plan[at] /\ at <= at /\ Form(Here)
        BY <2>1, PlaceFacts DEF Here
      <4>1. PICK c \in Parts(Controllers) : Here.refs = <<<<"nbuser", c.user>>>>
        BY <3>3, <4>0, PermRefs
      <4>2. Len(Here.refs) = 1 /\ 1 \in 1..Len(Here.refs)
        BY <4>1
      <4>3. PICK x \in recs, j \in Behind :
              /\ x.id = RefIds(Here)[1] /\ Plan[j].label = Here.refs[1]
              /\ <<Here.kind, Plan[j].kind>> \in MayRefer
              /\ x.kind = Plan[j].kind /\ x.name = Plan[j].name
        BY <1>0, <2>1, <2>3, <4>2, AcceptedRefs
      <4>4. x.kind = "nbuser"
        BY <3>3, <4>3 DEF MayRefer
      <4>5. x \in recs' /\ j \in Places
        BY <3>1, <4>4, PlaceFacts
      <4>6. Denotes(recs', Plan[at].refs[1], x.id)
        BY <4>0, <4>3, <4>5 DEF Denotes
      <4>7. RefIds(Here) = <<x.id>>
        <5> DEFINE rs == RefIds(Here)
        <5>1. rs \in Seq(Nat) /\ Len(rs) = 1 /\ rs[1] = x.id
          BY <2>1, <4>0, <4>2, <4>3, RefIdsAre
        <5> HIDE DEF rs
        <5>2. rs = <<x.id>>
          BY <5>1
        <5> QED
          BY <5>2 DEF rs
      <4>8. New.refs = <<x.id>> /\ New.name = Here.name
        BY <2>1, <4>7, NewType
      <4> QED
        BY <2>1, <3>3, <4>0, <4>4, <4>5, <4>6, <4>8 DEF Assigned
    <3>4. \A x \in recs' : x \in recs \/ x = New
      BY <2>1, <2>3, AfterIs
    <3>5. New.kind = Here.kind
      BY <2>1, NewType
    <3>6. Assigning(recs', orphaned')
      BY <2>1, <3>2, <3>3, <3>4, <3>5 DEF Assigning
    <3> QED
      BY <2>1, <3>6, AssigningNext
  <2> QED
    BY <1>6, <2>2, <2>3 DEF Create
<1>7. CASE \E r \in recs : Delete(r)
  <2>1. PICK r \in recs : Delete(r)
    BY <1>7
  <2> DEFINE S == recs \ Gone(r)
             g(q) == [q EXCEPT !.refs = IF q.kind = "perm" /\ Refers(q, r) THEN <<>> ELSE @]
  <2>2. recs' = {g(q) : q \in S}
    BY <2>1 DEF Delete, Gone, Hangs
  <2>3. tool' = tool /\ orphaned' = orphaned \cup {q.id : q \in {p \in recs : p.kind = "perm" /\ Refers(p, r)}}
    BY <2>1 DEF Delete, Edits
  <2>4. ASSUME NEW q \in S
        PROVE  /\ g(q).kind = q.kind /\ g(q).id = q.id
               /\ ~(q.kind = "perm" /\ Refers(q, r)) => g(q) = q
    <3>1. q \in Record
      BY <1>1, <2>4
    <3> QED
      BY <3>1 DEF Record
  <2> HIDE DEF g
  <2>5. \A x \in recs : x.kind = "nbuser" /\ x # r => x \in recs'
    <3> SUFFICES ASSUME NEW x \in recs, x.kind = "nbuser", x # r PROVE x \in recs'
      OBVIOUS
    <3>1. x \in S
      BY <1>0, <2>1, AccountGone
    <3>2. g(x) = x
      BY <2>4, <3>1
    <3> QED
      BY <2>2, <3>1, <3>2
  <2>6. ASSUME NEW q \in S, g(q).kind = "perm", g(q).id \notin orphaned'
        PROVE  Assigned(recs', g(q))
    <3>1. q.kind = "perm" /\ q.id \notin orphaned' /\ q \in recs
      BY <2>4, <2>6
    <3>2. ~Refers(q, r) /\ q.id \notin orphaned
      BY <2>3, <3>1
    <3>3. g(q) = q
      BY <2>4, <2>6, <3>2
    <3>4. Assigned(recs, q)
      BY <3>1, <3>2 DEF Assigning
    <3>5. \A x \in recs : x.kind = "nbuser" /\ Refers(q, x) => x \in recs'
      BY <2>5, <3>2
    <3>6. Assigned(recs', q)
      BY <1>3, <3>1, <3>4, <3>5
    <3> QED
      BY <3>3, <3>6
  <2>7. Assigning(recs', orphaned')
    BY <2>2, <2>6 DEF Assigning
  <2> QED
    BY <2>3, <2>7, AssigningNext
<1>8. CASE \E r, i \in recs : MoveAddress(r, i)
  <2>1. PICK r \in recs, i \in recs : MoveAddress(r, i)
    BY <1>8
  <2> DEFINE m == [r EXCEPT !.refs = <<i.id>>]
  <2>2. recs' = (recs \ {r}) \cup {m} /\ r.kind = "address" /\ UNCHANGED <<tool, orphaned>>
    BY <2>1 DEF MoveAddress, Edits
  <2>3. m.kind = "address"
    <3>1. r \in Record
      BY <1>1
    <3> QED
      BY <2>2, <3>1 DEF Record
  <2> HIDE DEF m
  <2>4. \A x \in recs : x.kind # "address" => x \in recs'
    BY <2>2
  <2>5. ASSUME NEW q \in recs', q.kind = "perm", q.id \notin orphaned'
        PROVE  Assigned(recs', q)
    <3>1. q \in recs /\ q.id \notin orphaned
      BY <2>2, <2>3, <2>5
    <3>2. Assigned(recs, q)
      BY <2>5, <3>1 DEF Assigning
    <3> QED
      BY <1>3, <2>4, <3>1, <3>2
  <2>6. Assigning(recs', orphaned')
    BY <2>5 DEF Assigning
  <2> QED
    BY <2>2, <2>6, AssigningNext
<1>9. CASE UNCHANGED vars
  BY <1>2, <1>9 DEF vars
<1> QED
  BY <1>4, <1>5, <1>6, <1>7, <1>8, <1>9 DEF Next, Tool, Operator

\* What stands for a step refers as planned, and so does its permission.
LEMMA AsPlanned ==
    ASSUME WellFormed, Assigning(recs, orphaned), NEW i \in Places, NEW r \in recs, Stands(recs, r, Plan[i])
    PROVE  RefersAsPlanned(r, Plan[i]) \/ r.kind = "address" \/ (r.kind = "perm" /\ r.id \in orphaned)
<1>0. \A l, id : Denotes(recs, l, id) => PlannedUnder(id, l)
  BY DEF Denotes, PlannedUnder, Places
<1>1. CASE r.kind \notin {"address", "perm"}
  BY <1>0, <1>1 DEF Stands, RefersAsPlanned
<1>2. CASE r.kind = "perm" /\ r.id \notin orphaned
  <2>1. PICK j \in Places, x \in recs :
           /\ Plan[j].kind = "perm" /\ Plan[j].name = r.name
           /\ r.refs = <<x.id>> /\ Denotes(recs, Plan[j].refs[1], x.id)
    BY <1>2 DEF Assigning, Assigned
  <2>2. Plan[i].kind = "perm" /\ Plan[i].name = r.name /\ Form(Plan[i]) /\ Form(Plan[j])
    BY <1>2, PlaceFacts DEF Stands
  <2>3. Plan[j] = Plan[i]
    BY <2>1, <2>2, SamePerm
  <2>4. PICK c \in Parts(Controllers) : Plan[i].refs = <<<<"nbuser", c.user>>>>
    BY <2>2, PermRefs
  <2>5. Len(Plan[i].refs) = 1 /\ Len(r.refs) = 1 /\ r.refs[1] = x.id
    BY <2>1, <2>4
  <2>6. PlannedUnder(r.refs[1], Plan[i].refs[1])
    BY <1>0, <2>1, <2>3, <2>5
  <2> QED
    BY <2>5, <2>6 DEF RefersAsPlanned
<1> QED
  BY <1>1, <1>2

\* At the end of a run that nobody interfered with, all is as planned.
LEMMA Usable ==
    ASSUME WellFormed, Integrity, Undisturbed, Assigning(recs, orphaned)
    PROVE  CompleteIsUsable
<1> DEFINE There(i) == \E r \in recs :
                          /\ r.kind = Plan[i].kind /\ r.name = Plan[i].name
                          /\ \/ RefersAsPlanned(r, Plan[i])
                             \/ r.kind = "address"
                             \/ r.kind = "perm" /\ r.id \in orphaned
<1> SUFFICES ASSUME pc = "complete", ~touched
             PROVE  /\ \A i \in 1..Len(Plan) : There(i)
                    /\ \A r \in recs : r.kind = "primary" =>
                          \E a, i \in recs : a.id = r.refs[2] /\ i.kind = "iface" /\ a.refs = <<i.id>> /\ i.refs = <<r.refs[1]>>
                    /\ \A u \in DOMAIN printed : printed[u] # Placeholder =>
                          \E t \in recs : t.kind = "token" /\ t.name = u /\ t.id = printed[u]
                    /\ tool = "authentik" => DOMAIN printed = Users
  BY DEF CompleteIsUsable
<1>1. at = Len(Plan) + 1 /\ Len(Plan) \in Nat
  BY PlaceFacts DEF WellFormed
<1>2. Behind = Places /\ \A i \in Places : i <= at
  BY <1>1 DEF Behind, Places
<1>3. \A i \in 1..Len(Plan) : There(i)
  <2> SUFFICES ASSUME NEW i \in Places PROVE There(i)
    BY DEF Places
  <2>1. PICK r \in recs : Stands(recs, r, Plan[i])
    BY <1>2 DEF Undisturbed, IsThere
  <2>2. RefersAsPlanned(r, Plan[i]) \/ r.kind = "address" \/ (r.kind = "perm" /\ r.id \in orphaned)
    BY <2>1, AsPlanned
  <2>3. r.kind = Plan[i].kind /\ r.name = Plan[i].name
    BY <2>1 DEF Stands
  <2> QED
    BY <2>2, <2>3
<1>4. ASSUME NEW r \in recs, r.kind = "primary"
      PROVE  \E a, i \in recs : a.id = r.refs[2] /\ i.kind = "iface" /\ a.refs = <<i.id>> /\ i.refs = <<r.refs[1]>>
  <2>1. OnOwnIface(recs, r)
    BY <1>4 DEF Integrity, Planning
  <2> QED
    BY <2>1 DEF OnOwnIface
<1>5. \A u \in DOMAIN printed : printed[u] # Placeholder =>
         \E t \in recs : t.kind = "token" /\ t.name = u /\ t.id = printed[u]
  BY DEF Undisturbed, IsToken
<1>6. ASSUME tool = "authentik"
      PROVE  DOMAIN printed = Users
  <2>1. DOMAIN printed = {Plan[i].name : i \in {j \in Places : Plan[j].kind = "token"}}
    BY <1>2 DEF WellFormed
  <2>2. \A i \in Places : Plan[i].kind = "token" => Plan[i].name \in Users
    BY PlaceFacts, FormRefs
  <2>3. \A u \in Users : \E k \in Places : Plan[k].kind = "token" /\ Plan[k].name = u
    BY <1>6, TokensPlanned
  <2> QED
    BY <2>1, <2>2, <2>3
<1> QED
  <2> HIDE DEF There
  <2> QED
    BY <1>3, <1>4, <1>5, <1>6

\* Setting the primary address a device has changes nothing.
LEMMA AfterSame ==
    ASSUME Here.kind = "primary", NEW r \in recs, r.kind = "primary", r.refs = RefIds(Here)
    PROVE  After(Here) = recs
<1> DEFINE new == [id |-> nextId, kind |-> Here.kind, name |-> Here.name, refs |-> RefIds(Here)]
           old == {x \in recs : x.kind = "primary" /\ x.refs[1] = new.refs[1]}
<1>1. After(Here) = CASE Here.kind = "primary" ->
                           IF \E x \in old : x.refs = new.refs THEN recs ELSE (recs \ old) \cup {new}
                      [] Here.kind = "member" /\ Found(Here) # {} -> recs
                      [] OTHER -> recs \cup {new}
  BY DEF After
<1>2. new.refs = RefIds(Here)
  OBVIOUS
<1>3. \E x \in old : x.refs = new.refs
  BY <1>2
<1> HIDE DEF old, new
<1>4. Here.kind # "member"
  OBVIOUS
<1> QED
  BY <1>1, <1>3, <1>4

\* The whole invariant of a seeding run.
Sound == WellFormed /\ Integrity /\ Undisturbed /\ Settling /\ Assigning(recs, orphaned)

\* It holds throughout.
LEMMA SoundAlways == Spec => []Sound
<1>1. ASSUME Init
      PROVE  Sound
  <2>1. at = 1 /\ printed = <<>> /\ settled = FALSE /\ recs = {}
    BY <1>1 DEF Init
  <2>2. Behind = {} /\ DOMAIN printed = {}
    BY <2>1 DEF Behind
  <2>3. Undisturbed /\ Settling
    BY <2>1, <2>2 DEF Undisturbed, Settling
  <2>4. Assigning(recs, orphaned)
    BY <2>1 DEF Assigning
  <2> QED
    BY <1>1, <2>3, <2>4, WellFormedInit, IntegrityInit DEF Sound
<1>2. Sound /\ [Next]_vars => Sound'
  BY WellFormedStep, IntegrityStep, UndisturbedStep, SettlingStep, AssigningStep DEF Sound
<1> QED
  BY <1>1, <1>2, PTL DEF Spec

\* "Seed complete." is only said when, unless somebody has interfered, every
\* planned record is there and refers to the planned ones, each primary
\* address is the planned one and on an interface of its own device, each
\* permission has its user, if that was never deleted, and each key printed is
\* that of the user's token.
THEOREM CompleteMeansUsable == Spec => []CompleteIsUsable
<1>1. Sound => CompleteIsUsable
  BY Usable DEF Sound
<1> QED
  BY <1>1, SoundAlways, PTL

\* Once a run was complete, a further one changes nothing, whatever becomes of
\* its requests, unless somebody has edited records since it began.
THEOREM RerunIsIdle == Spec => RerunChangesNothing
<1>1. ASSUME Sound, [Next]_vars
      PROVE  [settled /\ settled' => recs' = recs]_vars
  <2> SUFFICES ASSUME settled, settled', Next PROVE recs' = recs
    BY <1>1 DEF vars
  <2>0. WellFormed /\ Integrity /\ Undisturbed /\ ~touched /\ \A i \in Places : IsThere(recs, i)
    BY <1>1 DEF Sound, Settling
  <2>1. CASE Run \/ Lookup
    BY <2>1 DEF Run, Lookup
  <2>2. CASE Create
    <3>1. pc = "create" /\ at \in Places /\ at <= at /\ Here = Plan[at]
      BY <2>0, <2>2, PlaceFacts DEF Create, WellFormed, Here
    <3>2. CASE recs' = After(Here)
      <4>1. Here.kind = "primary"
        BY <2>0, <3>1, StandsFound DEF Integrity, Absence
      <4>2. PICK r \in recs : Stands(recs, r, Here)
        BY <2>0, <3>1 DEF IsThere
      <4>3. r.kind = "primary" /\ r.refs = RefIds(Here)
        BY <2>0, <3>1, <4>1, <4>2, StandsRefs DEF Stands
      <4> QED
        BY <3>2, <4>1, <4>3, AfterSame
    <3> QED
      BY <2>2, <3>2 DEF Create
  <2>3. CASE Operator
    BY <2>3 DEF Operator, Delete, MoveAddress, Edits
  <2> QED
    BY <2>1, <2>2, <2>3 DEF Next, Tool
<1> QED
  BY <1>1, SoundAlways, PTL DEF Spec, RerunChangesNothing
=============================================================================
