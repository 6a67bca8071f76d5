------------------------------ MODULE Seeding ------------------------------
(***************************************************************************)
(* The seeding tools: seed-netbox makes the records of the test            *)
(* environment, seed-authentik the accounts, permissions and tokens of the *)
(* controllers.  Both work through a plan: each record is looked up, and   *)
(* created if there is none; the first error ends the run, and whoever     *)
(* runs the tool runs it again.                                            *)
(*                                                                         *)
(* The two requests are two steps, a request may fail before or after it   *)
(* is carried out, and an operator works on the records at any time.       *)
(***************************************************************************)
EXTENDS Lists

CONSTANTS
    Devices,      \* devicesToSeed: name, interface and address, or NoAddr
    Networks,     \* the prefixes to seed
    Controllers,  \* controllers: user name, group and names of permissions
    NoAddr,       \* a device without address
    Placeholder,  \* printed instead of a key that cannot be retrieved
    MaxEdits,     \* bound: edits by an operator
    MaxFaults,    \* bound: requests that fail
    MaxRuns       \* bound: runs after a complete one

VARIABLES
    tool,     \* the tool that is run
    recs,     \* records of NetBox and Authentik
    pc,       \* "idle", "lookup", "create", "complete" or "failed"
    at,       \* the place in the plan
    got,      \* planned record -> id found or created in this run
    printed,  \* user -> key or Placeholder, as collected in this run
    nextId, faults, edits, runs,
    orphaned, \* history: ids of permissions whose user an operator has deleted
    touched,  \* history: an operator has edited records since the run began
    settled   \* history: a run was complete, and nobody has edited since it began

vars == <<tool, recs, pc, at, got, printed, nextId, faults, edits, runs, orphaned, touched, settled>>

ASSUME SeedingAssumption ==
    /\ MaxEdits \in Nat /\ MaxFaults \in Nat /\ MaxRuns \in Nat
    /\ Devices \in Seq([name : STRING, iface : STRING, addr : STRING \cup {NoAddr}])
    /\ Networks \in Seq(STRING)
    /\ Controllers \in Seq([user : STRING, group : STRING, perms : Seq(STRING)]) /\ Controllers # <<>>
    /\ \A i, j \in 1..Len(Devices) : i # j => Devices[i].name # Devices[j].name
    /\ \A i, j \in 1..Len(Controllers) : i # j =>
          Controllers[i].user # Controllers[j].user /\ Parts(Controllers[i].perms) \cap Parts(Controllers[j].perms) = {}

-----------------------------------------------------------------------------
(* The plans, in the order of main.  A planned record has a label, a kind, *)
(* a name and the labels of the planned records it refers to.              *)

Planned(kind, of, name, refs) == [label |-> <<kind, of>>, kind |-> kind, name |-> name, refs |-> refs]
Root(kind, name) == Planned(kind, name, name, <<>>)

BaseSteps ==
    <<Root("tenant", "testing"),
      Planned("site", "testing-site", "testing-site", <<<<"tenant", "testing">>>>),
      Root("role", "worker"),
      Root("manufacturer", "test-manufacturer"),
      Planned("type", "test-type", "test-type", <<<<"manufacturer", "test-manufacturer">>>>)>>

DeviceSteps(d) ==
    <<Planned("device", d.name, d.name, <<<<"site", "testing-site">>, <<"role", "worker">>,
                                          <<"type", "test-type">>, <<"tenant", "testing">>>>),
      Planned("iface", d.name, d.iface, <<<<"device", d.name>>>>)>>
    \o (IF d.addr = NoAddr THEN <<>>
        ELSE <<Planned("address", d.name, d.addr, <<<<"iface", d.name>>>>),
               Planned("primary", d.name, d.name, <<<<"device", d.name>>, <<"address", d.name>>>>)>>)

ControllerSteps(c) ==
    <<Root("akuser", c.user),
      Root("group", c.group),
      Planned("member", c.user, c.user, <<<<"group", c.group>>, <<"akuser", c.user>>>>),
      Root("nbuser", c.user)>>
    \o [i \in 1..Len(c.perms) |-> Planned("perm", c.perms[i], c.perms[i], <<<<"nbuser", c.user>>>>)]
    \o <<Planned("token", c.user, c.user, <<<<"nbuser", c.user>>>>)>>

Plans ==
    [netbox    |-> BaseSteps \o [i \in 1..Len(Networks) |-> Root("prefix", Networks[i])]
                   \o Joined([i \in 1..Len(Devices) |-> DeviceSteps(Devices[i])]),
     authentik |-> Joined([i \in 1..Len(Controllers) |-> ControllerSteps(Controllers[i])])]

Plan == Plans[tool]

Users == {Controllers[i].user : i \in 1..Len(Controllers)}
Kinds ==
    {"tenant", "site", "role", "manufacturer", "type", "prefix", "device", "iface", "address", "primary",
     "akuser", "group", "member", "nbuser", "perm", "token"}

Here == Plan[at]

\* The ids a planned record refers to, as far as this run knows them.
RefIds(s) == [i \in 1..Len(s.refs) |-> got[s.refs[i]]]

-----------------------------------------------------------------------------

TypeOK ==
    /\ pc \in {"idle", "lookup", "create", "complete", "failed"}
    /\ at \in 1..(Len(Plan) + 1)
    /\ pc = "complete" => at > Len(Plan)
    /\ \A r \in recs : r.kind \in Kinds /\ r.id \in 1..(nextId - 1)
    /\ \A r, q \in recs : r.id = q.id => r = q
    /\ DOMAIN got = {Plan[i].label : i \in 1..(at - 1)}
    /\ \A u \in DOMAIN printed : u \in Users /\ printed[u] \in {Placeholder} \cup (1..(nextId - 1))
    /\ faults \in 0..MaxFaults /\ edits \in 0..MaxEdits /\ runs \in 0..MaxRuns

Init ==
    /\ tool \in {"netbox", "authentik"}
    /\ recs = {}
    /\ pc = "idle"
    /\ at = 1
    /\ got = <<>>
    /\ printed = <<>>
    /\ nextId = 1
    /\ faults = 0 /\ edits = 0 /\ runs = 0
    /\ orphaned = {} /\ touched = FALSE /\ settled = FALSE

SpendFault == faults < MaxFaults /\ faults' = faults + 1

Bind(f, x, v) == [y \in DOMAIN f \cup {x} |-> IF y = x THEN v ELSE f[y]]

\* Mutant: a run takes the ids of the one before for its own.
Run_KeepsIds ==
    /\ pc \in {"idle", "failed"}
    /\ at' = 1
    /\ printed' = <<>>
    /\ touched' = FALSE
    /\ pc' = "lookup"
    /\ UNCHANGED <<tool, recs, got, runs, nextId, faults, edits, orphaned, settled>>

\* A run begins; without its environment variables, or with a certificate
\* bundle that cannot be read, it is over before the first request.
Run ==
    /\ pc \in {"idle", "failed", "complete"}
    /\ IF pc = "complete" THEN runs < MaxRuns /\ runs' = runs + 1 ELSE UNCHANGED runs
    /\ at' = 1
    /\ got' = <<>>
    /\ printed' = <<>>
    /\ touched' = FALSE
    /\ \/ pc' = "lookup" /\ UNCHANGED faults
       \/ pc' = "failed" /\ SpendFault
    /\ UNCHANGED <<tool, recs, nextId, edits, orphaned, settled>>

\* The run knows the id of the record here and goes on; main exits with
\* "Seed complete." after the last one.
GoesOn(id, key) ==
    /\ got' = Bind(got, Here.label, id)
    /\ printed' = IF Here.kind = "token" THEN Bind(printed, Here.name, key) ELSE printed
    /\ at' = at + 1
    /\ IF at = Len(Plan) THEN pc' = "complete" /\ settled' = ~touched
       ELSE pc' = "lookup" /\ UNCHANGED settled

\* Mutant: tokens are looked up by their key.
Found_TokenByKey(s) ==
    {r \in recs : r.kind = s.kind /\ r.name = s.name /\ s.kind # "token"
                  /\ (s.kind \in {"iface", "member"} => r.refs = RefIds(s))}

\* What the lookup returns: records of that name (a token goes by the name of
\* its user), except that interfaces are also looked up by device, and
\* memberships by group and user.
Found(s) ==
    {r \in recs : /\ r.kind = s.kind
                  /\ r.name = s.name
                  /\ s.kind \in {"iface", "member"} => r.refs = RefIds(s)}

\* Mutant: the answer of the lookup is not used.
Lookup_Unused ==
    /\ pc = "lookup"
    /\ pc' = "create"
    /\ UNCHANGED <<tool, recs, at, got, printed, nextId, faults, edits, runs, orphaned, touched, settled>>

\* The record is looked up and the first one taken.  There is no lookup before
\* the primary address is set.
Lookup ==
    /\ pc = "lookup"
    /\ \/ /\ Here.kind # "primary"
          /\ \E r \in Found(Here) : GoesOn(r.id, Placeholder)
          /\ UNCHANGED faults
       \/ /\ Here.kind = "primary" \/ Found(Here) = {}
          /\ pc' = "create"
          /\ UNCHANGED <<at, got, printed, settled, faults>>
       \/ /\ Here.kind # "primary" /\ SpendFault
          /\ pc' = "failed"
          /\ UNCHANGED <<at, got, printed, settled>>
    /\ UNCHANGED <<tool, recs, nextId, edits, runs, orphaned, touched>>

\* What NetBox and Authentik accept (external): what is referred to exists,
\* names are unique where they have to be, and the primary address of a
\* device is on one of its interfaces.
Unique == {"tenant", "site", "role", "manufacturer", "type", "device", "iface", "akuser", "group", "nbuser"}

Accepted(s) ==
    LET refs == RefIds(s)
    IN  /\ \A i \in 1..Len(refs) : \E r \in recs : r.id = refs[i]
        /\ s.kind \in Unique =>
              ~\E r \in recs : r.kind = s.kind /\ r.name = s.name /\ (s.kind = "iface" => r.refs = refs)
        /\ s.kind = "primary" =>
              \E a, i \in recs : a.id = refs[2] /\ i.kind = "iface" /\ a.refs = <<i.id>> /\ i.refs = <<refs[1]>>

\* The records once it is created: an address replaces the primary address a
\* device had, and joining a group twice makes no difference.
After(s) ==
    LET new == [id |-> nextId, kind |-> s.kind, name |-> s.name, refs |-> RefIds(s)]
        old == {r \in recs : r.kind = "primary" /\ r.refs[1] = new.refs[1]}
    IN  CASE s.kind = "primary" -> IF \E r \in old : r.refs = new.refs THEN recs ELSE (recs \ old) \cup {new}
          [] s.kind = "member" /\ Found(s) # {} -> recs
          [] OTHER -> recs \cup {new}

\* Mutant: the run goes on when a record is refused.
Create_Lenient ==
    /\ pc = "create"
    /\ recs' = IF Accepted(Here) THEN After(Here) ELSE recs
    /\ nextId' = nextId + 1
    /\ GoesOn(nextId, nextId)
    /\ UNCHANGED <<tool, faults, edits, runs, orphaned, touched>>

\* The record is created and, for a token, its key kept, unless the request
\* is refused or fails; then the key of a token that was created all the same
\* is known to nobody.
Create ==
    /\ pc = "create"
    /\ \/ /\ Accepted(Here)
          /\ recs' = After(Here)
          /\ nextId' = nextId + 1
          /\ \/ GoesOn(nextId, nextId) /\ UNCHANGED faults
             \/ pc' = "failed" /\ SpendFault /\ UNCHANGED <<at, got, printed, settled>>
       \/ /\ IF Accepted(Here) THEN SpendFault ELSE UNCHANGED faults
          /\ pc' = "failed"
          /\ UNCHANGED <<recs, at, got, printed, nextId, settled>>
    /\ UNCHANGED <<tool, edits, runs, orphaned, touched>>

-----------------------------------------------------------------------------
(* An operator at the user interface of NetBox or Authentik.               *)

Edits ==
    /\ edits < MaxEdits
    /\ edits' = edits + 1
    /\ touched' = TRUE
    /\ settled' = FALSE
    /\ UNCHANGED <<tool, pc, at, got, printed, nextId, faults, runs>>

Refers(r, q) == \E i \in 1..Len(r.refs) : r.refs[i] = q.id

\* The kinds whose deletion takes what refers to them along; the others
\* cannot be deleted while something does.
Owning == {"device", "iface", "address", "akuser", "group", "nbuser"}

\* A record is deleted, with what belongs to it.  A permission stays and is
\* assigned to nobody.
Delete(r) ==
    LET Dependents(S) == S \cup {q \in recs : q.kind # "perm" /\ \E x \in S : Refers(q, x)}
        gone == Dependents(Dependents(Dependents({r})))
    IN  /\ r.kind \in Owning \/ ~\E q \in recs : Refers(q, r)
        /\ recs' = {[q EXCEPT !.refs = IF q.kind = "perm" /\ Refers(q, r) THEN <<>> ELSE @] :
                       q \in recs \ gone}
        /\ orphaned' = orphaned \cup {q.id : q \in {p \in recs : p.kind = "perm" /\ Refers(p, r)}}
        /\ Edits

\* An address is moved to another interface; a primary address cannot be.
MoveAddress(r, i) ==
    /\ r.kind = "address" /\ i.kind = "iface" /\ r.refs # <<i.id>>
    /\ ~\E q \in recs : q.kind = "primary" /\ Refers(q, r)
    /\ recs' = (recs \ {r}) \cup {[r EXCEPT !.refs = <<i.id>>]}
    /\ UNCHANGED orphaned
    /\ Edits

Operator ==
    \/ \E r \in recs : Delete(r)
    \/ \E r, i \in recs : MoveAddress(r, i)

Tool == Run \/ Lookup \/ Create

Next == Tool \/ Operator

Spec == Init /\ [][Next]_vars

\* Assumed of the user, no message asks for it: the tool is run again after a
\* failure.
FairSpec == Spec /\ WF_vars(Tool)

-----------------------------------------------------------------------------
(* Properties.                                                             *)

\* However often runs fail, also after a request was carried out, and are
\* repeated, no record is there twice: no two of one kind and name (for an
\* interface, on one device), no two tokens of a user, even where NetBox
\* would not object (the lookup in every ensure function).
NoDuplicates ==
    \A r, q \in recs :
        r.kind = q.kind /\ r.name = q.name /\ (r.kind = "iface" => r.refs = q.refs) => r = q

\* The record of this id is the one planned under label l.
PlannedUnder(id, l) ==
    \E q \in recs, j \in 1..Len(Plan) :
        q.id = id /\ Plan[j].label = l /\ q.kind = Plan[j].kind /\ q.name = Plan[j].name

RefersAsPlanned(r, s) ==
    Len(r.refs) = Len(s.refs) /\ \A k \in 1..Len(s.refs) : PlannedUnder(r.refs[k], s.refs[k])

\* "Seed complete." is only said when, unless somebody has interfered with the
\* run, every planned record is there and refers to the planned ones: each
\* account is in its group, each permission is assigned to its user, the
\* primary address of a device is the planned one, and it is on an interface
\* of that device; and each key printed is that of the user's token (main of
\* both tools).  Left out are permissions whose user had been deleted before:
\* they are found by name and stay without user.
CompleteIsUsable ==
    pc = "complete" /\ ~touched =>
        /\ \A i \in 1..Len(Plan) : \E r \in recs :
              /\ r.kind = Plan[i].kind /\ r.name = Plan[i].name
              /\ \/ RefersAsPlanned(r, Plan[i])
                 \/ r.kind = "address"
                 \/ r.kind = "perm" /\ r.id \in orphaned
        /\ \A r \in recs : r.kind = "primary" =>
              \E a, i \in recs : a.id = r.refs[2] /\ i.kind = "iface" /\ a.refs = <<i.id>> /\ i.refs = <<r.refs[1]>>
        /\ \A u \in DOMAIN printed : printed[u] # Placeholder =>
              \E t \in recs : t.kind = "token" /\ t.name = u /\ t.id = printed[u]
        /\ tool = "authentik" => DOMAIN printed = Users

\* Once a run was complete, a further one changes nothing, unless somebody
\* has edited records since it began.
RerunChangesNothing == [][settled /\ settled' => recs' = recs]_vars

\* An address is where the plan does not have it, which no run will mend.
Misplaced ==
    \E a \in recs : a.kind = "address" /\
        ~\E i, d \in recs : /\ a.refs = <<i.id>> /\ i.refs = <<d.id>>
                            /\ \E k \in 1..Len(Devices) :
                                  Devices[k].name = d.name /\ Devices[k].addr = a.name

\* Whatever a run leaves behind, runs get through in the end, if they are
\* repeated and no address stays at a wrong interface.
SeedingSettles == <>[]~Misplaced => <>(pc = "complete")
=============================================================================
