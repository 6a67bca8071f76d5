-------------------------- MODULE DeviceLifecycle --------------------------
(***************************************************************************)
(* What the hardware programs promise together, whatever their number and  *)
(* however they are interrupted: devices in NetBox, objects in Kubernetes, *)
(* and nothing of caches, queues, passes and snapshots but the decisions   *)
(* they have led to and that have not been carried out yet.                *)
(*                                                                         *)
(* A decision may be late, and the world may have changed under it, but it *)
(* was right when it was made: an object is created under a name a device  *)
(* had when it was seen staged, removed under a name a device had when it  *)
(* was seen offline or planned, and a device is sent to active only on the *)
(* evidence of an installation under one of its names.                     *)
(***************************************************************************)
EXTENDS Naturals

CONSTANTS Devices, Keys, Status

VARIABLES
    status,     \* device -> its status in NetBox
    name,       \* device -> the key it goes by
    names,      \* device -> the keys it has gone by
    object,     \* key -> "none", "new" or "provisioned"
    installed,  \* machines that have been installed
    wanted,     \* device and key of objects it was decided to create
    unwanted,   \* device and key of objects it was decided to remove
    pending,    \* device and status of changes decided on
    ops         \* changes people have made

vars == <<status, name, names, object, installed, wanted, unwanted, pending, ops>>

Entry == [dev : Devices, key : Keys]
Change == [dev : Devices, target : {"staged", "active"}]

Init ==
    /\ status \in [Devices -> Status]
    /\ name \in [Devices -> Keys]
    /\ names = [d \in Devices |-> {name[d]}]
    /\ object \in [Keys -> {"none", "new"}]
    /\ installed = {}
    /\ wanted = {} /\ unwanted = {} /\ pending = {}
    /\ ops = 0

\* Devices of some statuses, under the names they have now.
Now(statuses) ==
    {e \in Entry : status[e.dev] \in statuses /\ e.key = name[e.dev]}

\* A machine was installed under a name the device has, or has had.
Proven(d) == \E k \in names[d] : \E m \in installed : k \in names[m]

-----------------------------------------------------------------------------
(* People and machines.                                                    *)

\* An operator changes the status of a device, renames it, or edits what is
\* not seen here; an object loses its mark.
Operate ==
    /\ ops' = ops + 1
    /\ \/ /\ \E d \in Devices, s \in Status : status' = [status EXCEPT ![d] = s]
          /\ UNCHANGED <<name, names, object>>
       \/ /\ \E d \in Devices, k \in Keys :
                /\ name' = [name EXCEPT ![d] = k]
                /\ names' = [names EXCEPT ![d] = @ \cup {k}]
          /\ UNCHANGED <<status, object>>
       \/ /\ \E k \in Keys : object[k] # "none" /\ object' = [object EXCEPT ![k] = "new"]
          /\ UNCHANGED <<status, name, names>>
    /\ UNCHANGED <<installed, wanted, unwanted, pending>>

\* A machine is installed through the object of one of its names.
Install ==
    /\ \E k \in Keys, m \in Devices :
          /\ object[k] = "new" /\ k \in names[m]
          /\ object' = [object EXCEPT ![k] = "provisioned"]
          /\ installed' = installed \cup {m}
    /\ UNCHANGED <<status, name, names, wanted, unwanted, pending, ops>>

-----------------------------------------------------------------------------
(* The programs.                                                           *)

\* A program looks at NetBox, or forgets what it had decided.
Look ==
    /\ wanted' \subseteq wanted \cup Now({"staged"})
    /\ unwanted' \subseteq unwanted \cup Now({"offline", "planned"})
    /\ pending' \subseteq pending
    /\ UNCHANGED <<status, name, names, object, installed, ops>>

Create ==
    /\ \E e \in wanted : /\ object[e.key] = "none"
                         /\ object' = [object EXCEPT ![e.key] = "new"]
    /\ wanted' \subseteq wanted
    /\ UNCHANGED <<status, name, names, installed, unwanted, pending, ops>>

Remove ==
    /\ \E e \in unwanted : object' = [object EXCEPT ![e.key] = "none"]
    /\ unwanted' \subseteq unwanted
    /\ UNCHANGED <<status, name, names, installed, wanted, pending, ops>>

\* A program decides on a status from some copy of an object.
Decide ==
    /\ \E c \in Change : /\ c.target = "active" => Proven(c.dev)
                         /\ pending' \subseteq pending \cup {c}
    /\ wanted' \subseteq wanted
    /\ UNCHANGED <<status, name, names, object, installed, unwanted, ops>>

\* A status decided on is written to NetBox, over whatever is there.
Write ==
    /\ \E c \in pending : status' = [status EXCEPT ![c.dev] = c.target]
    /\ pending' \subseteq pending
    /\ UNCHANGED <<name, names, object, installed, wanted, unwanted, ops>>

Next == Operate \/ Install \/ Look \/ Create \/ Remove \/ Decide \/ Write

Spec == Init /\ [][Next]_vars
=============================================================================
