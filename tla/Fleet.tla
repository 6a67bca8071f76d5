------------------------------- MODULE Fleet -------------------------------
(***************************************************************************)
(* What the programs of this repository share: the NetBox devices, the     *)
(* Tinkerbell Hardware objects in the Kubernetes API, the people and the   *)
(* provisioner who change them, and the code of pkg/tinkerbell that every  *)
(* program calls (listing NetBox, reconciling an existing Hardware object, *)
(* setting the status of a device).                                        *)
(*                                                                         *)
(* A device is one object of NetBox, known by its id.  Its record (Invs)   *)
(* stands for everything the device says about itself: name, tenant,       *)
(* serial, role, site, rack, cluster, addresses and disks.  With record i  *)
(* the Hardware object of d is found under KeyOf[d][i], the pair (tenant   *)
(* slug, device name): devices may share it, and a device that is renamed  *)
(* or moved to another tenant changes it.                                  *)
(***************************************************************************)
EXTENDS Integers, FiniteSets

CONSTANTS
    Devices,              \* NetBox devices selected by the filters
    Keys,                 \* namespace/name pairs of Hardware objects
    KeyOf,                \* device -> record -> key of its Hardware object
    Rank,                 \* device -> its place in NetBox's default ordering
    PageSize,             \* devices in one answer of NetBox (50 by default)
    Namespaces, NsOf,     \* key -> namespace
    ControllerNamespace,  \* CONTROLLER_NAMESPACE, the one namespace cached
    Invs,                 \* inventory records a device may have
    IncompleteInvs,       \* records from which no Hardware can be extracted
    NilInvs,              \* records whose extraction dereferences a nil field
    InitialStatuses,      \* statuses of the devices at the start
    OperatorStatuses,     \* statuses an operator sets
    MaxOps,               \* bound: changes made by operator and provisioner
    MaxFaults,            \* bound: failed calls and crashes
    NoHw, NoLabel, NoDevice, NoCall

VARIABLES
    status,     \* NetBox: device -> status
    inv,        \* NetBox: device -> inventory record
    hw,         \* Kubernetes API: key -> Hardware object or NoHw
    call,       \* client -> the setDeviceStatus call it is in, or NoCall
    installed,  \* machines a Workflow has installed (history)
    ops,        \* changes made so far by operator and provisioner
    faults      \* faults so far

fleetVars == <<status, inv, hw, call, installed, ops, faults>>

Status == {"offline", "planned", "staged", "active", "decommissioning", "failed"}

\* The annotation v1alpha1.tinkerbell.org/provisioned: not there, "true", or
\* any other value.
Prov == {"absent", "true", "other"}

\* The labels the code writes: netbox-device-id, and the inventory labels.
Label == [dev : Devices, inv : Invs]

\* A Hardware object: its labels, the machine whose MAC is in its spec, and
\* the provisioned annotation.
Hardware == [label : Label \cup {NoLabel}, machine : Devices, prov : Prov]

\* The programs that call setDeviceStatus, each from a single goroutine.
Clients == {"kubernetes-updater", "netbox-updater", "cli-sync", "cli-sync-status"}

\* A call of setDeviceStatus: about to retrieve the device, or about to patch
\* it; "key" is the Hardware object on whose behalf the call is made.
Call == [dev : Devices, target : {"staged", "active"},
         phase : {"retrieve", "patch"}, key : Keys]

\* What the models need of their parameters.
ASSUME FleetAssumption ==
    /\ IsFiniteSet(Devices)
    /\ KeyOf \in [Devices -> [Invs -> Keys]]
    /\ Rank \in [Devices -> Nat]
    /\ PageSize \in Nat \ {0}
    /\ NsOf \in [Keys -> Namespaces]
    /\ ControllerNamespace \in Namespaces
    /\ IncompleteInvs \subseteq Invs
    /\ NilInvs \subseteq Invs
    /\ InitialStatuses \subseteq Status
    /\ OperatorStatuses \subseteq Status
    /\ MaxOps \in Nat
    /\ MaxFaults \in Nat
    /\ NoHw \notin Hardware
    /\ NoLabel \notin Label
    /\ NoDevice \notin Devices
    /\ NoCall \notin Call

\* The keys the controllers' caches hold: both managers restrict their cache
\* to the controller's own namespace.
CachedKeys == {k \in Keys : NsOf[k] = ControllerNamespace}

FleetTypeOK ==
    /\ status \in [Devices -> Status]
    /\ inv \in [Devices -> Invs]
    /\ hw \in [Keys -> Hardware \cup {NoHw}]
    /\ call \in [Clients -> Call \cup {NoCall}]
    /\ installed \subseteq Devices
    /\ ops \in 0..MaxOps
    /\ faults \in 0..MaxFaults

\* The key of an entry of a listing: that of the record it was made from.
Key(e) == KeyOf[e.dev][e.inv]

\* The key of a device as NetBox has it now.
KeyNow(d) == KeyOf[d][inv[d]]

\* A Hardware object made by hand before the controllers are deployed: no
\* label, not provisioned, for the machine that bears that name.
HandMade(k) ==
    {[label |-> NoLabel, machine |-> d, prov |-> "absent"] :
        d \in {e \in Devices : KeyNow(e) = k}}

FleetInit ==
    /\ status \in [Devices -> InitialStatuses]
    /\ inv \in [Devices -> Invs]
    /\ hw \in [Keys -> Hardware \cup {NoHw}]
    /\ \A k \in Keys : hw[k] \in HandMade(k) \cup {NoHw}
    /\ call = [c \in Clients |-> NoCall]
    /\ installed = {}
    /\ ops = 0
    /\ faults = 0

-----------------------------------------------------------------------------
(* Operator and provisioner: the environment of the programs.              *)

SpendOp == ops < MaxOps /\ ops' = ops + 1

\* An operator changes the status of a device in NetBox.
OperatorSetsStatus(d, s) ==
    /\ SpendOp
    /\ status[d] # s
    /\ status' = [status EXCEPT ![d] = s]
    /\ UNCHANGED <<inv, hw, call, installed, faults>>

\* An operator changes the inventory of a device in NetBox.
OperatorEditsDevice(d, i) ==
    /\ SpendOp
    /\ inv[d] # i
    /\ inv' = [inv EXCEPT ![d] = i]
    /\ UNCHANGED <<status, hw, call, installed, faults>>

\* The Workflow of a machine succeeds and the object is marked provisioned.
WorkflowSucceeds(k) ==
    /\ hw[k] # NoHw
    /\ hw[k].prov # "true"
    /\ hw' = [hw EXCEPT ![k].prov = "true"]
    /\ installed' = installed \cup {hw[k].machine}
    /\ UNCHANGED <<status, inv, call, ops, faults>>

\* The machine is released (the annotation goes away), or someone writes
\* another value into the annotation.
AnnotationChanges(k, p) ==
    /\ SpendOp
    /\ hw[k] # NoHw
    /\ hw[k].prov # p
    /\ hw' = [hw EXCEPT ![k].prov = p]
    /\ UNCHANGED <<status, inv, call, installed, faults>>

Environment ==
    \/ \E d \in Devices, s \in OperatorStatuses : OperatorSetsStatus(d, s)
    \/ \E d \in Devices, i \in Invs : OperatorEditsDevice(d, i)
    \/ \E k \in Keys : WorkflowSucceeds(k)
    \/ \E k \in Keys, p \in {"absent", "other"} : AnnotationChanges(k, p)

-----------------------------------------------------------------------------
(* Listing NetBox.                                                         *)

\* NetBox answers a list request without a limit with its first page; the
\* code reads that page and asks for no other.
FirstPage(S) ==
    {d \in S : Cardinality({e \in S : Rank[e] < Rank[d]}) < PageSize}

GetDevices(wanted) == FirstPage({d \in Devices : status[d] \in wanted})

\* extractHardwareData fails, and the device is dropped from the list with a
\* log line, when a mandatory part of the record is missing (address, MAC,
\* netmask, system disk).
Extractable(d) == inv[d] \notin IncompleteInvs

\* It panics, and takes the whole pass with it, on a record without an IPv4
\* primary address or without a platform.
ListPanics(wanted) == \E d \in GetDevices(wanted) : inv[d] \in NilInvs

\* Mutant: the filter that the help text of "hardware sync" suggests.
CreateHardwares_AlsoActive(lost) ==
    {[dev |-> d, inv |-> inv[d]] :
        d \in {e \in GetDevices({"staged", "active"}) \ lost : Extractable(e)}}

\* The desired Hardware objects: staged devices.  "lost" are the devices for
\* which one of the requests made during the extraction failed.
CreateHardwares(lost) ==
    {[dev |-> d, inv |-> inv[d]] :
        d \in {e \in GetDevices({"staged"}) \ lost : Extractable(e)}}

\* Mutant: whatever is not desired is pruned.
CreateHardwaresToPrune_NotDesired(lost) ==
    {[dev |-> d, inv |-> inv[d]] :
        d \in {e \in GetDevices(Status \ {"staged"}) \ lost : Extractable(e)}}

\* The Hardware objects to be deleted: those of offline or planned devices.
CreateHardwaresToPrune(lost) ==
    {[dev |-> d, inv |-> inv[d]] :
        d \in {e \in GetDevices({"offline", "planned"}) \ lost : Extractable(e)}}

\* The results of a listing are handled in its order.
IsNext(e, S) == e \in S /\ \A f \in S : Rank[e.dev] <= Rank[f.dev]

\* A failed extraction for each device of a set.
Lose(lost) == faults' = faults + Cardinality(lost) /\ faults' <= MaxFaults

SpendFault == faults < MaxFaults /\ faults' = faults + 1

-----------------------------------------------------------------------------
(* setDeviceStatus: retrieve the device, patch it if its status differs.   *)

NewCall(d, target, k) ==
    [dev |-> d, target |-> target, phase |-> "retrieve", key |-> k]

\* Mutant: a device that is already active is left alone.
Retrieve_NeverDemotes(c) ==
    /\ call[c] # NoCall
    /\ call[c].phase = "retrieve"
    /\ call' = [call EXCEPT ![c] =
                  IF status[call[c].dev] \in {call[c].target, "active"}
                  THEN NoCall ELSE [call[c] EXCEPT !.phase = "patch"]]
    /\ UNCHANGED <<status, inv, hw, installed, ops, faults>>

\* The status is read; nothing more happens if it is the target.
Retrieve(c) ==
    /\ call[c] # NoCall
    /\ call[c].phase = "retrieve"
    /\ call' = [call EXCEPT ![c] =
                  IF status[call[c].dev] = call[c].target
                  THEN NoCall ELSE [call[c] EXCEPT !.phase = "patch"]]
    /\ UNCHANGED <<status, inv, hw, installed, ops, faults>>

\* The PATCH carries the target only, so it overwrites whatever status the
\* device has by then.
PatchStatus(c) ==
    /\ call[c] # NoCall
    /\ call[c].phase = "patch"
    /\ status' = [status EXCEPT ![call[c].dev] = call[c].target]
    /\ call' = [call EXCEPT ![c] = NoCall]
    /\ UNCHANGED <<inv, hw, installed, ops, faults>>

\* One of the two requests fails.  A PATCH whose answer is lost may have
\* been applied.
CallFails(c) ==
    /\ call[c] # NoCall
    /\ SpendFault
    /\ \/ UNCHANGED status
       \/ /\ call[c].phase = "patch"
          /\ status' = [status EXCEPT ![call[c].dev] = call[c].target]
    /\ call' = [call EXCEPT ![c] = NoCall]
    /\ UNCHANGED <<inv, hw, installed, ops>>

-----------------------------------------------------------------------------
(* ReconcileExistingHardware, with the client's view of the objects: the   *)
(* cache of a controller, or the API itself for the command line.          *)

\* A new object as CreateHardwares builds it.
NewHardware(e) == [label |-> e, machine |-> e.dev, prov |-> "absent"]

\* The labels after a merge patch computed from the labels that were read:
\* only those that differed from the wanted ones are sent.
MergePatch(read, live, e) ==
    IF read = NoLabel \/ live = NoLabel THEN e
    ELSE [dev |-> IF read.dev = e.dev THEN live.dev ELSE e.dev,
          inv |-> IF read.inv = e.inv THEN live.inv ELSE e.inv]

\* Mutant: labels are never patched.
ReconcileExistingHardware_NoPatch(c, e, view) ==
    LET k == Key(e)
    IN  /\ hw' = hw
        /\ call' = IF view[k] # NoHw /\ view[k].prov = "true"
                   THEN [call EXCEPT ![c] = NewCall(e.dev, "active", k)]
                   ELSE call

\* Mutant: labels are only added to an object that has none.
ReconcileExistingHardware_AddOnly(c, e, view) ==
    LET k     == Key(e)
        stale == view[k].label = NoLabel
    IN  IF view[k] = NoHw \/ (stale /\ hw[k] = NoHw)
        THEN UNCHANGED <<hw, call>>
        ELSE /\ hw' = IF stale THEN [hw EXCEPT ![k].label = e] ELSE hw
             /\ call' = IF (IF stale THEN hw[k] ELSE view[k]).prov = "true"
                        THEN [call EXCEPT ![c] = NewCall(e.dev, "active", k)]
                        ELSE call

\* Labels that differ from the wanted ones are patched, which also refreshes
\* the object read; an object that is marked provisioned moves its device to
\* active.  Nothing happens when the object is not in the view, or when it is
\* gone from the API by the time it is patched.
ReconcileExistingHardware(c, e, view) ==
    LET k       == Key(e)
        stale   == view[k].label # e
        patched == [hw EXCEPT ![k].label = MergePatch(view[k].label, hw[k].label, e)]
    IN  IF view[k] = NoHw \/ (stale /\ hw[k] = NoHw)
        THEN UNCHANGED <<hw, call>>
        ELSE /\ hw' = IF stale THEN patched ELSE hw
             /\ call' = IF (IF stale THEN patched[k] ELSE view[k]).prov = "true"
                        THEN [call EXCEPT ![c] = NewCall(e.dev, "active", k)]
                        ELSE call
=============================================================================
