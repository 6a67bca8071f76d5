---------------------- MODULE HardwareLifecycle_proofs ----------------------
(***************************************************************************)
(* Proofs about HardwareLifecycle, for every set of devices, every         *)
(* assignment of names and namespaces and every bound.                     *)
(***************************************************************************)
EXTENDS HardwareLifecycle, FiniteSetTheorems, TLAPS

-----------------------------------------------------------------------------
(* Type correctness.                                                       *)

\* What the two listings return, and that a listing with failed extractions
\* stays within the bound on faults.
LEMMA ListingTypes ==
    ASSUME FleetTypeOK, NEW wanted, NEW lost \in SUBSET GetDevices(wanted)
    PROVE  /\ CreateHardwares(lost) \subseteq Label
           /\ CreateHardwaresToPrune(lost) \subseteq Label
           /\ Lose(lost) => faults' \in 0..MaxFaults
<1>1. lost \subseteq Devices
  BY DEF GetDevices, FirstPage
<1>2. Cardinality(lost) \in Nat
  BY <1>1, FleetAssumption, FS_Subset, FS_CardinalityType DEF FleetAssumption
<1>3. ASSUME NEW S, NEW x \in {[dev |-> d, inv |-> inv[d]] :
                                  d \in {e \in GetDevices(S) \ lost : Extractable(e)}}
      PROVE  x \in Label
  <2>1. PICK d \in {e \in GetDevices(S) \ lost : Extractable(e)} :
              x = [dev |-> d, inv |-> inv[d]]
    BY <1>3
  <2>2. d \in Devices
    BY <2>1 DEF GetDevices, FirstPage
  <2> QED
    BY <2>1, <2>2 DEF Label, FleetTypeOK
<1>4. CreateHardwares(lost) \subseteq Label /\ CreateHardwaresToPrune(lost) \subseteq Label
  BY <1>3 DEF CreateHardwares, CreateHardwaresToPrune
<1>5. Lose(lost) => faults' \in 0..MaxFaults
  BY <1>2, FleetAssumption DEF Lose, FleetTypeOK, FleetAssumption
<1> QED
  BY <1>4, <1>5

\* The budget of faults.
LEMMA FaultTypes ==
    ASSUME FleetTypeOK, SpendFault
    PROVE  faults' \in 0..MaxFaults
BY FleetAssumption DEF FleetTypeOK, SpendFault, FleetAssumption

\* An entry of a listing names a device and a key.
LEMMA KeyType ==
    ASSUME NEW e \in Label
    PROVE  e.dev \in Devices /\ e.inv \in Invs /\ Key(e) \in Keys
<1>1. e.dev \in Devices /\ e.inv \in Invs
  BY DEF Label
<1> QED
  BY <1>1, FleetAssumption DEF FleetAssumption, Key

\* The name a device has now is a key.
LEMMA KeyNowType ==
    ASSUME FleetTypeOK, NEW d \in Devices
    PROVE  KeyNow(d) \in Keys
BY FleetAssumption DEF FleetAssumption, FleetTypeOK, KeyNow

\* A new call is a call.
LEMMA NewCallType ==
    ASSUME NEW d \in Devices, NEW target \in {"staged", "active"}, NEW k \in Keys
    PROVE  NewCall(d, target, k) \in Call
BY DEF NewCall, Call

\* The requests of setDeviceStatus keep the types.
LEMMA StatusCallTypes ==
    ASSUME FleetTypeOK, NEW c \in Clients,
           Retrieve(c) \/ PatchStatus(c) \/ CallFails(c)
    PROVE  FleetTypeOK'
<1> USE FleetAssumption DEF FleetAssumption
<1>1. CASE Retrieve(c)
  <2>1. call[c] \in Call
    BY <1>1 DEF Retrieve, FleetTypeOK
  <2>2. [call[c] EXCEPT !.phase = "patch"] \in Call
    BY <2>1 DEF Call
  <2>3. call' \in [Clients -> Call \cup {NoCall}]
    BY <1>1, <2>2 DEF Retrieve, FleetTypeOK
  <2> QED
    BY <1>1, <2>3 DEF Retrieve, FleetTypeOK
<1>2. ASSUME call[c] # NoCall
      PROVE  [status EXCEPT ![call[c].dev] = call[c].target] \in [Devices -> Status]
  <2>1. call[c] \in Call
    BY <1>2 DEF FleetTypeOK
  <2>2. call[c].dev \in Devices /\ call[c].target \in Status
    BY <2>1 DEF Call, Status
  <2> QED
    BY <2>2 DEF FleetTypeOK
<1>3. CASE PatchStatus(c)
  BY <1>2, <1>3 DEF PatchStatus, FleetTypeOK
<1>4. CASE CallFails(c)
  <2>1. status' \in [Devices -> Status]
    BY <1>2, <1>4 DEF CallFails, FleetTypeOK
  <2> QED
    BY <1>4, <2>1, FaultTypes DEF CallFails, FleetTypeOK
<1> QED
  BY <1>1, <1>3, <1>4

\* ReconcileExistingHardware writes well-formed labels and calls, whatever
\* well-formed view of the objects it works from.
LEMMA ReconcileTypes ==
    ASSUME FleetTypeOK, NEW c \in Clients, NEW e \in Label,
           NEW view \in [Keys -> Hardware \cup {NoHw}],
           ReconcileExistingHardware(c, e, view)
    PROVE  /\ hw' \in [Keys -> Hardware \cup {NoHw}]
           /\ call' \in [Clients -> Call \cup {NoCall}]
<1> USE FleetAssumption DEF FleetAssumption
<1> DEFINE k == Key(e)
           stale == view[k].label # e
           merged == MergePatch(view[k].label, hw[k].label, e)
           patched == [hw EXCEPT ![k].label = merged]
<1>1. e.dev \in Devices /\ k \in Keys
  BY KeyType
<1>2. CASE view[k] = NoHw \/ (stale /\ hw[k] = NoHw)
  BY <1>2 DEF ReconcileExistingHardware, FleetTypeOK
<1>3. CASE ~(view[k] = NoHw \/ (stale /\ hw[k] = NoHw))
  <2>1. view[k] \in Hardware
    BY <1>1, <1>3
  <2>2. /\ hw' = IF stale THEN patched ELSE hw
        /\ call' = IF (IF stale THEN patched[k] ELSE view[k]).prov = "true"
                   THEN [call EXCEPT ![c] = NewCall(e.dev, "active", k)]
                   ELSE call
    BY <1>3 DEF ReconcileExistingHardware
  <2>3. stale => patched \in [Keys -> Hardware \cup {NoHw}]
    <3> SUFFICES ASSUME stale PROVE patched \in [Keys -> Hardware \cup {NoHw}]
      OBVIOUS
    <3>1. hw[k] \in Hardware
      BY <1>1, <1>3 DEF FleetTypeOK
    <3>2. view[k].label \in Label \cup {NoLabel} /\ hw[k].label \in Label \cup {NoLabel}
      BY <2>1, <3>1 DEF Hardware
    <3>3. merged \in Label
      BY <3>2 DEF MergePatch, Label
    <3>4. [hw[k] EXCEPT !.label = merged] \in Hardware
      BY <3>1, <3>3 DEF Hardware
    <3>5. patched = [hw EXCEPT ![k] = [hw[k] EXCEPT !.label = merged]]
      BY <1>1 DEF FleetTypeOK
    <3> HIDE DEF merged, patched
    <3> QED
      BY <1>1, <3>4, <3>5 DEF FleetTypeOK
  <2>4. NewCall(e.dev, "active", k) \in Call
    BY <1>1, NewCallType
  <2> HIDE DEF patched, k, stale
  <2> QED
    BY <2>2, <2>3, <2>4 DEF FleetTypeOK
<1> QED
  BY <1>2, <1>3

\* Operator and provisioner.
LEMMA EnvironmentTypes ==
    ASSUME FleetTypeOK, Environment
    PROVE  FleetTypeOK'
<1> USE FleetAssumption DEF FleetAssumption
<1>1. SpendOp => ops' \in 0..MaxOps
  BY DEF SpendOp, FleetTypeOK
<1>2. ASSUME NEW k \in Keys, hw[k] # NoHw, NEW p \in Prov,
             hw' = [hw EXCEPT ![k].prov = p]
      PROVE  hw' \in [Keys -> Hardware \cup {NoHw}]
  <2>1. [hw[k] EXCEPT !.prov = p] \in Hardware
    BY <1>2 DEF FleetTypeOK, Hardware
  <2>2. hw' = [hw EXCEPT ![k] = [hw[k] EXCEPT !.prov = p]]
    BY <1>2 DEF FleetTypeOK
  <2> QED
    BY <2>1, <2>2 DEF FleetTypeOK
<1>3. ASSUME NEW d \in Devices, NEW s \in OperatorStatuses, OperatorSetsStatus(d, s)
      PROVE  FleetTypeOK'
  BY <1>1, <1>3 DEF OperatorSetsStatus, FleetTypeOK
<1>4. ASSUME NEW d \in Devices, NEW i \in Invs, OperatorEditsDevice(d, i)
      PROVE  FleetTypeOK'
  BY <1>1, <1>4 DEF OperatorEditsDevice, FleetTypeOK
<1>5. ASSUME NEW k \in Keys, WorkflowSucceeds(k)
      PROVE  FleetTypeOK'
  <2>1. hw' \in [Keys -> Hardware \cup {NoHw}]
    BY <1>2, <1>5 DEF WorkflowSucceeds, Prov
  <2>2. hw[k].machine \in Devices
    BY <1>5 DEF WorkflowSucceeds, FleetTypeOK, Hardware
  <2> QED
    BY <1>5, <2>1, <2>2 DEF WorkflowSucceeds, FleetTypeOK
<1>6. ASSUME NEW k \in Keys, NEW p \in {"absent", "other"}, AnnotationChanges(k, p)
      PROVE  FleetTypeOK'
  <2>1. hw' \in [Keys -> Hardware \cup {NoHw}]
    BY <1>2, <1>6 DEF AnnotationChanges, Prov
  <2> QED
    BY <1>1, <1>6, <2>1 DEF AnnotationChanges, FleetTypeOK
<1> QED
  BY <1>3, <1>4, <1>5, <1>6 DEF Environment

\* A freshly built Hardware object.
LEMMA NewHardwareType ==
    ASSUME NEW e \in Label
    PROVE  NewHardware(e) \in Hardware /\ e.dev \in Devices /\ Key(e) \in Keys
BY KeyType DEF NewHardware, Hardware, Label, Prov

\* The steps of a pass of the kubernetes-updater.
LEMMA SyncTinkerbellTypes ==
    ASSUME FleetTypeOK, KubernetesTypeOK, SyncTinkerbell
    PROVE  FleetTypeOK' /\ KubernetesTypeOK'
<1> USE DEF KubernetesTypeOK
<1>1. CASE ListDesired
  BY <1>1, ListingTypes DEF ListDesired, FleetTypeOK
<1>2. CASE ListToPrune
  BY <1>2, ListingTypes DEF ListToPrune, FleetTypeOK
<1>3. CASE ListToPruneFails
  BY <1>3, FaultTypes DEF ListToPruneFails, FleetTypeOK
<1>4. CASE ApplyHardware
  BY <1>4 DEF ApplyHardware, FleetTypeOK, fleetVars
<1>5. CASE CreateHardware
  BY <1>5, NewHardwareType DEF CreateHardware, FleetTypeOK
<1>6. CASE ReconcileHardware
  <2>1. hw' \in [Keys -> Hardware \cup {NoHw}] /\ call' \in [Clients -> Call \cup {NoCall}]
    BY <1>6, ReconcileTypes DEF ReconcileHardware, Client, Clients
  <2> QED
    BY <1>6, <2>1 DEF ReconcileHardware, FleetTypeOK
<1>7. CASE WriteFails
  BY <1>7, FaultTypes DEF WriteFails, FleetTypeOK
<1>8. CASE PruneHardware
  BY <1>8, FaultTypes, KeyType DEF PruneHardware, FleetTypeOK
<1>9. CASE EndPass
  BY <1>9 DEF EndPass, FleetTypeOK, fleetVars
<1>10. CASE StatusCall
  BY <1>10, StatusCallTypes DEF StatusCall, Client, Clients, kubernetesVars
<1> QED
  BY <1>1, <1>2, <1>3, <1>4, <1>5, <1>6, <1>7, <1>8, <1>9, <1>10 DEF SyncTinkerbell

\* A restart of the kubernetes-updater, and its cache.
LEMMA CacheTypes ==
    ASSUME FleetTypeOK, KubernetesTypeOK, Restart \/ \E k \in Keys : CacheSync(k)
    PROVE  FleetTypeOK' /\ KubernetesTypeOK'
<1>1. CASE Restart
  BY <1>1, FaultTypes DEF Restart, Relist, FleetTypeOK, KubernetesTypeOK
<1>2. CASE \E k \in Keys : CacheSync(k)
  BY <1>2 DEF CacheSync, FleetTypeOK, KubernetesTypeOK, fleetVars
<1> QED
  BY <1>1, <1>2

\* The netbox-updater.
LEMMA WorkerTypes ==
    ASSUME FleetTypeOK, NetBoxTypeOK,
           \/ \E k \in Keys : Reconcile(k)
           \/ WorkerCall
           \/ WorkerCallFails
           \/ Resync
           \/ WorkerRestart
    PROVE  FleetTypeOK' /\ NetBoxTypeOK'
<1> USE DEF NetBoxTypeOK
<1>1. ASSUME NEW k \in Keys, Reconcile(k)
      PROVE  FleetTypeOK' /\ NetBoxTypeOK'
  <2>1. CASE hw[k] = NoHw \/ DeviceIDFromLabels(hw[k]) = NoDevice
    BY <1>1, <2>1 DEF Reconcile, FleetTypeOK
  <2>2. CASE ~(hw[k] = NoHw \/ DeviceIDFromLabels(hw[k]) = NoDevice)
    <3>1. hw[k] \in Hardware
      BY <2>2 DEF FleetTypeOK
    <3>2. hw[k].label \in Label
      BY <2>2, <3>1 DEF Hardware, DeviceIDFromLabels
    <3>3. DeviceIDFromLabels(hw[k]) \in Devices
      BY <2>2, <3>2 DEF DeviceIDFromLabels, Label
    <3>4. NewCall(DeviceIDFromLabels(hw[k]), TargetNetBoxStatus(hw[k]), k) \in Call
      BY <3>3, NewCallType DEF TargetNetBoxStatus
    <3> QED
      BY <1>1, <2>2, <3>4 DEF Reconcile, FleetTypeOK
  <2> QED
    BY <2>1, <2>2
<1>2. CASE WorkerCall
  BY <1>2, StatusCallTypes DEF WorkerCall, Worker, Clients
<1>3. CASE WorkerCallFails
  <2>1. call[Worker] \in Call
    BY <1>3 DEF WorkerCallFails, CallFails, FleetTypeOK, Worker, Clients
  <2>2. call[Worker].key \in Keys
    BY <2>1 DEF Call
  <2> QED
    BY <1>3, <2>2, StatusCallTypes DEF WorkerCallFails, Worker, Clients
<1>4. CASE Resync
  BY <1>4 DEF Resync, Existing, CachedKeys, FleetTypeOK, fleetVars
<1>5. CASE WorkerRestart
  BY <1>5, FaultTypes DEF WorkerRestart, Existing, CachedKeys, FleetTypeOK
<1> QED
  BY <1>1, <1>2, <1>3, <1>4, <1>5

\* The two commands.
LEMMA CliTypes ==
    ASSUME FleetTypeOK, CliTypeOK, Cli
    PROVE  FleetTypeOK' /\ CliTypeOK'
<1> USE FleetAssumption, CliAssumption DEF FleetAssumption, CliAssumption, CliTypeOK,
        syncVars, syncStatusVars, cliVars
<1>1. CASE SyncStart
  <2>1. sDesired' \subseteq Label /\ faults' \in 0..MaxFaults
    BY <1>1, ListingTypes DEF SyncStart
  <2> QED
    BY <1>1, <2>1 DEF SyncStart, FleetTypeOK
<1>2. CASE SyncCreate
  BY <1>2, NewHardwareType, FaultTypes DEF SyncCreate, FleetTypeOK
<1>3. CASE SyncReconcile
  <2>1. hw' \in [Keys -> Hardware \cup {NoHw}] /\ call' \in [Clients -> Call \cup {NoCall}]
    BY <1>3, ReconcileTypes DEF SyncReconcile, Clients, FleetTypeOK
  <2> QED
    BY <1>3, <2>1 DEF SyncReconcile, FleetTypeOK
<1>4. CASE SyncListPrune
  BY <1>4, ListingTypes DEF SyncListPrune, FleetTypeOK
<1>5. CASE SyncPrune
  BY <1>5, FaultTypes, KeyType DEF SyncPrune, FleetTypeOK
<1>6. CASE SyncExits
  BY <1>6, FaultTypes DEF SyncExits, FleetTypeOK
<1>7. ASSUME NEW ns \in Namespaces, SyncStatusStart(ns)
      PROVE  FleetTypeOK' /\ CliTypeOK'
  <2>1. listed' \subseteq Item
    BY <1>7 DEF SyncStatusStart, Item, FleetTypeOK
  <2> QED
    BY <1>7, <2>1 DEF SyncStatusStart, FleetTypeOK, fleetVars
<1>8. CASE SyncStatusNext
  <2> DEFINE target(i) == IF i.hw.prov = "true" THEN "active" ELSE "staged"
  <2>1. PICK i \in listed :
           /\ listed' = listed \ {i}
           /\ call' = IF i.hw.prov = "other" \/ i.hw.label = NoLabel THEN call
                      ELSE [call EXCEPT !["cli-sync-status"] =
                              NewCall(i.hw.label.dev, target(i), i.key)]
    BY <1>8 DEF SyncStatusNext
  <2>2. i.hw \in Hardware /\ i.key \in Keys
    BY DEF Item
  <2>3. i.hw.label # NoLabel => i.hw.label.dev \in Devices
    BY <2>2 DEF Hardware, Label
  <2>4. i.hw.label # NoLabel => NewCall(i.hw.label.dev, target(i), i.key) \in Call
    BY <2>2, <2>3, NewCallType
  <2>5. call' \in [Clients -> Call \cup {NoCall}]
    BY <2>1, <2>4 DEF FleetTypeOK
  <2> QED
    BY <1>8, <2>1, <2>5 DEF SyncStatusNext, FleetTypeOK
<1>9. CASE CliCall
  BY <1>9, StatusCallTypes DEF CliCall, Clients
<1> QED
  BY <1>1, <1>2, <1>3, <1>4, <1>5, <1>6, <1>7, <1>8, <1>9 DEF Cli

\* The history of statuses.
LEMMA HistoryTypes ==
    ASSUME FleetTypeOK, FleetTypeOK', seen \in [Devices -> SUBSET Status],
           Observe \/ ObserveAnew
    PROVE  seen' \in [Devices -> SUBSET Status]
BY DEF FleetTypeOK, Observe, ObserveAnew

\* The history of names.
LEMMA NameTypes ==
    ASSUME FleetTypeOK, FleetTypeOK', names \in [Devices -> SUBSET Keys], RecordNames
    PROVE  /\ names' \in [Devices -> SUBSET Keys]
           /\ \A d \in Devices : names[d] \subseteq names'[d] /\ KeyNow(d)' \in names'[d]
<1>1. \A d \in Devices : KeyOf[d][inv'[d]] \in Keys
  BY FleetAssumption DEF FleetAssumption, FleetTypeOK
<1> QED
  BY <1>1 DEF RecordNames, KeyNow

\* Every step of every program keeps the types.
LEMMA TypeStep ==
    ASSUME TypeOK, [Next]_vars
    PROVE  TypeOK'
<1> USE DEF TypeOK
<1>1. CASE EnvironmentStep
  BY <1>1, EnvironmentTypes, HistoryTypes, NameTypes
  DEF EnvironmentStep, Watch, CachedKeys, KubernetesTypeOK, NetBoxTypeOK, CliTypeOK,
      kubernetesVars, cliVars, syncVars, syncStatusVars
<1>2. CASE KubernetesUpdaterStep
  BY <1>2, SyncTinkerbellTypes, HistoryTypes
  DEF KubernetesUpdaterStep, Watch, CachedKeys, NetBoxTypeOK, CliTypeOK,
      cliVars, syncVars, syncStatusVars
<1>3. CASE KubernetesUpdaterRestart \/ \E k \in Keys : CacheStep(k)
  BY <1>3, CacheTypes
  DEF KubernetesUpdaterRestart, CacheStep, NetBoxTypeOK, CliTypeOK,
      cliVars, syncVars, syncStatusVars
<1>4. CASE \/ \E k \in Keys : NetBoxUpdaterTakes(k)
           \/ NetBoxUpdaterCalls \/ NetBoxUpdaterResyncs \/ NetBoxUpdaterRestart
  BY <1>4, WorkerTypes, HistoryTypes
  DEF NetBoxUpdaterTakes, NetBoxUpdaterCalls, NetBoxUpdaterResyncs, NetBoxUpdaterRestart,
      KubernetesTypeOK, CliTypeOK, kubernetesVars, cliVars, syncVars, syncStatusVars
<1>5. CASE CliStep
  BY <1>5, CliTypes, HistoryTypes
  DEF CliStep, Watch, CachedKeys, KubernetesTypeOK, NetBoxTypeOK, kubernetesVars
<1>6. CASE UNCHANGED vars
  BY <1>6 DEF vars, fleetVars, kubernetesVars, cliVars, syncVars, syncStatusVars,
     FleetTypeOK, KubernetesTypeOK, NetBoxTypeOK, CliTypeOK
<1> QED
  BY <1>1, <1>2, <1>3, <1>4, <1>5, <1>6 DEF Next

\* The initial states are well-formed.
LEMMA TypeInit ==
    ASSUME Init
    PROVE  TypeOK
<1> USE FleetAssumption, CliAssumption DEF FleetAssumption, CliAssumption
<1>1. FleetTypeOK
  BY DEF Init, FleetInit, FleetTypeOK
<1>2. KubernetesTypeOK
  BY <1>1 DEF Init, KubernetesInit, KubernetesTypeOK, Relist, FleetTypeOK
<1>3. NetBoxTypeOK /\ CliTypeOK
  BY DEF Init, NetBoxInit, CliInit, NetBoxTypeOK, CliTypeOK, Existing, CachedKeys
<1>4. seen \in [Devices -> SUBSET Status] /\ names \in [Devices -> SUBSET Keys]
  BY <1>1, KeyNowType DEF Init, FleetTypeOK
<1> QED
  BY <1>1, <1>2, <1>3, <1>4 DEF TypeOK

\* Every state variable of the composition keeps its type: in particular a
\* status call always names a device, although labels may be missing.
THEOREM TypeCorrectness == Spec => []TypeOK
BY TypeInit, TypeStep, PTL DEF Spec

-----------------------------------------------------------------------------
(* Only installed machines become active.                                  *)

\* The part of Evidence that speaks of what the programs share.
FleetEvidence ==
    /\ \A k \in Keys : Genuine(hw[k], k)
    /\ \A c \in Clients : Warranted(c)

\* A status call sets a device active only with an installation behind it.
LEMMA StatusCallEvidence ==
    ASSUME FleetTypeOK, FleetEvidence, NEW c \in Clients, UNCHANGED names,
           Retrieve(c) \/ PatchStatus(c) \/ CallFails(c)
    PROVE  FleetEvidence'
<1> USE FleetAssumption DEF FleetAssumption
<1>1. installed' = installed /\ hw' = hw
  BY DEF Retrieve, PatchStatus, CallFails
<1>2. /\ call[c] \in Call
      /\ call[c].key \in names[call[c].dev]
      /\ call[c].target = "active" => InstalledUnder(call[c].key)
  BY DEF Retrieve, PatchStatus, CallFails, FleetTypeOK, FleetEvidence, Warranted
<1>3. (\A k \in Keys : Genuine(hw[k], k))'
  BY <1>1 DEF FleetEvidence, Genuine, InstalledUnder
<1>4. \/ call' = [call EXCEPT ![c] = NoCall]
      \/ call' = [call EXCEPT ![c] = [call[c] EXCEPT !.phase = "patch"]]
  BY DEF Retrieve, PatchStatus, CallFails
<1>5. (\A b \in Clients : Warranted(b))'
  <2> SUFFICES ASSUME NEW b \in Clients PROVE Warranted(b)'
    OBVIOUS
  <2>1. CASE b # c
    BY <1>1, <1>4, <2>1 DEF FleetEvidence, Warranted, InstalledUnder, FleetTypeOK
  <2>2. CASE b = c
    <3>1. CASE call' = [call EXCEPT ![c] = NoCall]
      BY <2>2, <3>1 DEF Warranted, FleetTypeOK
    <3>2. CASE call' = [call EXCEPT ![c] = [call[c] EXCEPT !.phase = "patch"]]
      <4>1. /\ call'[c].dev = call[c].dev
            /\ call'[c].target = call[c].target
            /\ call'[c].key = call[c].key
        BY <1>2, <3>2 DEF FleetTypeOK, Call
      <4> QED
        BY <1>1, <1>2, <2>2, <4>1 DEF Warranted, InstalledUnder
    <3> QED
      BY <1>4, <3>1, <3>2
  <2> QED
    BY <2>1, <2>2
<1> QED
  BY <1>3, <1>5 DEF FleetEvidence

\* Operator and provisioner.
LEMMA EnvironmentEvidence ==
    ASSUME FleetTypeOK, FleetEvidence, Environment,
           \A d \in Devices : names[d] \subseteq names'[d]
    PROVE  FleetEvidence' /\ installed \subseteq installed'
<1> USE FleetAssumption DEF FleetAssumption
<1>0. /\ \A k \in Keys : hw[k] # NoHw =>
            /\ hw[k].machine \in Devices
            /\ hw[k].label # NoLabel => hw[k].label.dev \in Devices
      /\ \A c \in Clients : call[c] # NoCall => call[c].dev \in Devices
      /\ installed \subseteq Devices
  BY DEF FleetTypeOK, Hardware, Label, Call
<1>6. ASSUME UNCHANGED <<hw, call, installed>>
      PROVE  (\A k \in Keys : Genuine(hw[k], k))' /\ (\A c \in Clients : Warranted(c))'
  <2>1. \A k : InstalledUnder(k) => InstalledUnder(k)'
    BY <1>0, <1>6 DEF InstalledUnder
  <2>2. (\A k \in Keys : Genuine(hw[k], k))'
    BY <1>0, <1>6, <2>1 DEF FleetEvidence, Genuine
  <2>3. (\A c \in Clients : Warranted(c))'
    BY <1>0, <1>6, <2>1 DEF FleetEvidence, Warranted
  <2> QED
    BY <2>2, <2>3
<1>1. ASSUME NEW d \in Devices, NEW s \in OperatorStatuses, OperatorSetsStatus(d, s)
      PROVE  FleetEvidence' /\ installed \subseteq installed'
  BY <1>1, <1>6 DEF OperatorSetsStatus, FleetEvidence
<1>2. ASSUME NEW d \in Devices, NEW i \in Invs, OperatorEditsDevice(d, i)
      PROVE  FleetEvidence' /\ installed \subseteq installed'
  BY <1>2, <1>6 DEF OperatorEditsDevice, FleetEvidence
<1>3. ASSUME NEW k \in Keys, NEW p \in Prov, hw[k] # NoHw,
             hw' = [hw EXCEPT ![k].prov = p],
             installed \subseteq installed',
             p = "true" => InstalledUnder(k)',
             UNCHANGED <<status, call>>
      PROVE  FleetEvidence'
  <2>1. (\A j \in Keys : Genuine(hw[j], j))'
    <3> SUFFICES ASSUME NEW j \in Keys PROVE Genuine(hw[j], j)'
      OBVIOUS
    <3>1. CASE j # k
      BY <1>0, <1>3, <3>1 DEF FleetTypeOK, FleetEvidence, Genuine, InstalledUnder
    <3>2. CASE j = k
      <4>1. hw[k] \in Hardware
        BY <1>3 DEF FleetTypeOK
      <4>2. hw'[k] = [hw[k] EXCEPT !.prov = p]
        BY <1>3 DEF FleetTypeOK
      <4>3. /\ hw'[k].machine = hw[k].machine
            /\ hw'[k].label = hw[k].label
            /\ hw'[k].prov = p
        BY <4>1, <4>2 DEF Hardware
      <4> QED
        BY <1>0, <1>3, <3>2, <4>3 DEF FleetEvidence, Genuine
    <3> QED
      BY <3>1, <3>2
  <2>2. (\A c \in Clients : Warranted(c))'
    BY <1>0, <1>3 DEF FleetEvidence, Warranted, InstalledUnder
  <2> QED
    BY <2>1, <2>2 DEF FleetEvidence
<1>4. ASSUME NEW k \in Keys, WorkflowSucceeds(k)
      PROVE  FleetEvidence' /\ installed \subseteq installed'
  <2>1. k \in names'[hw[k].machine]
    BY <1>0, <1>4 DEF WorkflowSucceeds, FleetEvidence, Genuine
  <2>2. InstalledUnder(k)'
    BY <1>4, <2>1 DEF WorkflowSucceeds, InstalledUnder
  <2> QED
    BY <1>3, <1>4, <2>2 DEF WorkflowSucceeds, Prov
<1>5. ASSUME NEW k \in Keys, NEW p \in {"absent", "other"}, AnnotationChanges(k, p)
      PROVE  FleetEvidence' /\ installed \subseteq installed'
  BY <1>3, <1>5 DEF AnnotationChanges, Prov
<1> QED
  BY <1>1, <1>2, <1>4, <1>5 DEF Environment

\* ReconcileExistingHardware, from any view whose objects are genuine.
LEMMA ReconcileEvidence ==
    ASSUME FleetTypeOK, FleetEvidence, NEW c \in Clients, NEW e \in Label,
           NEW view \in [Keys -> Hardware \cup {NoHw}],
           \A k \in Keys : Genuine(view[k], k),
           ReconcileExistingHardware(c, e, view), Key(e) \in names[e.dev],
           UNCHANGED <<status, installed, names>>
    PROVE  FleetEvidence'
<1> USE FleetAssumption DEF FleetAssumption
<1> DEFINE k == Key(e)
           stale == view[k].label # e
           merged == MergePatch(view[k].label, hw[k].label, e)
           patched == [hw EXCEPT ![k].label = merged]
<1>1. e.dev \in Devices /\ k \in Keys
  BY KeyType
<1>2. CASE view[k] = NoHw \/ (stale /\ hw[k] = NoHw)
  BY <1>2 DEF ReconcileExistingHardware, FleetEvidence, Genuine, Warranted, InstalledUnder
<1>3. CASE ~(view[k] = NoHw \/ (stale /\ hw[k] = NoHw))
  <2>1. view[k] \in Hardware /\ Genuine(view[k], k)
    BY <1>1, <1>3
  <2>2. /\ hw' = IF stale THEN patched ELSE hw
        /\ call' = IF (IF stale THEN patched[k] ELSE view[k]).prov = "true"
                   THEN [call EXCEPT ![c] = NewCall(e.dev, "active", k)]
                   ELSE call
    BY <1>3 DEF ReconcileExistingHardware
  <2>3. ASSUME stale
        PROVE  /\ patched[k].machine = hw[k].machine
               /\ patched[k].prov = hw[k].prov
               /\ patched[k].label # NoLabel => k \in names[patched[k].label.dev]
               /\ \A j \in Keys \ {k} : patched[j] = hw[j]
    <3>1. hw[k] \in Hardware
      BY <1>1, <1>3, <2>3 DEF FleetTypeOK
    <3>2. patched = [hw EXCEPT ![k] = [hw[k] EXCEPT !.label = merged]]
      BY <1>1 DEF FleetTypeOK
    <3>3. k \in names[merged.dev]
      <4>1. hw[k].label # NoLabel => k \in names[hw[k].label.dev]
        BY <1>1, <1>3, <2>3 DEF FleetEvidence, Genuine
      <4>2. merged.dev = e.dev \/ (hw[k].label # NoLabel /\ merged.dev = hw[k].label.dev)
        BY DEF MergePatch
      <4> QED
        BY <4>1, <4>2
    <3> HIDE DEF merged
    <3>4. patched[k] = [hw[k] EXCEPT !.label = merged]
      BY <1>1, <3>2 DEF FleetTypeOK
    <3>5. \A j \in Keys \ {k} : patched[j] = hw[j]
      BY <1>1, <3>2 DEF FleetTypeOK
    <3> HIDE DEF patched
    <3>6. patched[k].machine = hw[k].machine /\ patched[k].prov = hw[k].prov
          /\ patched[k].label = merged
      BY <3>1, <3>4 DEF Hardware
    <3> QED
      BY <3>3, <3>5, <3>6
  <2>4. (\A j \in Keys : Genuine(hw[j], j))'
    <3> HIDE DEF patched
    <3>1. CASE stale
      BY <1>1, <1>3, <2>2, <2>3, <3>1 DEF FleetEvidence, Genuine, InstalledUnder
    <3>2. CASE ~stale
      BY <2>2, <3>2 DEF FleetEvidence, Genuine, InstalledUnder
    <3> QED
      BY <3>1, <3>2
  <2>5. (IF stale THEN patched[k] ELSE view[k]).prov = "true" => InstalledUnder(k)
    <3> HIDE DEF patched
    <3> QED
      BY <1>1, <1>3, <2>1, <2>3 DEF FleetEvidence, Genuine
  <2>6. (\A b \in Clients : Warranted(b))'
    <3> HIDE DEF patched, stale
    <3>1. CASE call' = call
      BY <3>1 DEF FleetEvidence, Warranted, InstalledUnder
    <3>2. CASE /\ call' = [call EXCEPT ![c] = NewCall(e.dev, "active", k)]
               /\ InstalledUnder(k)
      <4>1. \A b \in Clients \ {c} : call'[b] = call[b]
        BY <3>2 DEF FleetTypeOK
      <4>2. call'[c] = NewCall(e.dev, "active", k)
        BY <3>2 DEF FleetTypeOK
      <4>3. call'[c].dev = e.dev /\ call'[c].key = k
        BY <4>2 DEF NewCall
      <4> QED
        BY <3>2, <4>1, <4>3 DEF FleetEvidence, Warranted, InstalledUnder
    <3> QED
      BY <2>2, <2>5, <3>1, <3>2
  <2> QED
    BY <2>4, <2>6 DEF FleetEvidence
<1> QED
  BY <1>2, <1>3

\* Objects are created from NetBox entries, deleted, or left alone.
LEMMA ObjectEvidence ==
    ASSUME FleetTypeOK, FleetEvidence,
           UNCHANGED <<status, installed, call, names>>,
           \/ hw' = hw
           \/ \E k \in Keys : hw' = [hw EXCEPT ![k] = NoHw]
           \/ \E e \in Label : /\ hw' = [hw EXCEPT ![Key(e)] = NewHardware(e)]
                              /\ Key(e) \in names[e.dev]
    PROVE  FleetEvidence'
<1>1. (\A k \in Keys : Genuine(hw[k], k))'
  <2>1. CASE hw' = hw
    BY <2>1 DEF FleetEvidence, Genuine, InstalledUnder
  <2>2. CASE \E k \in Keys : hw' = [hw EXCEPT ![k] = NoHw]
    BY <2>2 DEF FleetEvidence, Genuine, InstalledUnder, FleetTypeOK
  <2>3. ASSUME NEW e \in Label, hw' = [hw EXCEPT ![Key(e)] = NewHardware(e)],
               Key(e) \in names[e.dev]
        PROVE  (\A k \in Keys : Genuine(hw[k], k))'
    <3>1. Key(e) \in Keys
      BY NewHardwareType
    <3>2. hw'[Key(e)] = NewHardware(e)
      BY <2>3, <3>1 DEF FleetTypeOK
    <3>3. \A k \in Keys \ {Key(e)} : hw'[k] = hw[k]
      BY <2>3 DEF FleetTypeOK
    <3>4. NewHardware(e).machine = e.dev /\ NewHardware(e).label = e
          /\ NewHardware(e).prov = "absent"
      BY DEF NewHardware
    <3> QED
      BY <2>3, <3>2, <3>3, <3>4 DEF FleetEvidence, Genuine, InstalledUnder
  <2> QED
    BY <2>1, <2>2, <2>3
<1>2. (\A c \in Clients : Warranted(c))'
  BY DEF FleetEvidence, Warranted, InstalledUnder
<1> QED
  BY <1>1, <1>2 DEF FleetEvidence

\* The steps of a pass.
LEMMA SyncTinkerbellEvidence ==
    ASSUME FleetTypeOK, KubernetesTypeOK, FleetEvidence, UNCHANGED names,
           \A k \in Keys : Genuine(cache[k], k), Named(desired \cup cur), SyncTinkerbell
    PROVE  FleetEvidence' /\ installed' = installed /\ cache' = cache
<1> USE FleetAssumption DEF FleetAssumption
<1>1. CASE ListDesired \/ ListToPrune \/ ListToPruneFails \/ WriteFails
  BY <1>1, ObjectEvidence DEF ListDesired, ListToPrune, ListToPruneFails, WriteFails
<1>2. CASE ApplyHardware \/ EndPass
  BY <1>2, ObjectEvidence DEF ApplyHardware, EndPass, fleetVars
<1>3. CASE CreateHardware
  BY <1>3, ObjectEvidence DEF CreateHardware, KubernetesTypeOK, Named
<1>4. CASE ReconcileHardware
  <2>1. PICK e \in cur : ReconcileExistingHardware(Client, e, cache)
    BY <1>4 DEF ReconcileHardware
  <2>2. e \in Label /\ Client \in Clients /\ Key(e) \in names[e.dev]
    BY DEF KubernetesTypeOK, Client, Clients, Named
  <2> QED
    BY <1>4, <2>1, <2>2, ReconcileEvidence DEF ReconcileHardware, KubernetesTypeOK
<1>5. CASE PruneHardware
  <2>1. PICK e \in toPrune : hw' = hw \/ hw' = [hw EXCEPT ![Key(e)] = NoHw]
    BY <1>5 DEF PruneHardware
  <2>2. Key(e) \in Keys
    BY KeyType DEF KubernetesTypeOK
  <2> QED
    BY <1>5, <2>1, <2>2, ObjectEvidence DEF PruneHardware
<1>6. CASE StatusCall
  <2>1. Client \in Clients
    BY DEF Client, Clients
  <2> QED
    BY <1>6, <2>1, StatusCallEvidence
    DEF StatusCall, kubernetesVars, Retrieve, PatchStatus, CallFails
<1> QED
  BY <1>1, <1>2, <1>3, <1>4, <1>5, <1>6 DEF SyncTinkerbell

\* A call started, or given up, by one client.
LEMMA CallEvidence ==
    ASSUME FleetTypeOK, FleetEvidence, UNCHANGED <<status, hw, installed, names>>,
           NEW c \in Clients,
           \/ call' = call
           \/ call' = [call EXCEPT ![c] = NoCall]
           \/ \E d \in Devices, t \in {"staged", "active"}, k \in Keys :
                 /\ call' = [call EXCEPT ![c] = NewCall(d, t, k)]
                 /\ k \in names[d]
                 /\ t = "active" => InstalledUnder(k)
    PROVE  FleetEvidence'
<1>1. (\A b \in Clients : Warranted(b))'
  <2>1. CASE call' = call
    BY <2>1 DEF FleetEvidence, Warranted, InstalledUnder
  <2>2. CASE call' = [call EXCEPT ![c] = NoCall]
    BY <2>2 DEF FleetEvidence, Warranted, InstalledUnder, FleetTypeOK
  <2>3. ASSUME NEW d \in Devices, NEW t \in {"staged", "active"}, NEW k \in Keys,
               call' = [call EXCEPT ![c] = NewCall(d, t, k)],
               k \in names[d], t = "active" => InstalledUnder(k)
        PROVE  (\A b \in Clients : Warranted(b))'
    <3>1. \A b \in Clients \ {c} : call'[b] = call[b]
      BY <2>3 DEF FleetTypeOK
    <3>2. call'[c] = NewCall(d, t, k)
      BY <2>3 DEF FleetTypeOK
    <3>3. call'[c].dev = d /\ call'[c].target = t /\ call'[c].key = k
      BY <3>2 DEF NewCall
    <3> QED
      BY <2>3, <3>1, <3>3 DEF FleetEvidence, Warranted, InstalledUnder
  <2> QED
    BY <2>1, <2>2, <2>3
<1>2. (\A k \in Keys : Genuine(hw[k], k))'
  BY DEF FleetEvidence, Genuine, InstalledUnder
<1> QED
  BY <1>1, <1>2 DEF FleetEvidence

\* The netbox-updater.
LEMMA WorkerEvidence ==
    ASSUME FleetTypeOK, FleetEvidence, UNCHANGED names,
           \/ \E k \in Keys : Reconcile(k)
           \/ WorkerCall
           \/ WorkerCallFails
           \/ Resync
           \/ WorkerRestart
    PROVE  FleetEvidence' /\ installed' = installed
<1>0. Worker \in Clients
  BY DEF Worker, Clients
<1>1. ASSUME NEW k \in Keys, Reconcile(k)
      PROVE  FleetEvidence' /\ installed' = installed
  <2>1. CASE hw[k] = NoHw \/ DeviceIDFromLabels(hw[k]) = NoDevice
    BY <1>0, <1>1, <2>1, CallEvidence DEF Reconcile
  <2>2. CASE ~(hw[k] = NoHw \/ DeviceIDFromLabels(hw[k]) = NoDevice)
    <3>1. hw[k] \in Hardware
      BY <2>2 DEF FleetTypeOK
    <3>2. hw[k].label # NoLabel /\ DeviceIDFromLabels(hw[k]) = hw[k].label.dev
      BY <2>2 DEF DeviceIDFromLabels
    <3>3. DeviceIDFromLabels(hw[k]) \in Devices
      BY <3>1, <3>2 DEF Hardware, Label
    <3>4. /\ k \in names[DeviceIDFromLabels(hw[k])]
          /\ TargetNetBoxStatus(hw[k]) = "active" => InstalledUnder(k)
      BY <2>2, <3>2 DEF FleetEvidence, Genuine, TargetNetBoxStatus
    <3>5. TargetNetBoxStatus(hw[k]) \in {"staged", "active"}
      BY DEF TargetNetBoxStatus
    <3>6. call' = [call EXCEPT ![Worker] =
                     NewCall(DeviceIDFromLabels(hw[k]), TargetNetBoxStatus(hw[k]), k)]
      BY <1>1, <2>2 DEF Reconcile
    <3> QED
      BY <1>0, <1>1, <3>3, <3>4, <3>5, <3>6, CallEvidence DEF Reconcile
  <2> QED
    BY <2>1, <2>2
<1>2. CASE WorkerCall \/ WorkerCallFails
  BY <1>0, <1>2, StatusCallEvidence
  DEF WorkerCall, WorkerCallFails, Retrieve, PatchStatus, CallFails
<1>3. CASE Resync
  BY <1>0, <1>3, CallEvidence DEF Resync, fleetVars
<1>4. CASE WorkerRestart
  BY <1>0, <1>4, CallEvidence DEF WorkerRestart
<1> QED
  BY <1>1, <1>2, <1>3, <1>4

\* The two commands: what sync-status has listed stays genuine.
LEMMA CliEvidence ==
    ASSUME FleetTypeOK, CliTypeOK, FleetEvidence, UNCHANGED names,
           \A i \in listed : Genuine(i.hw, i.key), Named(sDesired \cup sCur), Cli
    PROVE  /\ FleetEvidence'
           /\ (\A i \in listed : Genuine(i.hw, i.key))'
           /\ installed' = installed
<1> USE FleetAssumption DEF FleetAssumption
<1>0. "cli-sync" \in Clients /\ "cli-sync-status" \in Clients
  BY DEF Clients
<1>1. ASSUME listed' \subseteq listed, installed' = installed
      PROVE  (\A i \in listed : Genuine(i.hw, i.key))'
  BY <1>1 DEF Genuine, InstalledUnder
<1>2. CASE SyncStart \/ SyncListPrune
  BY <1>1, <1>2, ObjectEvidence DEF SyncStart, SyncListPrune, syncStatusVars
<1>3. CASE SyncCreate
  BY <1>1, <1>3, ObjectEvidence DEF SyncCreate, syncStatusVars, CliTypeOK, Named
<1>4. CASE SyncReconcile
  <2>1. PICK e \in sCur : ReconcileExistingHardware("cli-sync", e, hw)
    BY <1>4 DEF SyncReconcile
  <2>2. /\ e \in Label /\ Key(e) \in names[e.dev]
        /\ hw \in [Keys -> Hardware \cup {NoHw}]
        /\ \A k \in Keys : Genuine(hw[k], k)
    BY DEF CliTypeOK, FleetTypeOK, FleetEvidence, Named
  <2> QED
    BY <1>0, <1>1, <1>4, <2>1, <2>2, ReconcileEvidence DEF SyncReconcile, syncStatusVars
<1>5. CASE SyncPrune
  BY <1>1, <1>5, ObjectEvidence, KeyType DEF SyncPrune, syncStatusVars, CliTypeOK
<1>6. CASE SyncExits
  BY <1>0, <1>1, <1>6, CallEvidence DEF SyncExits, syncStatusVars
<1>7. ASSUME NEW ns \in Namespaces, SyncStatusStart(ns)
      PROVE  /\ FleetEvidence'
             /\ (\A i \in listed : Genuine(i.hw, i.key))'
             /\ installed' = installed
  <2>1. UNCHANGED fleetVars
    BY <1>7 DEF SyncStatusStart
  <2>2. FleetEvidence' /\ installed' = installed
    BY <2>1, ObjectEvidence DEF fleetVars
  <2>3. \A i \in listed' : \E k \in Keys : i = [key |-> k, hw |-> hw[k]]
    BY <1>7 DEF SyncStatusStart
  <2>4. \A i \in listed' : i.key \in Keys /\ i.hw = hw[i.key]
    BY <2>3
  <2> QED
    BY <2>2, <2>4 DEF FleetEvidence, Genuine, InstalledUnder
<1>8. CASE SyncStatusNext
  <2> DEFINE target(i) == IF i.hw.prov = "true" THEN "active" ELSE "staged"
  <2>1. PICK i \in listed :
           /\ listed' = listed \ {i}
           /\ call' = IF i.hw.prov = "other" \/ i.hw.label = NoLabel THEN call
                      ELSE [call EXCEPT !["cli-sync-status"] =
                              NewCall(i.hw.label.dev, target(i), i.key)]
    BY <1>8 DEF SyncStatusNext
  <2>2. i.hw \in Hardware /\ i.key \in Keys /\ Genuine(i.hw, i.key)
    BY DEF CliTypeOK, Item
  <2>3. CASE i.hw.label = NoLabel \/ i.hw.prov = "other"
    BY <1>0, <1>1, <1>8, <2>1, <2>3, CallEvidence DEF SyncStatusNext
  <2>4. CASE ~(i.hw.label = NoLabel \/ i.hw.prov = "other")
    <3>1. /\ i.hw.label.dev \in Devices
          /\ i.key \in names[i.hw.label.dev]
          /\ target(i) = "active" => InstalledUnder(i.key)
      BY <2>2, <2>4 DEF Hardware, Label, Genuine
    <3>2. target(i) \in {"staged", "active"}
      OBVIOUS
    <3> HIDE DEF target
    <3> QED
      BY <1>0, <1>1, <1>8, <2>1, <2>2, <2>4, <3>1, <3>2, CallEvidence DEF SyncStatusNext
  <2> QED
    BY <2>3, <2>4
<1>9. CASE CliCall
  BY <1>0, <1>1, <1>9, StatusCallEvidence
  DEF CliCall, cliVars, syncStatusVars, Retrieve, PatchStatus, CallFails
<1> QED
  BY <1>2, <1>3, <1>4, <1>5, <1>6, <1>7, <1>8, <1>9 DEF Cli

\* Entries that are kept stay named.
LEMMA KeptNamed ==
    ASSUME TypeOK, Evidence, \A d \in Devices : names[d] \subseteq names'[d]
    PROVE  /\ UNCHANGED kubernetesVars => Named(desired \cup cur)'
           /\ UNCHANGED cliVars => Named(sDesired \cup sCur)'
<1>1. \A e \in desired \cup cur \cup sDesired \cup sCur : e.dev \in Devices
  BY DEF TypeOK, KubernetesTypeOK, CliTypeOK, Label
<1> QED
  BY <1>1 DEF Evidence, Named, kubernetesVars, cliVars, syncVars

\* A listing names devices as they are called at that moment.
LEMMA ListingNamed ==
    ASSUME \A d \in Devices : KeyNow(d) \in names[d], NEW lost
    PROVE  Named(CreateHardwares(lost)) /\ Named(CreateHardwaresToPrune(lost))
<1>1. ASSUME NEW S, NEW x \in {[dev |-> d, inv |-> inv[d]] :
                                  d \in {e \in GetDevices(S) \ lost : Extractable(e)}}
      PROVE  Key(x) \in names[x.dev]
  <2>1. PICK d \in {e \in GetDevices(S) \ lost : Extractable(e)} :
              x = [dev |-> d, inv |-> inv[d]]
    BY <1>1
  <2>2. d \in Devices
    BY <2>1 DEF GetDevices, FirstPage
  <2>3. x.dev = d /\ x.inv = inv[d]
    BY <2>1
  <2> QED
    BY <2>2, <2>3 DEF Key, KeyNow
<1> QED
  BY <1>1 DEF Named, CreateHardwares, CreateHardwaresToPrune

\* Every step keeps the entries of the listings named.
LEMMA NamedStep ==
    ASSUME TypeOK, TypeOK', Evidence, [Next]_vars
    PROVE  /\ (\A d \in Devices : KeyNow(d) \in names[d])'
           /\ Named(desired \cup cur)' /\ Named(sDesired \cup sCur)'
<1>1. CASE EnvironmentStep
  <2>1. /\ \A d \in Devices : names[d] \subseteq names'[d] /\ KeyNow(d)' \in names'[d]
        /\ UNCHANGED <<kubernetesVars, cliVars>>
    BY <1>1, NameTypes DEF EnvironmentStep, TypeOK
  <2> QED
    BY <2>1, KeptNamed
<1>2. CASE ~EnvironmentStep
  <2>1. UNCHANGED <<inv, names>>
    BY <1>2 DEF Next, KubernetesUpdaterStep, KubernetesUpdaterRestart, CacheStep,
       NetBoxUpdaterTakes, NetBoxUpdaterCalls, NetBoxUpdaterResyncs, NetBoxUpdaterRestart,
       CliStep, SyncTinkerbell, ListDesired, ListToPrune, ListToPruneFails, ApplyHardware,
       CreateHardware, ReconcileHardware, WriteFails, PruneHardware, EndPass, StatusCall,
       Restart, CacheSync, Reconcile, WorkerCall, WorkerCallFails, Resync, WorkerRestart,
       Cli, SyncStart, SyncCreate, SyncReconcile, SyncListPrune, SyncPrune, SyncExits,
       SyncStatusStart, SyncStatusNext, CliCall, Retrieve, PatchStatus, CallFails,
       fleetVars, vars
  <2>2. (\A d \in Devices : KeyNow(d) \in names[d])'
    BY <2>1 DEF Evidence, KeyNow
  <2>3. Named(desired \cup cur)'
    <3>1. ASSUME NEW lost, desired' = CreateHardwares(lost), cur' = cur
          PROVE  Named(desired \cup cur)'
      BY <2>1, <3>1, ListingNamed DEF Evidence, Named
    <3>2. CASE (desired' \cup cur') \subseteq (desired \cup cur)
      BY <2>1, <3>2 DEF Evidence, Named
    <3>3. CASE KubernetesUpdaterStep \/ KubernetesUpdaterRestart
      BY <3>1, <3>2, <3>3
      DEF KubernetesUpdaterStep, KubernetesUpdaterRestart, SyncTinkerbell, ListDesired,
          ListToPrune, ListToPruneFails, ApplyHardware, CreateHardware, ReconcileHardware,
          WriteFails, PruneHardware, EndPass, StatusCall, Restart, kubernetesVars
    <3>4. CASE ~(KubernetesUpdaterStep \/ KubernetesUpdaterRestart)
      <4>1. desired' = desired /\ cur' = cur
        BY <1>2, <3>4
        DEF Next, CacheStep, CacheSync, NetBoxUpdaterTakes, NetBoxUpdaterCalls,
            NetBoxUpdaterResyncs, NetBoxUpdaterRestart, CliStep, kubernetesVars, vars
      <4> QED
        BY <3>2, <4>1
    <3> QED
      BY <3>3, <3>4
  <2>4. Named(sDesired \cup sCur)'
    <3>1. ASSUME NEW lost, sDesired' = CreateHardwares(lost), sCur' = sCur
          PROVE  Named(sDesired \cup sCur)'
      BY <2>1, <3>1, ListingNamed DEF Evidence, Named
    <3>2. CASE (sDesired' \cup sCur') \subseteq (sDesired \cup sCur)
      BY <2>1, <3>2 DEF Evidence, Named
    <3>3. CASE CliStep
      BY <3>1, <3>2, <3>3
      DEF CliStep, Cli, SyncStart, SyncCreate, SyncReconcile, SyncListPrune, SyncPrune,
          SyncExits, SyncStatusStart, SyncStatusNext, CliCall, cliVars, syncVars
    <3>4. CASE ~CliStep
      <4>1. sDesired' = sDesired /\ sCur' = sCur
        BY <1>2, <3>4
        DEF Next, KubernetesUpdaterStep, KubernetesUpdaterRestart, CacheStep,
            NetBoxUpdaterTakes, NetBoxUpdaterCalls, NetBoxUpdaterResyncs,
            NetBoxUpdaterRestart, cliVars, syncVars, vars
      <4> QED
        BY <3>2, <4>1
    <3> QED
      BY <3>3, <3>4
  <2> QED
    BY <2>2, <2>3, <2>4
<1> QED
  BY <1>1, <1>2

\* Every step keeps the evidence.
LEMMA EvidenceStep ==
    ASSUME TypeOK, Evidence, [Next]_vars
    PROVE  Evidence'
<1> USE DEF TypeOK
<1>0. /\ FleetEvidence /\ Named(desired \cup cur) /\ Named(sDesired \cup sCur)
      /\ \A k \in Keys : Genuine(cache[k], k)
      /\ \A i \in listed : Genuine(i.hw, i.key)
  BY DEF Evidence, FleetEvidence
<1> DEFINE Grown == /\ installed \subseteq installed'
                    /\ \A d \in Devices : names[d] \subseteq names'[d]
<1>1. ASSUME cache' = cache, Grown
      PROVE  (\A k \in Keys : Genuine(cache[k], k))'
  <2>1. \A k \in Keys : cache[k] # NoHw =>
           /\ cache[k].machine \in Devices
           /\ cache[k].label # NoLabel => cache[k].label.dev \in Devices
    BY DEF KubernetesTypeOK, Hardware, Label
  <2> QED
    BY <1>0, <1>1, <2>1 DEF Genuine, InstalledUnder, FleetTypeOK
<1>2. ASSUME listed' = listed, Grown
      PROVE  (\A i \in listed : Genuine(i.hw, i.key))'
  <2>2. \A k : (\E d \in installed : k \in names[d]) =>
               (\E d \in installed' : k \in names'[d])
    BY <1>2 DEF FleetTypeOK
  <2> HIDE DEF Grown
  <2>3. \A d \in Devices : names[d] \subseteq names'[d]
    BY <1>2 DEF Grown
  <2>4. ASSUME NEW i \in listed
        PROVE  Genuine(i.hw, i.key)'
    <3>1. Genuine(i.hw, i.key)
      BY <1>0, <2>4
    <3>2. i.hw.machine \in Devices /\ (i.hw.label # NoLabel => i.hw.label.dev \in Devices)
      BY <2>4 DEF CliTypeOK, Item, Hardware, Label
    <3> QED
      BY <2>2, <2>3, <3>1, <3>2 DEF Genuine, InstalledUnder
  <2> QED
    BY <1>2, <2>4
<1>3. ASSUME FleetEvidence', (\A k \in Keys : Genuine(cache[k], k))',
             (\A i \in listed : Genuine(i.hw, i.key))'
      PROVE  Evidence'
  BY <1>3, TypeStep, NamedStep DEF Evidence, FleetEvidence
<1>4. CASE EnvironmentStep
  <2>1. \A d \in Devices : names[d] \subseteq names'[d]
    BY <1>4 DEF EnvironmentStep, RecordNames
  <2>2. FleetEvidence' /\ Grown
    BY <1>0, <1>4, <2>1, EnvironmentEvidence DEF EnvironmentStep
  <2> QED
    BY <1>1, <1>2, <1>3, <1>4, <2>2
    DEF EnvironmentStep, kubernetesVars, cliVars, syncStatusVars
<1>5. CASE KubernetesUpdaterStep
  BY <1>0, <1>1, <1>2, <1>3, <1>5, SyncTinkerbellEvidence
  DEF KubernetesUpdaterStep, cliVars, syncStatusVars
<1>6. CASE KubernetesUpdaterRestart
  <2>1. FleetEvidence'
    BY <1>0, <1>6, CallEvidence DEF KubernetesUpdaterRestart, Restart, Client, Clients
  <2>2. (\A k \in Keys : Genuine(cache[k], k))'
    BY <1>0, <1>6 DEF KubernetesUpdaterRestart, Restart, Relist, FleetEvidence,
       Genuine, InstalledUnder
  <2> QED
    BY <1>2, <1>3, <1>6, <2>1, <2>2
    DEF KubernetesUpdaterRestart, Restart, cliVars, syncStatusVars
<1>7. ASSUME NEW k \in Keys, CacheStep(k)
      PROVE  Evidence'
  <2>1. FleetEvidence'
    BY <1>0, <1>7, ObjectEvidence DEF CacheStep, CacheSync, fleetVars
  <2>2. (\A j \in Keys : Genuine(cache[j], j))'
    BY <1>0, <1>7 DEF CacheStep, CacheSync, FleetEvidence, KubernetesTypeOK,
       Genuine, InstalledUnder, fleetVars
  <2> QED
    BY <1>2, <1>3, <1>7, <2>1, <2>2
    DEF CacheStep, CacheSync, fleetVars, cliVars, syncStatusVars
<1>8. CASE \/ \E k \in Keys : NetBoxUpdaterTakes(k)
           \/ NetBoxUpdaterCalls \/ NetBoxUpdaterResyncs \/ NetBoxUpdaterRestart
  <2>1. UNCHANGED <<kubernetesVars, cliVars, names>>
    BY <1>8 DEF NetBoxUpdaterTakes, NetBoxUpdaterCalls, NetBoxUpdaterResyncs,
       NetBoxUpdaterRestart
  <2>2. FleetEvidence' /\ installed' = installed
    BY <1>0, <1>8, <2>1, WorkerEvidence
    DEF NetBoxUpdaterTakes, NetBoxUpdaterCalls, NetBoxUpdaterResyncs, NetBoxUpdaterRestart
  <2> QED
    BY <1>1, <1>2, <1>3, <2>1, <2>2 DEF kubernetesVars, cliVars, syncStatusVars
<1>9. CASE CliStep
  BY <1>0, <1>1, <1>3, <1>9, CliEvidence DEF CliStep, kubernetesVars
<1>10. CASE UNCHANGED vars
  <2>1. FleetEvidence'
    BY <1>0, <1>10, ObjectEvidence DEF vars, fleetVars
  <2> QED
    BY <1>1, <1>2, <1>3, <1>10, <2>1
    DEF vars, fleetVars, kubernetesVars, cliVars, syncStatusVars
<1> QED
  BY <1>4, <1>5, <1>6, <1>7, <1>8, <1>9, <1>10 DEF Next

\* At the start nothing is marked provisioned and no call is under way.
LEMMA EvidenceInit ==
    ASSUME Init
    PROVE  Evidence
<1>0. (\A d \in Devices : KeyNow(d) \in names[d]) /\ Named(desired \cup cur)
      /\ Named(sDesired \cup sCur)
  BY DEF Init, KubernetesInit, CliInit, Named
<1>1. \A k \in Keys : Genuine(hw[k], k)
  BY <1>0, FleetAssumption DEF FleetAssumption, Init, FleetInit, HandMade, Genuine
<1>2. \A k \in Keys : Genuine(cache[k], k)
  BY <1>1 DEF Init, KubernetesInit, Relist, Genuine
<1>3. (\A i \in listed : Genuine(i.hw, i.key)) /\ (\A c \in Clients : Warranted(c))
  BY DEF Init, FleetInit, CliInit, Warranted
<1> QED
  BY <1>0, <1>1, <1>2, <1>3 DEF Evidence

-----------------------------------------------------------------------------
(* Promotions are founded: marks are copied, never invented.               *)

\* No object is marked that was not marked before.
MarksKept == \A k \in Keys : Marked(hw'[k]) => Marked(hw[k])

\* Objects are created unmarked, deleted, or left alone.
LEMMA ObjectMarks ==
    ASSUME FleetTypeOK,
           \/ hw' = hw
           \/ \E k \in Keys : hw' = [hw EXCEPT ![k] = NoHw]
           \/ \E e \in Label : hw' = [hw EXCEPT ![Key(e)] = NewHardware(e)]
    PROVE  MarksKept
<1>1. CASE hw' = hw
  BY <1>1 DEF MarksKept
<1>2. CASE \E k \in Keys : hw' = [hw EXCEPT ![k] = NoHw]
  BY <1>2 DEF MarksKept, Marked, FleetTypeOK
<1>3. ASSUME NEW e \in Label, hw' = [hw EXCEPT ![Key(e)] = NewHardware(e)]
      PROVE  MarksKept
  <2>1. NewHardware(e).prov = "absent"
    BY DEF NewHardware
  <2>2. \A k \in Keys : hw'[k] = hw[k] \/ hw'[k] = NewHardware(e)
    BY <1>3 DEF FleetTypeOK
  <2> QED
    BY <2>1, <2>2 DEF MarksKept, Marked
<1> QED
  BY <1>1, <1>2, <1>3

\* The requests of a status call start no other, and set what the call says.
LEMMA StatusCallPromises ==
    ASSUME FleetTypeOK, NEW c \in Clients, NEW d \in Devices,
           Retrieve(c) \/ PatchStatus(c) \/ CallFails(c)
    PROVE  /\ hw' = hw
           /\ CalledActive(d)' => CalledActive(d)
           /\ status[d] # "active" /\ status'[d] = "active" => CalledActive(d)
<1>1. hw' = hw /\ call[c] # NoCall
  BY DEF Retrieve, PatchStatus, CallFails
<1>2. call[c] \in Call
  BY <1>1 DEF FleetTypeOK
<1>3. \/ call' = [call EXCEPT ![c] = NoCall]
      \/ call' = [call EXCEPT ![c] = [call[c] EXCEPT !.phase = "patch"]]
  BY DEF Retrieve, PatchStatus, CallFails
<1>4. CalledActive(d)' => CalledActive(d)
  <2>1. CASE call' = [call EXCEPT ![c] = NoCall]
    BY <2>1 DEF CalledActive, FleetTypeOK
  <2>2. CASE call' = [call EXCEPT ![c] = [call[c] EXCEPT !.phase = "patch"]]
    <3>1. call'[c].dev = call[c].dev /\ call'[c].target = call[c].target
      BY <1>2, <2>2 DEF FleetTypeOK, Call
    <3>2. \A b \in Clients \ {c} : call'[b] = call[b]
      BY <2>2 DEF FleetTypeOK
    <3> QED
      BY <1>1, <3>1, <3>2 DEF CalledActive
  <2> QED
    BY <1>3, <2>1, <2>2
<1>5. status' = status \/ status' = [status EXCEPT ![call[c].dev] = call[c].target]
  BY DEF Retrieve, PatchStatus, CallFails
<1>6. status[d] # "active" /\ status'[d] = "active" => CalledActive(d)
  BY <1>1, <1>5 DEF CalledActive, FleetTypeOK
<1> QED
  BY <1>1, <1>4, <1>6

\* A call is given up, or started on a marked object under a name of the device.
LEMMA NewCallPromises ==
    ASSUME FleetTypeOK, NEW c \in Clients, NEW d \in Devices,
           \/ call' = call
           \/ call' = [call EXCEPT ![c] = NoCall]
           \/ \E e \in Devices, t \in {"staged", "active"}, k \in Keys :
                 /\ call' = [call EXCEPT ![c] = NewCall(e, t, k)]
                 /\ k \in names[e]
                 /\ t = "active" => MarkedUnder(k)
    PROVE  CalledActive(d)' => Promised(d)
<1>1. CASE call' = call
  BY <1>1 DEF CalledActive, Promised
<1>2. CASE call' = [call EXCEPT ![c] = NoCall]
  BY <1>2 DEF CalledActive, Promised, FleetTypeOK
<1>3. ASSUME NEW e \in Devices, NEW t \in {"staged", "active"}, NEW k \in Keys,
             call' = [call EXCEPT ![c] = NewCall(e, t, k)],
             k \in names[e], t = "active" => MarkedUnder(k)
      PROVE  CalledActive(d)' => Promised(d)
  <2>1. \A b \in Clients \ {c} : call'[b] = call[b]
    BY <1>3 DEF FleetTypeOK
  <2>2. call'[c].dev = e /\ call'[c].target = t
    BY <1>3 DEF FleetTypeOK, NewCall
  <2> QED
    BY <1>3, <2>1, <2>2 DEF CalledActive, Promised
<1> QED
  BY <1>1, <1>2, <1>3

\* ReconcileExistingHardware marks nothing, and starts a call only on a mark.
LEMMA ReconcilePromises ==
    ASSUME FleetTypeOK, NEW c \in Clients, NEW e \in Label, NEW d \in Devices,
           NEW view \in [Keys -> Hardware \cup {NoHw}], view = cache \/ view = hw,
           Key(e) \in names[e.dev], ReconcileExistingHardware(c, e, view)
    PROVE  MarksKept /\ (CalledActive(d)' => Promised(d))
<1> USE FleetAssumption DEF FleetAssumption
<1> DEFINE k == Key(e)
           stale == view[k].label # e
           merged == MergePatch(view[k].label, hw[k].label, e)
           patched == [hw EXCEPT ![k].label = merged]
<1>1. e.dev \in Devices /\ k \in Keys
  BY KeyType
<1>2. CASE view[k] = NoHw \/ (stale /\ hw[k] = NoHw)
  BY <1>2, ObjectMarks, NewCallPromises DEF ReconcileExistingHardware
<1>3. CASE ~(view[k] = NoHw \/ (stale /\ hw[k] = NoHw))
  <2>1. /\ hw' = IF stale THEN patched ELSE hw
        /\ call' = IF (IF stale THEN patched[k] ELSE view[k]).prov = "true"
                   THEN [call EXCEPT ![c] = NewCall(e.dev, "active", k)]
                   ELSE call
    BY <1>3 DEF ReconcileExistingHardware
  <2>2. ASSUME stale
        PROVE  /\ patched[k].prov = hw[k].prov
               /\ \A j \in Keys \ {k} : patched[j] = hw[j]
    <3> HIDE DEF merged
    <3>1. hw[k] \in Hardware
      BY <1>1, <1>3, <2>2 DEF FleetTypeOK
    <3>2. patched[k] = [hw[k] EXCEPT !.label = merged]
      BY <1>1 DEF FleetTypeOK
    <3>3. \A j \in Keys \ {k} : patched[j] = hw[j]
      BY <1>1 DEF FleetTypeOK
    <3> HIDE DEF patched
    <3> QED
      BY <3>1, <3>2, <3>3 DEF Hardware
  <2> HIDE DEF patched
  <2>3. MarksKept
    <3>1. CASE stale
      BY <1>1, <1>3, <2>1, <2>2, <3>1 DEF MarksKept, Marked
    <3>2. CASE ~stale
      BY <2>1, <3>2 DEF MarksKept
    <3> QED
      BY <3>1, <3>2
  <2>4. (IF stale THEN patched[k] ELSE view[k]).prov = "true" => MarkedUnder(k)
    BY <1>3, <2>2 DEF MarkedUnder, Marked
  <2> HIDE DEF stale, k
  <2>5. CASE call' = call
    BY <2>3, <2>5, NewCallPromises
  <2>6. CASE call' = [call EXCEPT ![c] = NewCall(e.dev, "active", k)] /\ MarkedUnder(k)
    <3>1. k \in names[e.dev]
      BY DEF k
    <3> QED
      BY <1>1, <2>3, <2>6, <3>1, NewCallPromises
  <2> QED
    BY <2>1, <2>4, <2>5, <2>6
<1> QED
  BY <1>2, <1>3

\* What a step of a program does to the promises made to device d.
PromisesKept(d) ==
    /\ MarksKept
    /\ CalledActive(d)' => Promised(d)
    /\ status[d] # "active" /\ status'[d] = "active" => CalledActive(d)

\* The requests of a status call.
LEMMA CallKeepsPromises ==
    ASSUME FleetTypeOK, NEW c \in Clients, NEW d \in Devices,
           Retrieve(c) \/ PatchStatus(c) \/ CallFails(c)
    PROVE  PromisesKept(d)
BY StatusCallPromises, ObjectMarks DEF PromisesKept, Promised

\* The steps of a pass.
LEMMA PassKeepsPromises ==
    ASSUME FleetTypeOK, KubernetesTypeOK, Named(desired \cup cur), SyncTinkerbell,
           NEW d \in Devices
    PROVE  PromisesKept(d) /\ cache' = cache
<1> USE FleetAssumption DEF FleetAssumption
<1>0. Client \in Clients
  BY DEF Client, Clients
<1>1. CASE ListDesired \/ ListToPrune \/ ListToPruneFails \/ WriteFails
  <2>1. UNCHANGED <<hw, call, status, cache>>
    BY <1>1 DEF ListDesired, ListToPrune, ListToPruneFails, WriteFails
  <2> QED
    BY <1>0, <2>1, ObjectMarks, NewCallPromises DEF PromisesKept
<1>2. CASE ApplyHardware \/ EndPass
  <2>1. UNCHANGED <<hw, call, status, cache>>
    BY <1>2 DEF ApplyHardware, EndPass, fleetVars
  <2> QED
    BY <1>0, <2>1, ObjectMarks, NewCallPromises DEF PromisesKept
<1>3. CASE CreateHardware
  <2>1. MarksKept
    BY <1>3, ObjectMarks DEF CreateHardware, KubernetesTypeOK
  <2> QED
    BY <1>0, <1>3, <2>1, NewCallPromises DEF CreateHardware, PromisesKept
<1>4. CASE ReconcileHardware
  <2>1. PICK e \in cur : ReconcileExistingHardware(Client, e, cache)
    BY <1>4 DEF ReconcileHardware
  <2>2. e \in Label /\ Key(e) \in names[e.dev]
    BY DEF KubernetesTypeOK, Named
  <2>3. MarksKept /\ (CalledActive(d)' => Promised(d))
    BY <1>0, <2>1, <2>2, ReconcilePromises DEF KubernetesTypeOK
  <2> QED
    BY <1>4, <2>3 DEF ReconcileHardware, PromisesKept
<1>5. CASE PruneHardware
  <2>1. PICK e \in toPrune : hw' = hw \/ hw' = [hw EXCEPT ![Key(e)] = NoHw]
    BY <1>5 DEF PruneHardware
  <2>2. Key(e) \in Keys
    BY KeyType DEF KubernetesTypeOK
  <2>3. MarksKept
    BY <2>1, <2>2, ObjectMarks
  <2> QED
    BY <1>0, <1>5, <2>3, NewCallPromises DEF PruneHardware, PromisesKept
<1>6. CASE StatusCall
  BY <1>0, <1>6, CallKeepsPromises DEF StatusCall, kubernetesVars
<1> QED
  BY <1>1, <1>2, <1>3, <1>4, <1>5, <1>6 DEF SyncTinkerbell

\* The netbox-updater.
LEMMA WorkerKeepsPromises ==
    ASSUME FleetTypeOK, FleetEvidence, NEW d \in Devices,
           \/ \E k \in Keys : Reconcile(k)
           \/ WorkerCall
           \/ WorkerCallFails
           \/ Resync
           \/ WorkerRestart
    PROVE  PromisesKept(d)
<1>0. Worker \in Clients
  BY DEF Worker, Clients
<1>1. ASSUME NEW k \in Keys, Reconcile(k)
      PROVE  PromisesKept(d)
  <2>0. UNCHANGED <<hw, status>>
    BY <1>1 DEF Reconcile
  <2>1. CASE hw[k] = NoHw \/ DeviceIDFromLabels(hw[k]) = NoDevice
    BY <1>0, <1>1, <2>0, <2>1, ObjectMarks, NewCallPromises DEF Reconcile, PromisesKept
  <2>2. CASE ~(hw[k] = NoHw \/ DeviceIDFromLabels(hw[k]) = NoDevice)
    <3>1. hw[k] \in Hardware
      BY <2>2 DEF FleetTypeOK
    <3>2. hw[k].label # NoLabel /\ DeviceIDFromLabels(hw[k]) = hw[k].label.dev
      BY <2>2 DEF DeviceIDFromLabels
    <3>3. DeviceIDFromLabels(hw[k]) \in Devices
      BY <3>1, <3>2 DEF Hardware, Label
    <3>4. /\ k \in names[DeviceIDFromLabels(hw[k])]
          /\ TargetNetBoxStatus(hw[k]) = "active" => MarkedUnder(k)
      BY <2>2, <3>2 DEF FleetEvidence, Genuine, TargetNetBoxStatus, MarkedUnder, Marked
    <3>5. TargetNetBoxStatus(hw[k]) \in {"staged", "active"}
      BY DEF TargetNetBoxStatus
    <3>6. call' = [call EXCEPT ![Worker] =
                     NewCall(DeviceIDFromLabels(hw[k]), TargetNetBoxStatus(hw[k]), k)]
      BY <1>1, <2>2 DEF Reconcile
    <3>7. CalledActive(d)' => Promised(d)
      BY <1>0, <3>3, <3>4, <3>5, <3>6, NewCallPromises
    <3> QED
      BY <2>0, <3>7, ObjectMarks DEF PromisesKept
  <2> QED
    BY <2>1, <2>2
<1>2. CASE WorkerCall \/ WorkerCallFails
  BY <1>0, <1>2, CallKeepsPromises DEF WorkerCall, WorkerCallFails
<1>3. CASE Resync
  BY <1>0, <1>3, ObjectMarks, NewCallPromises DEF Resync, fleetVars, PromisesKept
<1>4. CASE WorkerRestart
  BY <1>0, <1>4, ObjectMarks, NewCallPromises DEF WorkerRestart, PromisesKept
<1> QED
  BY <1>1, <1>2, <1>3, <1>4

\* The two commands; what sync-status lists is what the API has.
LEMMA CliKeepsPromises ==
    ASSUME FleetTypeOK, CliTypeOK, Cli, NEW d \in Devices,
           \A i \in listed : Genuine(i.hw, i.key), Named(sDesired \cup sCur)
    PROVE  /\ PromisesKept(d)
           /\ \A i \in listed' : i \in listed \/ i.hw = hw[i.key]
<1> USE FleetAssumption DEF FleetAssumption
<1>0. "cli-sync" \in Clients /\ "cli-sync-status" \in Clients
  BY DEF Clients
<1>2. CASE SyncStart \/ SyncListPrune
  <2>1. UNCHANGED <<hw, call, status, listed>>
    BY <1>2 DEF SyncStart, SyncListPrune, syncStatusVars
  <2> QED
    BY <1>0, <2>1, ObjectMarks, NewCallPromises DEF PromisesKept
<1>3. CASE SyncCreate
  <2>1. MarksKept
    BY <1>3, ObjectMarks DEF SyncCreate, CliTypeOK
  <2> QED
    BY <1>0, <1>3, <2>1, NewCallPromises DEF SyncCreate, PromisesKept, syncStatusVars
<1>4. CASE SyncReconcile
  <2>1. PICK e \in sCur : ReconcileExistingHardware("cli-sync", e, hw)
    BY <1>4 DEF SyncReconcile
  <2>2. e \in Label /\ Key(e) \in names[e.dev]
    BY DEF CliTypeOK, Named
  <2>3. MarksKept /\ (CalledActive(d)' => Promised(d))
    BY <1>0, <2>1, <2>2, ReconcilePromises DEF FleetTypeOK
  <2> QED
    BY <1>4, <2>3 DEF SyncReconcile, PromisesKept, syncStatusVars
<1>5. CASE SyncPrune
  <2>1. hw' = hw \/ \E k \in Keys : hw' = [hw EXCEPT ![k] = NoHw]
    BY <1>5, KeyType DEF SyncPrune, CliTypeOK
  <2>2. MarksKept
    BY <2>1, ObjectMarks
  <2> QED
    BY <1>0, <1>5, <2>2, NewCallPromises DEF SyncPrune, PromisesKept, syncStatusVars
<1>6. CASE SyncExits
  BY <1>0, <1>6, ObjectMarks, NewCallPromises DEF SyncExits, PromisesKept, syncStatusVars
<1>7. ASSUME NEW ns \in Namespaces, SyncStatusStart(ns)
      PROVE  /\ PromisesKept(d)
             /\ \A i \in listed' : i \in listed \/ i.hw = hw[i.key]
  <2>1. UNCHANGED <<hw, call, status>>
    BY <1>7 DEF SyncStatusStart, fleetVars
  <2>2. \A i \in listed' : \E k \in Keys : i = [key |-> k, hw |-> hw[k]]
    BY <1>7 DEF SyncStatusStart
  <2>3. \A i \in listed' : i.hw = hw[i.key]
    BY <2>2
  <2> QED
    BY <1>0, <2>1, <2>3, ObjectMarks, NewCallPromises DEF PromisesKept
<1>8. CASE SyncStatusNext
  <2> DEFINE target(i) == IF i.hw.prov = "true" THEN "active" ELSE "staged"
  <2>1. PICK i \in listed :
           /\ listed' = listed \ {i}
           /\ call' = IF i.hw.prov = "other" \/ i.hw.label = NoLabel THEN call
                      ELSE [call EXCEPT !["cli-sync-status"] =
                              NewCall(i.hw.label.dev, target(i), i.key)]
    BY <1>8 DEF SyncStatusNext
  <2>2. i.hw \in Hardware /\ i.hw # NoHw /\ i.key \in Keys /\ Genuine(i.hw, i.key)
    BY DEF CliTypeOK, Item
  <2>3. UNCHANGED <<hw, status>>
    BY <1>8 DEF SyncStatusNext
  <2>4. CalledActive(d)' => Promised(d)
    <3>1. CASE i.hw.label = NoLabel \/ i.hw.prov = "other"
      BY <1>0, <2>1, <3>1, NewCallPromises
    <3>2. CASE ~(i.hw.label = NoLabel \/ i.hw.prov = "other")
      <4>1. i.hw.label.dev \in Devices /\ i.key \in names[i.hw.label.dev]
        BY <2>2, <3>2 DEF Hardware, Label, Genuine
      <4>2. target(i) = "active" => MarkedUnder(i.key)
        BY <2>2 DEF MarkedUnder, Marked
      <4>3. target(i) \in {"staged", "active"}
        OBVIOUS
      <4> HIDE DEF target
      <4> QED
        BY <1>0, <2>1, <2>2, <3>2, <4>1, <4>2, <4>3, NewCallPromises
    <3> QED
      BY <3>1, <3>2
  <2> QED
    BY <2>1, <2>3, <2>4, ObjectMarks DEF PromisesKept
<1>9. CASE CliCall
  BY <1>0, <1>9, CallKeepsPromises DEF CliCall, cliVars, syncStatusVars
<1> QED
  BY <1>2, <1>3, <1>4, <1>5, <1>6, <1>7, <1>8, <1>9 DEF Cli

\* Operator and provisioner: the one invents statuses, the other marks.
LEMMA EnvironmentPromises ==
    ASSUME TypeOK, FleetEvidence, EnvironmentStep, NEW d \in Devices
    PROVE  /\ status[d] # "active" /\ status'[d] = "active" => ops' # ops
           /\ Promised(d)' => Promised(d) \/ JustInstalled(d) \/ names'[d] # names[d]
<1>0. /\ UNCHANGED <<call, cache, listed>>
      /\ names[d] \subseteq Keys
      /\ ops \in Nat
  <2>1. UNCHANGED <<cache, listed>> /\ Environment
    BY DEF EnvironmentStep, kubernetesVars, cliVars, syncStatusVars
  <2>2. call' = call
    BY <2>1 DEF Environment, OperatorSetsStatus, OperatorEditsDevice, WorkflowSucceeds,
       AnnotationChanges
  <2> QED
    BY <2>1, <2>2, FleetAssumption DEF TypeOK, FleetTypeOK, FleetAssumption
<1>1. ASSUME MarksKept
      PROVE  Promised(d)' => Promised(d) \/ names'[d] # names[d]
  BY <1>0, <1>1 DEF Promised, CalledActive, MarkedUnder, MarksKept
<1>2. ASSUME NEW e \in Devices, NEW s \in OperatorStatuses, OperatorSetsStatus(e, s)
      PROVE  ops' # ops /\ (Promised(d)' => Promised(d) \/ names'[d] # names[d])
  BY <1>0, <1>1, <1>2 DEF OperatorSetsStatus, SpendOp, MarksKept
<1>3. ASSUME NEW e \in Devices, NEW i \in Invs, OperatorEditsDevice(e, i)
      PROVE  ops' # ops /\ (Promised(d)' => Promised(d) \/ names'[d] # names[d])
  BY <1>0, <1>1, <1>3 DEF OperatorEditsDevice, SpendOp, MarksKept
<1>4. ASSUME NEW k \in Keys, WorkflowSucceeds(k)
      PROVE  status' = status
             /\ (Promised(d)' => Promised(d) \/ JustInstalled(d) \/ names'[d] # names[d])
  <2>1. \A j \in Keys \ {k} : hw'[j] = hw[j]
    BY <1>4 DEF WorkflowSucceeds, TypeOK, FleetTypeOK
  <2>2. k \in names[hw[k].machine]
    BY <1>4 DEF WorkflowSucceeds, FleetEvidence, Genuine
  <2>3. k \in names[d] => JustInstalled(d)
    BY <1>4, <2>2 DEF WorkflowSucceeds, JustInstalled
  <2>4. ASSUME k \notin names[d], names'[d] = names[d]
        PROVE  Promised(d)' => Promised(d)
    BY <1>0, <2>1, <2>4 DEF Promised, CalledActive, MarkedUnder
  <2> QED
    BY <1>4, <2>3, <2>4 DEF WorkflowSucceeds
<1>5. ASSUME NEW k \in Keys, NEW p \in {"absent", "other"}, AnnotationChanges(k, p)
      PROVE  ops' # ops /\ (Promised(d)' => Promised(d) \/ names'[d] # names[d])
  <2>1. hw[k] \in Hardware
    BY <1>5 DEF AnnotationChanges, TypeOK, FleetTypeOK
  <2>2. hw'[k].prov = p
    BY <1>5, <2>1 DEF AnnotationChanges, TypeOK, FleetTypeOK, Hardware
  <2>3. \A j \in Keys \ {k} : hw'[j] = hw[j]
    BY <1>5 DEF AnnotationChanges, TypeOK, FleetTypeOK
  <2>4. MarksKept
    BY <2>2, <2>3 DEF MarksKept, Marked
  <2> QED
    BY <1>0, <1>1, <1>5, <2>4 DEF AnnotationChanges, SpendOp
<1>6. Environment
  BY DEF EnvironmentStep
<1> QED
  BY <1>2, <1>3, <1>4, <1>5, <1>6 DEF Environment

\* A step of a program adds no promise.
LEMMA PromiseStep ==
    ASSUME TypeOK, NEW d \in Devices, PromisesKept(d), names' = names,
           \A k \in Keys : Marked(cache'[k]) => Marked(cache[k]) \/ Marked(hw[k]),
           \A i \in listed' : i \in listed \/ i.hw = hw[i.key]
    PROVE  /\ status[d] # "active" /\ status'[d] = "active" => Promised(d)
           /\ Promised(d)' => Promised(d)
<1>1. ASSUME NEW k \in Keys
      PROVE  MarkedUnder(k)' => MarkedUnder(k)
  BY DEF MarkedUnder, PromisesKept, MarksKept
<1>2. names[d] \subseteq Keys
  BY DEF TypeOK
<1> QED
  BY <1>1, <1>2 DEF Promised, PromisesKept

\* Nobody but an operator makes a device active without a mark under a name of
\* it, and nothing but an installation, or a rename, brings a mark: whatever is
\* retried, lost, restarted, read from a stale copy or shared between devices
\* of one name, a mark that is gone promotes nothing any more.
THEOREM MarksAreNotInvented == Spec => PromotionsAreFounded
<1>1. Init => TypeOK /\ Evidence
  BY TypeInit, EvidenceInit
<1>2. TypeOK /\ Evidence /\ [Next]_vars => (TypeOK /\ Evidence)'
  BY TypeStep, EvidenceStep
<1> DEFINE Founded ==
      \A d \in Devices :
          /\ status[d] # "active" /\ status'[d] = "active" => ops' # ops \/ Promised(d)
          /\ Promised(d)' => Promised(d) \/ JustInstalled(d) \/ names'[d] # names[d]
<1>3. ASSUME TypeOK, Evidence, Next, NEW d \in Devices
      PROVE  /\ status[d] # "active" /\ status'[d] = "active" => ops' # ops \/ Promised(d)
             /\ Promised(d)' => Promised(d) \/ JustInstalled(d) \/ names'[d] # names[d]
  <2>0. /\ FleetTypeOK /\ KubernetesTypeOK /\ CliTypeOK
        /\ FleetEvidence /\ Named(desired \cup cur) /\ Named(sDesired \cup sCur)
        /\ \A i \in listed : Genuine(i.hw, i.key)
    BY <1>3 DEF TypeOK, Evidence, FleetEvidence
  <2>1. CASE EnvironmentStep
    BY <1>3, <2>0, <2>1, EnvironmentPromises
  <2>2. CASE KubernetesUpdaterStep
    <3>1. UNCHANGED <<listed, names>> /\ SyncTinkerbell
      BY <2>2 DEF KubernetesUpdaterStep, cliVars, syncStatusVars
    <3>2. PromisesKept(d) /\ cache' = cache
      BY <2>0, <3>1, PassKeepsPromises
    <3> QED
      BY <1>3, <3>1, <3>2, PromiseStep
  <2>3. CASE KubernetesUpdaterRestart
    <3>1. UNCHANGED <<listed, names>> /\ Restart
      BY <2>3 DEF KubernetesUpdaterRestart, cliVars, syncStatusVars
    <3>2. PromisesKept(d)
      <4>1. Client \in Clients
        BY DEF Client, Clients
      <4> QED
        BY <2>0, <3>1, <4>1, ObjectMarks, NewCallPromises DEF Restart, PromisesKept
    <3>3. \A k \in Keys : Marked(cache'[k]) => Marked(hw[k])
      BY <3>1 DEF Restart, Relist, Marked
    <3> QED
      BY <1>3, <3>1, <3>2, <3>3, PromiseStep
  <2>4. ASSUME NEW k \in Keys, CacheStep(k)
        PROVE  /\ status[d] # "active" /\ status'[d] = "active" => Promised(d)
               /\ Promised(d)' => Promised(d)
    <3>1. UNCHANGED <<listed, names, fleetVars>> /\ CacheSync(k)
      BY <2>4 DEF CacheStep, CacheSync, cliVars, syncStatusVars
    <3>2. PromisesKept(d)
      <4>1. Client \in Clients
        BY DEF Client, Clients
      <4> QED
        BY <2>0, <3>1, <4>1, ObjectMarks, NewCallPromises DEF fleetVars, PromisesKept
    <3>3. \A j \in Keys : cache'[j] = cache[j] \/ cache'[j] = hw[j]
      BY <2>0, <3>1 DEF CacheSync, KubernetesTypeOK
    <3> QED
      BY <1>3, <3>1, <3>2, <3>3, PromiseStep
  <2>5. CASE \/ \E k \in Keys : NetBoxUpdaterTakes(k)
             \/ NetBoxUpdaterCalls \/ NetBoxUpdaterResyncs \/ NetBoxUpdaterRestart
    <3>1. UNCHANGED <<listed, cache, names>>
      BY <2>5 DEF NetBoxUpdaterTakes, NetBoxUpdaterCalls, NetBoxUpdaterResyncs,
         NetBoxUpdaterRestart, kubernetesVars, cliVars, syncStatusVars
    <3>2. PromisesKept(d)
      BY <2>0, <2>5, WorkerKeepsPromises
      DEF NetBoxUpdaterTakes, NetBoxUpdaterCalls, NetBoxUpdaterResyncs, NetBoxUpdaterRestart
    <3> QED
      BY <1>3, <3>1, <3>2, PromiseStep
  <2>6. CASE CliStep
    <3>1. UNCHANGED <<cache, names>> /\ Cli
      BY <2>6 DEF CliStep, kubernetesVars
    <3>2. PromisesKept(d) /\ \A i \in listed' : i \in listed \/ i.hw = hw[i.key]
      BY <2>0, <3>1, CliKeepsPromises
    <3> QED
      BY <1>3, <3>1, <3>2, PromiseStep
  <2> QED
    BY <1>3, <2>1, <2>2, <2>3, <2>4, <2>5, <2>6 DEF Next
<1>4. TypeOK /\ Evidence /\ [Next]_vars => [Founded]_vars
  BY <1>3
<1> QED
  BY <1>1, <1>2, <1>4, PTL DEF Spec, PromotionsAreFounded

-----------------------------------------------------------------------------
(* A pass acts only on what it has seen.                                   *)

\* Steps that leave the lists of the pass and its call alone, and only add
\* to the history.
LEMMA PassUndisturbed ==
    ASSUME TypeOK, PassOK, Observe \/ UNCHANGED <<seen, status>>,
           TypeOK', RecordNames \/ UNCHANGED <<inv, names>>,
           UNCHANGED <<kPc, desired, toPrune, cur>>,
           call'[Client] = call[Client] \/ kPc = "apply"
    PROVE  PassOK'
<1>1. (\A d \in Devices : status[d] \in seen[d])'
  BY DEF PassOK, Observe
<1>2. \A d \in Devices : seen[d] \subseteq seen'[d]
  BY DEF Observe, TypeOK
<1>3. \A e \in desired \cup cur \cup toPrune : e.dev \in Devices
  BY DEF TypeOK, KubernetesTypeOK, Label
<1>6. \A d \in Devices : names[d] \subseteq names'[d] /\ KeyNow(d)' \in names'[d]
  BY NameTypes DEF TypeOK, PassOK, KeyNow
<1>4. (\A e \in desired \cup cur : "staged" \in seen[e.dev])'
  BY <1>2, <1>3 DEF PassOK
<1>5. (\A e \in toPrune : Key(e) \in names[e.dev]
                          /\ seen[e.dev] \cap {"offline", "planned"} # {})'
  BY <1>2, <1>3, <1>6 DEF PassOK
<1> QED
  BY <1>1, <1>4, <1>5, <1>6 DEF PassOK

\* The steps of a pass; the history starts anew with the first listing.
LEMMA PassStep ==
    ASSUME TypeOK, TypeOK', PassOK, KubernetesUpdaterStep
    PROVE  PassOK'
<1>0. /\ \A e \in desired \cup cur \cup toPrune : e.dev \in Devices
      /\ seen \in [Devices -> SUBSET Status]
  BY DEF TypeOK, KubernetesTypeOK, Label
<1>13. UNCHANGED <<inv, names>> /\ (\A d \in Devices : KeyNow(d) \in names[d])'
  BY DEF PassOK, KeyNow, KubernetesUpdaterStep, SyncTinkerbell, ListDesired, ListToPrune,
     ListToPruneFails, ApplyHardware, CreateHardware, ReconcileHardware, WriteFails,
     PruneHardware, EndPass, StatusCall, Retrieve, PatchStatus, CallFails, fleetVars
<1>1. CASE ListDesired
  <2>1. ObserveAnew /\ status' = status /\ call' = call
    BY <1>1 DEF KubernetesUpdaterStep, ListDesired
  <2>2. \A e \in desired' : e.dev \in Devices /\ status[e.dev] = "staged"
    <3> SUFFICES ASSUME NEW e \in desired'
                 PROVE  e.dev \in Devices /\ status[e.dev] = "staged"
      OBVIOUS
    <3>1. PICK lost : desired' = CreateHardwares(lost)
      BY <1>1 DEF ListDesired
    <3>2. PICK d \in {f \in GetDevices({"staged"}) \ lost : Extractable(f)} :
                e = [dev |-> d, inv |-> inv[d]]
      BY <3>1 DEF CreateHardwares
    <3> QED
      BY <3>2 DEF GetDevices, FirstPage
  <2>3. kPc' = "prunelist" /\ toPrune' = {} /\ cur' = {} /\ call[Client] = NoCall
    BY <1>1 DEF ListDesired, PassOK
  <2> QED
    BY <1>13, <2>1, <2>2, <2>3 DEF PassOK, ObserveAnew
<1> SUFFICES ASSUME SyncTinkerbell, ~ListDesired PROVE PassOK'
  BY <1>1 DEF KubernetesUpdaterStep
<1>2. kPc = "idle" => FALSE
  BY DEF SyncTinkerbell, ListToPrune, ListToPruneFails, ApplyHardware, CreateHardware,
     ReconcileHardware, WriteFails, PruneHardware, EndPass, StatusCall, Retrieve,
     PatchStatus, CallFails, PassOK
<1>3. Observe
  BY <1>2 DEF KubernetesUpdaterStep
<1>4. /\ (\A d \in Devices : status[d] \in seen[d])'
      /\ \A d \in Devices : seen[d] \subseteq seen'[d]
  BY <1>0, <1>3 DEF Observe
<1>5. ASSUME (desired' \cup cur') \subseteq (desired \cup cur), toPrune' \subseteq toPrune
      PROVE  /\ (\A e \in desired \cup cur : "staged" \in seen[e.dev])'
             /\ (\A e \in toPrune : /\ Key(e) \in names[e.dev]
                                    /\ seen[e.dev] \cap {"offline", "planned"} # {})'
  BY <1>0, <1>4, <1>5, <1>13 DEF PassOK
<1>6. CASE ListToPrune
  <2>0. PICK lost : toPrune' = CreateHardwaresToPrune(lost)
    BY <1>6 DEF ListToPrune
  <2>1. \A e \in toPrune' : e.dev \in Devices /\ status[e.dev] \in {"offline", "planned"}
    <3> SUFFICES ASSUME NEW e \in toPrune'
                 PROVE  e.dev \in Devices /\ status[e.dev] \in {"offline", "planned"}
      OBVIOUS
    <3>1. PICK d \in {f \in GetDevices({"offline", "planned"}) \ lost : Extractable(f)} :
                e = [dev |-> d, inv |-> inv[d]]
      BY <2>0 DEF CreateHardwaresToPrune
    <3> QED
      BY <3>1 DEF GetDevices, FirstPage
  <2>2. \A e \in toPrune' : status[e.dev] \in seen'[e.dev]
    BY <1>4, <2>1 DEF PassOK
  <2>3. (\A e \in toPrune : /\ Key(e) \in names[e.dev]
                            /\ seen[e.dev] \cap {"offline", "planned"} # {})'
    BY <1>13, <2>0, <2>1, <2>2, ListingNamed DEF PassOK, Named
  <2>4. (\A e \in desired \cup cur : "staged" \in seen[e.dev])'
    BY <1>0, <1>4, <1>6 DEF ListToPrune, PassOK
  <2> QED
    BY <1>4, <1>6, <1>13, <2>3, <2>4 DEF ListToPrune, PassOK
<1>7. CASE ListToPruneFails
  BY <1>4, <1>5, <1>7, <1>13 DEF ListToPruneFails, PassOK
<1>8. CASE ApplyHardware
  <2>1. (desired' \cup cur') \subseteq (desired \cup cur) /\ toPrune' = toPrune
    BY <1>8 DEF ApplyHardware
  <2> QED
    BY <1>4, <1>5, <1>8, <1>13, <2>1 DEF ApplyHardware, PassOK, fleetVars
<1>9. CASE CreateHardware \/ WriteFails \/ ReconcileHardware
  BY <1>4, <1>5, <1>9, <1>13 DEF CreateHardware, WriteFails, ReconcileHardware, PassOK
<1>10. CASE PruneHardware
  BY <1>4, <1>5, <1>10, <1>13 DEF PruneHardware, PassOK
<1>11. CASE EndPass
  <2>1. cur' = cur /\ desired' = desired /\ toPrune' = toPrune /\ call' = call
    BY <1>11 DEF EndPass, fleetVars
  <2> QED
    BY <1>4, <1>5, <1>11, <1>13, <2>1 DEF EndPass, PassOK
<1>12. CASE StatusCall
  <2>1. kPc = "apply"
    BY <1>12 DEF StatusCall, PassOK, Retrieve, PatchStatus, CallFails
  <2> QED
    BY <1>3, <1>12, <1>13, <2>1, PassUndisturbed DEF StatusCall, kubernetesVars
<1> QED
  BY <1>6, <1>7, <1>8, <1>9, <1>10, <1>11, <1>12 DEF SyncTinkerbell

\* Every step keeps PassOK.
LEMMA PassOKStep ==
    ASSUME TypeOK, TypeOK', PassOK, [Next]_vars
    PROVE  PassOK'
<1>0. call \in [Clients -> Call \cup {NoCall}] /\ Client \in Clients /\ Worker \in Clients
  BY DEF TypeOK, FleetTypeOK, Client, Worker, Clients
<1>1. CASE EnvironmentStep
  BY <1>1, PassUndisturbed
  DEF EnvironmentStep, Environment, OperatorSetsStatus, OperatorEditsDevice,
      WorkflowSucceeds, AnnotationChanges, kubernetesVars
<1>2. CASE KubernetesUpdaterStep
  BY <1>2, PassStep
<1>3. CASE KubernetesUpdaterRestart
  BY <1>0, <1>3 DEF KubernetesUpdaterRestart, Restart, PassOK, KeyNow
<1>4. ASSUME NEW k \in Keys, CacheStep(k) PROVE PassOK'
  BY <1>4, PassUndisturbed DEF CacheStep, CacheSync, fleetVars
<1>5. ASSUME NEW k \in Keys, NetBoxUpdaterTakes(k) PROVE PassOK'
  BY <1>0, <1>5, PassUndisturbed
  DEF NetBoxUpdaterTakes, Reconcile, Client, Worker, kubernetesVars
<1>6. CASE NetBoxUpdaterCalls
  BY <1>0, <1>6, PassUndisturbed
  DEF NetBoxUpdaterCalls, WorkerCall, WorkerCallFails, Retrieve, PatchStatus, CallFails,
      Client, Worker, kubernetesVars
<1>7. CASE NetBoxUpdaterResyncs \/ NetBoxUpdaterRestart
  BY <1>0, <1>7, PassUndisturbed
  DEF NetBoxUpdaterResyncs, NetBoxUpdaterRestart, Resync, WorkerRestart, fleetVars,
      Client, Worker, kubernetesVars
<1>8. CASE CliStep
  <2>1. Cli => call'[Client] = call[Client] /\ inv' = inv
    BY <1>0 DEF Cli, SyncStart, SyncCreate, SyncReconcile, SyncListPrune, SyncPrune,
       SyncExits, SyncStatusStart, SyncStatusNext, CliCall, Retrieve, PatchStatus,
       CallFails, ReconcileExistingHardware, Client, fleetVars
  <2> QED
    BY <1>8, <2>1, PassUndisturbed DEF CliStep, kubernetesVars
<1>9. CASE UNCHANGED vars
  BY <1>9, PassUndisturbed DEF vars, fleetVars, kubernetesVars
<1> QED
  BY <1>1, <1>2, <1>3, <1>4, <1>5, <1>6, <1>7, <1>8, <1>9 DEF Next

\* The invariant both action properties follow from.
LEMMA PassInvariant == Spec => [](TypeOK /\ PassOK)
<1>1. Init => TypeOK /\ PassOK
  <2>1. Init => PassOK
    BY DEF Init, FleetInit, KubernetesInit, PassOK, Client, Clients
  <2> QED
    BY <2>1, TypeInit
<1>2. TypeOK /\ PassOK /\ [Next]_vars => (TypeOK /\ PassOK)'
  BY TypeStep, PassOKStep
<1> QED
  BY <1>1, <1>2, PTL DEF Spec

\* The kubernetes-updater deletes an object only if a device of its name was
\* offline or planned during the pass, whatever the cache showed and
\* whatever changed between the listing and the deletion.
THEOREM PrunesAreJustified == Spec => PruneJustified
<1>1. ASSUME TypeOK, PassOK, NEW k \in Keys, PruneHardware, hw[k] # NoHw, hw'[k] = NoHw
      PROVE  \E d \in Devices : k \in names[d] /\ seen[d] \cap {"offline", "planned"} # {}
  <2>1. PICK e \in toPrune : hw' = hw \/ hw' = [hw EXCEPT ![Key(e)] = NoHw]
    BY <1>1 DEF PruneHardware
  <2>2. Key(e) = k /\ e.dev \in Devices
    BY <1>1, <2>1 DEF TypeOK, FleetTypeOK, KubernetesTypeOK, Label
  <2> QED
    BY <1>1, <2>2 DEF PassOK
<1>2. TypeOK /\ PassOK /\ [Next]_vars =>
         [\A k \in Keys :
             PruneHardware /\ hw[k] # NoHw /\ hw'[k] = NoHw =>
                \E d \in Devices : k \in names[d] /\ seen[d] \cap {"offline", "planned"} # {}]_vars
  BY <1>1
<1> QED
  BY <1>2, PassInvariant, PTL DEF Spec, PruneJustified

\* The kubernetes-updater creates an object only for a device that was staged
\* during the pass.
THEOREM CreationsAreJustified == Spec => CreateJustified
<1>1. ASSUME TypeOK, PassOK, NEW k \in Keys, CreateHardware, hw[k] = NoHw, hw'[k] # NoHw
      PROVE  "staged" \in seen[hw'[k].machine]
  <2>1. PICK e \in cur : hw' = IF hw[Key(e)] = NoHw
                               THEN [hw EXCEPT ![Key(e)] = NewHardware(e)] ELSE hw
    BY <1>1 DEF CreateHardware
  <2>2. hw'[k] = NewHardware(e)
    BY <1>1, <2>1 DEF TypeOK, FleetTypeOK
  <2>3. hw'[k].machine = e.dev
    BY <2>2 DEF NewHardware
  <2> QED
    BY <1>1, <2>3 DEF PassOK
<1>2. TypeOK /\ PassOK /\ [Next]_vars =>
         [\A k \in Keys :
             CreateHardware /\ hw[k] = NoHw /\ hw'[k] # NoHw =>
                "staged" \in seen[hw'[k].machine]]_vars
  BY <1>1
<1> QED
  BY <1>2, PassInvariant, PTL DEF Spec, CreateJustified

-----------------------------------------------------------------------------
(* HardwareLifecycle implements DeviceLifecycle.  What the abstract         *)
(* specification asks of a decision is what Evidence says of the copy of an *)
(* object it was made from.                                                 *)

\* A look at NetBox, or a decision forgotten.
LEMMA LookRefines ==
    ASSUME UNCHANGED <<status, inv, names, hw, installed, ops>>,
           Wanted' \subseteq Wanted \cup Lifecycle!Now({"staged"}),
           Unwanted' \subseteq Unwanted \cup Lifecycle!Now({"offline", "planned"}),
           Changes' \subseteq Changes
    PROVE  Lifecycle!Look
<1>1. UNCHANGED <<NamesNow, Stages>>
  BY DEF NamesNow, Stages, KeyNow, Stage
<1> QED
  BY <1>1 DEF Lifecycle!Look

\* The steps of a status call, or a call given up, decide on nothing new.
LEMMA CallKept ==
    ASSUME FleetTypeOK, NEW c \in Clients,
           \/ call' = call
           \/ call' = [call EXCEPT ![c] = NoCall]
           \/ /\ call[c] # NoCall
              /\ call' = [call EXCEPT ![c] = [call[c] EXCEPT !.phase = "patch"]]
    PROVE  Changes' \subseteq Changes
<1> SUFFICES ASSUME NEW x \in Changes' PROVE x \in Changes
  OBVIOUS
<1>1. PICK b \in Clients : call'[b] # NoCall
                           /\ x = [dev |-> call'[b].dev, target |-> call'[b].target]
  BY DEF Changes
<1>2. call[b] # NoCall /\ call'[b].dev = call[b].dev /\ call'[b].target = call[b].target
  <2>1. call[b] \in Call \cup {NoCall}
    BY DEF FleetTypeOK
  <2> QED
    BY <1>1, <2>1 DEF FleetTypeOK, Call
<1> QED
  BY <1>1, <1>2 DEF Changes

\* A call that begins is a decision.
LEMMA CallDecided ==
    ASSUME FleetTypeOK, NEW c \in Clients, NEW d \in Devices,
           NEW t \in {"staged", "active"}, NEW k \in Keys,
           call' = [call EXCEPT ![c] = NewCall(d, t, k)]
    PROVE  Changes' \subseteq Changes \cup {[dev |-> d, target |-> t]}
<1> SUFFICES ASSUME NEW x \in Changes'
             PROVE  x \in Changes \cup {[dev |-> d, target |-> t]}
  OBVIOUS
<1>1. PICK b \in Clients : call'[b] # NoCall
                           /\ x = [dev |-> call'[b].dev, target |-> call'[b].target]
  BY DEF Changes
<1>2. CASE b = c
  <2>1. call'[b] = NewCall(d, t, k)
    BY <1>2 DEF FleetTypeOK
  <2> QED
    BY <1>1, <2>1 DEF NewCall
<1>3. CASE b # c
  <2>1. call'[b] = call[b]
    BY <1>3 DEF FleetTypeOK
  <2> QED
    BY <1>1, <2>1 DEF Changes
<1> QED
  BY <1>2, <1>3

\* A decision with its evidence.
LEMMA DecideRefines ==
    ASSUME UNCHANGED <<status, inv, names, Stages, installed, ops, Unwanted>>,
           Wanted' \subseteq Wanted,
           NEW d \in Devices, NEW t \in {"staged", "active"}, NEW k \in names[d],
           t = "active" => InstalledUnder(k),
           Changes' \subseteq Changes \cup {[dev |-> d, target |-> t]}
    PROVE  Lifecycle!Decide
<1>1. UNCHANGED NamesNow
  BY DEF NamesNow, KeyNow
<1>2. [dev |-> d, target |-> t] \in Lifecycle!Change
  BY DEF Lifecycle!Change
<1>3. t = "active" => Lifecycle!Proven(d)
  BY DEF Lifecycle!Proven, InstalledUnder
<1> DEFINE ch == [dev |-> d, target |-> t]
<1>4. ch.dev = d /\ ch.target = t
  OBVIOUS
<1> HIDE DEF ch
<1>5. ch \in Lifecycle!Change /\ Changes' \subseteq Changes \cup {ch}
  BY <1>2 DEF ch
<1> QED
  BY <1>1, <1>3, <1>4, <1>5 DEF Lifecycle!Decide

\* The requests of setDeviceStatus.
LEMMA StatusCallRefines ==
    ASSUME FleetTypeOK, NEW c \in Clients, UNCHANGED <<names, Wanted, Unwanted>>,
           Retrieve(c) \/ PatchStatus(c) \/ CallFails(c)
    PROVE  Lifecycle!Next
<1>1. UNCHANGED <<inv, hw, installed, ops>>
  BY DEF Retrieve, PatchStatus, CallFails
<1>2. Changes' \subseteq Changes
  BY CallKept DEF Retrieve, PatchStatus, CallFails
<1>3. CASE status' = status
  BY <1>1, <1>2, <1>3, LookRefines DEF Lifecycle!Next
<1>4. CASE call[c] # NoCall /\ status' = [status EXCEPT ![call[c].dev] = call[c].target]
  <2> DEFINE ch == [dev |-> call[c].dev, target |-> call[c].target]
  <2>1. ch \in Changes /\ ch.dev = call[c].dev /\ ch.target = call[c].target
    BY <1>4 DEF Changes
  <2> HIDE DEF ch
  <2>2. UNCHANGED <<NamesNow, Stages>>
    BY <1>1 DEF NamesNow, Stages, KeyNow, Stage
  <2> QED
    BY <1>1, <1>2, <1>4, <2>1, <2>2 DEF Lifecycle!Write, Lifecycle!Next
<1> QED
  BY <1>3, <1>4 DEF Retrieve, PatchStatus, CallFails

\* Operator and provisioner: a rename is recorded, and an installation was
\* made through an object of one of the machine's names.
LEMMA EnvironmentRefines ==
    ASSUME TypeOK, Evidence, EnvironmentStep
    PROVE  Lifecycle!Next
<1> USE DEF TypeOK
<1>1. UNCHANGED <<Wanted, Unwanted>>
  BY DEF EnvironmentStep, kubernetesVars, cliVars, syncVars, Wanted, Unwanted, Entries
<1>2. names' = [d \in Devices |-> names[d] \cup {KeyOf[d][inv'[d]]}]
  BY DEF EnvironmentStep, RecordNames
<1>3. inv' = inv => UNCHANGED <<names, NamesNow>>
  BY <1>2 DEF Evidence, KeyNow, NamesNow
<1>4. call' = call => UNCHANGED Changes
  BY DEF Changes
<1>5. hw' = hw => UNCHANGED Stages
  BY DEF Stages, Stage
<1>6. ASSUME NEW k \in Keys, NEW p \in Prov, hw[k] # NoHw, hw' = [hw EXCEPT ![k].prov = p]
      PROVE  Stages' = [Stages EXCEPT ![k] = IF p = "true" THEN "provisioned" ELSE "new"]
  <2>1. hw[k] \in Hardware
    BY <1>6 DEF FleetTypeOK
  <2>2. hw'[k] \in Hardware /\ hw'[k].prov = p
    BY <1>6, <2>1 DEF FleetTypeOK, Hardware
  <2>3. hw'[k] # NoHw
    BY <2>2, FleetAssumption DEF FleetAssumption
  <2>4. \A j \in Keys \ {k} : hw'[j] = hw[j]
    BY <1>6 DEF FleetTypeOK
  <2> QED
    BY <2>2, <2>3, <2>4 DEF Stages, Stage
<1>7. ASSUME NEW d \in Devices, NEW s \in OperatorStatuses, OperatorSetsStatus(d, s)
      PROVE  Lifecycle!Operate
  <2>1. s \in Status
    BY FleetAssumption DEF FleetAssumption
  <2> QED
    BY <1>1, <1>3, <1>4, <1>5, <1>7, <2>1 DEF OperatorSetsStatus, SpendOp, Lifecycle!Operate
<1>8. ASSUME NEW d \in Devices, NEW i \in Invs, OperatorEditsDevice(d, i)
      PROVE  Lifecycle!Operate
  <2> DEFINE k == KeyOf[d][i]
  <2>1. k \in Keys
    BY FleetAssumption DEF FleetAssumption
  <2>2. inv'[d] = i /\ \A e \in Devices \ {d} : inv'[e] = inv[e]
    BY <1>8 DEF OperatorEditsDevice, FleetTypeOK
  <2>3. NamesNow' = [NamesNow EXCEPT ![d] = k]
    BY <2>2 DEF NamesNow, KeyNow
  <2>4. names' = [names EXCEPT ![d] = names[d] \cup {k}]
    <3>1. \A e \in Devices \ {d} : names[e] \cup {KeyOf[e][inv'[e]]} = names[e]
      BY <2>2 DEF Evidence, KeyNow
    <3> QED
      BY <1>2, <2>2, <3>1
  <2> HIDE DEF k
  <2> QED
    BY <1>1, <1>4, <1>5, <1>8, <2>1, <2>3, <2>4
    DEF OperatorEditsDevice, SpendOp, Lifecycle!Operate
<1>9. ASSUME NEW k \in Keys, WorkflowSucceeds(k)
      PROVE  Lifecycle!Install
  <2>1. hw[k].machine \in Devices /\ k \in names[hw[k].machine]
    BY <1>9 DEF WorkflowSucceeds, Evidence, Genuine, FleetTypeOK, Hardware
  <2>2. Stages[k] = "new"
    BY <1>9 DEF WorkflowSucceeds, Stages, Stage
  <2>3. Stages' = [Stages EXCEPT ![k] = "provisioned"]
    BY <1>6, <1>9 DEF WorkflowSucceeds, Prov
  <2> QED
    BY <1>1, <1>3, <1>4, <1>9, <2>1, <2>2, <2>3 DEF WorkflowSucceeds, Lifecycle!Install
<1>10. ASSUME NEW k \in Keys, NEW p \in {"absent", "other"}, AnnotationChanges(k, p)
       PROVE  Lifecycle!Operate
  <2>1. Stages[k] # "none"
    BY <1>10 DEF AnnotationChanges, Stages, Stage
  <2>2. Stages' = [Stages EXCEPT ![k] = "new"]
    BY <1>6, <1>10 DEF AnnotationChanges, Prov
  <2> QED
    BY <1>1, <1>3, <1>4, <1>10, <2>1, <2>2 DEF AnnotationChanges, SpendOp, Lifecycle!Operate
<1> QED
  BY <1>7, <1>8, <1>9, <1>10 DEF EnvironmentStep, Environment, Lifecycle!Next

\* The two listings decide on devices as they are at that moment.
LEMMA ListingSeen ==
    ASSUME TypeOK, NEW lost
    PROVE  /\ Entries(CreateHardwares(lost)) \subseteq Lifecycle!Now({"staged"})
           /\ Entries(CreateHardwaresToPrune(lost)) \subseteq Lifecycle!Now({"offline", "planned"})
<1>1. ASSUME NEW S, NEW y \in Entries({[dev |-> d, inv |-> inv[d]] :
                                  d \in {e \in GetDevices(S) \ lost : Extractable(e)}})
      PROVE  y \in Lifecycle!Now(S)
  <2>1. PICK d \in {e \in GetDevices(S) \ lost : Extractable(e)} :
              y = [dev |-> d, key |-> KeyOf[d][inv[d]]]
    BY <1>1 DEF Entries, Key
  <2>2. d \in Devices /\ status[d] \in S
    BY <2>1 DEF GetDevices, FirstPage
  <2>3. NamesNow[d] = KeyOf[d][inv[d]] /\ NamesNow[d] \in Keys
    BY <2>2, KeyNowType DEF NamesNow, KeyNow, TypeOK
  <2>4. y.dev = d /\ y.key = NamesNow[d] /\ y \in [dev : Devices, key : Keys]
    BY <2>1, <2>2, <2>3
  <2> QED
    BY <2>2, <2>4 DEF Lifecycle!Now, Lifecycle!Entry
<1> QED
  BY <1>1 DEF CreateHardwares, CreateHardwaresToPrune

\* An object is made under a name that was listed.
LEMMA CreateRefines ==
    ASSUME FleetTypeOK, UNCHANGED <<status, inv, names, installed, ops, Unwanted, Changes>>,
           Wanted' \subseteq Wanted, NEW e \in Label,
           [dev |-> e.dev, key |-> Key(e)] \in Wanted, hw[Key(e)] = NoHw,
           hw' = [hw EXCEPT ![Key(e)] = NewHardware(e)]
    PROVE  Lifecycle!Create
<1> DEFINE k == Key(e)
           w == [dev |-> e.dev, key |-> k]
<1>1. k \in Keys /\ NewHardware(e) # NoHw /\ NewHardware(e).prov = "absent"
  BY NewHardwareType, FleetAssumption DEF FleetAssumption, NewHardware
<1>2. w \in Wanted /\ w.key = k
  OBVIOUS
<1> HIDE DEF w, k
<1>3. Stages[k] = "none"
  BY <1>1 DEF Stages, Stage, k
<1>4. hw'[k] = NewHardware(e) /\ \A j \in Keys \ {k} : hw'[j] = hw[j]
  BY <1>1 DEF FleetTypeOK, k
<1>5. Stages' = [Stages EXCEPT ![k] = "new"]
  BY <1>1, <1>4 DEF Stages, Stage
<1>6. UNCHANGED NamesNow
  BY DEF NamesNow, KeyNow
<1> QED
  BY <1>2, <1>3, <1>5, <1>6 DEF Lifecycle!Create

\* An object is removed under a name that was listed.
LEMMA RemoveRefines ==
    ASSUME FleetTypeOK, UNCHANGED <<status, inv, names, installed, ops, Wanted, Changes>>,
           Unwanted' \subseteq Unwanted, NEW e \in Label,
           [dev |-> e.dev, key |-> Key(e)] \in Unwanted,
           hw' = [hw EXCEPT ![Key(e)] = NoHw]
    PROVE  Lifecycle!Remove
<1> DEFINE k == Key(e)
           w == [dev |-> e.dev, key |-> k]
<1>1. k \in Keys
  BY KeyType
<1>2. w \in Unwanted /\ w.key = k
  OBVIOUS
<1> HIDE DEF w, k
<1>3. hw'[k] = NoHw /\ \A j \in Keys \ {k} : hw'[j] = hw[j]
  BY <1>1 DEF FleetTypeOK, k
<1>4. Stages' = [Stages EXCEPT ![k] = "none"]
  BY <1>1, <1>3 DEF Stages, Stage
<1>5. UNCHANGED NamesNow
  BY DEF NamesNow, KeyNow
<1> QED
  BY <1>2, <1>4, <1>5 DEF Lifecycle!Remove

\* ReconcileExistingHardware leaves the mark of the object alone, and decides
\* on active only from a genuine copy that is marked.
LEMMA ReconcileRefines ==
    ASSUME FleetTypeOK, \A k \in Keys : Genuine(hw[k], k),
           NEW c \in Clients, NEW e \in Label,
           NEW view \in [Keys -> Hardware \cup {NoHw}],
           \A k \in Keys : Genuine(view[k], k),
           ReconcileExistingHardware(c, e, view), Key(e) \in names[e.dev],
           UNCHANGED <<status, inv, names, installed, ops, Unwanted>>,
           Wanted' \subseteq Wanted
    PROVE  Lifecycle!Next
<1> DEFINE k == Key(e)
           stale == view[k].label # e
           patched == [hw EXCEPT ![k].label = MergePatch(view[k].label, hw[k].label, e)]
<1>1. e.dev \in Devices /\ k \in Keys
  BY KeyType
<1>2. CASE view[k] = NoHw \/ (stale /\ hw[k] = NoHw)
  <2>1. UNCHANGED <<hw, call>>
    BY <1>2 DEF ReconcileExistingHardware
  <2>2. Changes' \subseteq Changes
    BY <2>1 DEF Changes
  <2> QED
    BY <2>1, <2>2, LookRefines DEF Lifecycle!Next
<1>3. CASE ~(view[k] = NoHw \/ (stale /\ hw[k] = NoHw))
  <2>1. /\ hw' = IF stale THEN patched ELSE hw
        /\ call' = IF (IF stale THEN patched[k] ELSE view[k]).prov = "true"
                   THEN [call EXCEPT ![c] = NewCall(e.dev, "active", k)]
                   ELSE call
    BY <1>3 DEF ReconcileExistingHardware
  <2>2. ASSUME stale
        PROVE  /\ patched[k] # NoHw /\ patched[k].prov = hw[k].prov
               /\ \A j \in Keys \ {k} : patched[j] = hw[j]
    <3> DEFINE merged == MergePatch(view[k].label, hw[k].label, e)
    <3>1. hw[k] \in Hardware /\ view[k] \in Hardware
      BY <1>1, <1>3, <2>2 DEF FleetTypeOK
    <3>2. merged \in Label
      BY <3>1 DEF MergePatch, Hardware, Label
    <3> HIDE DEF merged
    <3>3. patched = [hw EXCEPT ![k] = [hw[k] EXCEPT !.label = merged]]
      BY <1>1 DEF FleetTypeOK, merged
    <3>4. [hw[k] EXCEPT !.label = merged] \in Hardware
          /\ [hw[k] EXCEPT !.label = merged].prov = hw[k].prov
      BY <3>1, <3>2 DEF Hardware
    <3>5. patched[k] = [hw[k] EXCEPT !.label = merged]
          /\ \A j \in Keys \ {k} : patched[j] = hw[j]
      BY <1>1, <3>3 DEF FleetTypeOK
    <3> HIDE DEF patched
    <3> QED
      BY <3>4, <3>5, FleetAssumption DEF FleetAssumption
  <2> HIDE DEF patched
  <2>3. UNCHANGED Stages
    <3>1. CASE stale
      BY <1>1, <1>3, <2>1, <2>2, <3>1 DEF Stages, Stage
    <3>2. CASE ~stale
      BY <2>1, <3>2 DEF Stages, Stage
    <3> QED
      BY <3>1, <3>2
  <2>4. (IF stale THEN patched[k] ELSE view[k]).prov = "true" => InstalledUnder(k)
    BY <1>1, <1>3, <2>2 DEF Genuine
  <2> HIDE DEF stale
  <2>5. CASE call' = call
    <3>1. Changes' \subseteq Changes
      BY <2>5 DEF Changes
    <3>2. UNCHANGED NamesNow
      BY DEF NamesNow, KeyNow
    <3> QED
      BY <2>3, <3>1, <3>2 DEF Lifecycle!Look, Lifecycle!Next
  <2>6. CASE call' = [call EXCEPT ![c] = NewCall(e.dev, "active", k)] /\ InstalledUnder(k)
    <3>1. Changes' \subseteq Changes \cup {[dev |-> e.dev, target |-> "active"]}
      BY <1>1, <2>6, CallDecided
    <3> QED
      BY <1>1, <2>3, <2>6, <3>1, DecideRefines DEF Lifecycle!Next
  <2> QED
    BY <2>1, <2>4, <2>5, <2>6
<1> QED
  BY <1>2, <1>3

\* Entries that are taken from a list, or lists that are dropped.
LEMMA ListsShrink ==
    ASSUME TypeOK
    PROVE  /\ (desired' \cup cur' \cup sDesired' \cup sCur')
                  \subseteq (desired \cup cur \cup sDesired \cup sCur) => Wanted' \subseteq Wanted
           /\ (toPrune' \cup sPrune') \subseteq (toPrune \cup sPrune) => Unwanted' \subseteq Unwanted
BY DEF Wanted, Unwanted, Entries, Key

\* The steps of a pass.
LEMMA PassRefines ==
    ASSUME TypeOK, Evidence, KubernetesUpdaterStep
    PROVE  Lifecycle!Next
<1> USE DEF TypeOK
<1>0. /\ UNCHANGED <<names, sDesired, sCur, sPrune>> /\ SyncTinkerbell
      /\ Client \in Clients
  BY DEF KubernetesUpdaterStep, cliVars, syncVars, Client, Clients
<1>1. UNCHANGED call => Changes' \subseteq Changes
  BY DEF Changes
<1>2. UNCHANGED <<toPrune>> => UNCHANGED Unwanted
  BY <1>0 DEF Unwanted, Entries, Key
<1>3. UNCHANGED <<desired, cur>> => UNCHANGED Wanted
  BY <1>0 DEF Wanted, Entries, Key
<1>4. CASE ListDesired
  <2>1. PICK lost : desired' = CreateHardwares(lost)
    BY <1>4 DEF ListDesired
  <2>2. Wanted' \subseteq Wanted \cup Entries(CreateHardwares(lost))
    BY <1>0, <1>4, <2>1 DEF ListDesired, Wanted, Entries, Key
  <2>3. Wanted' \subseteq Wanted \cup Lifecycle!Now({"staged"})
    BY <2>2, ListingSeen
  <2> QED
    BY <1>0, <1>1, <1>2, <1>4, <2>3, LookRefines DEF ListDesired, Lifecycle!Next
<1>5. CASE ListToPrune
  <2>1. PICK lost : toPrune' = CreateHardwaresToPrune(lost)
    BY <1>5 DEF ListToPrune
  <2>2. Unwanted' \subseteq Unwanted \cup Entries(CreateHardwaresToPrune(lost))
    BY <1>0, <1>5, <2>1 DEF ListToPrune, Unwanted, Entries, Key
  <2>3. Unwanted' \subseteq Unwanted \cup Lifecycle!Now({"offline", "planned"})
    BY <2>2, ListingSeen
  <2> QED
    BY <1>0, <1>1, <1>3, <1>5, <2>3, LookRefines DEF ListToPrune, Lifecycle!Next
<1>6. CASE ListToPruneFails \/ WriteFails
  <2>1. Wanted' \subseteq Wanted
    BY <1>0, <1>6, ListsShrink DEF ListToPruneFails, WriteFails
  <2> QED
    BY <1>0, <1>1, <1>2, <1>6, <2>1, LookRefines
    DEF ListToPruneFails, WriteFails, Lifecycle!Next
<1>7. CASE ApplyHardware \/ EndPass
  <2>1. (desired' \cup cur') \subseteq (desired \cup cur)
    BY <1>7 DEF ApplyHardware, EndPass
  <2>2. Wanted' \subseteq Wanted
    BY <1>0, <2>1, ListsShrink
  <2> QED
    BY <1>0, <1>1, <1>2, <1>7, <2>2, LookRefines
    DEF ApplyHardware, EndPass, fleetVars, Lifecycle!Next
<1>8. CASE CreateHardware
  <2>1. PICK e \in cur : hw' = IF hw[Key(e)] = NoHw
                               THEN [hw EXCEPT ![Key(e)] = NewHardware(e)] ELSE hw
    BY <1>8 DEF CreateHardware
  <2>2. e \in Label /\ [dev |-> e.dev, key |-> Key(e)] \in Wanted
    BY DEF KubernetesTypeOK, Wanted, Entries
  <2>3. Wanted' \subseteq Wanted
    BY <1>0, <1>8, ListsShrink DEF CreateHardware
  <2>4. CASE hw[Key(e)] = NoHw
    <3>1. UNCHANGED Changes
      BY <1>8 DEF CreateHardware, Changes
    <3> QED
      BY <1>0, <1>2, <1>8, <2>1, <2>2, <2>3, <2>4, <3>1, CreateRefines
      DEF CreateHardware, Lifecycle!Next
  <2>5. CASE hw[Key(e)] # NoHw
    BY <1>0, <1>1, <1>2, <1>8, <2>1, <2>3, <2>5, LookRefines DEF CreateHardware, Lifecycle!Next
  <2> QED
    BY <2>4, <2>5
<1>9. CASE ReconcileHardware
  <2>1. PICK e \in cur : ReconcileExistingHardware(Client, e, cache)
    BY <1>9 DEF ReconcileHardware
  <2>2. e \in Label /\ Key(e) \in names[e.dev]
    BY DEF KubernetesTypeOK, Evidence, Named
  <2>3. Wanted' \subseteq Wanted
    BY <1>0, <1>9, ListsShrink DEF ReconcileHardware
  <2>4. /\ cache \in [Keys -> Hardware \cup {NoHw}]
        /\ \A k \in Keys : Genuine(hw[k], k) /\ Genuine(cache[k], k)
    BY DEF KubernetesTypeOK, Evidence
  <2> QED
    BY <1>0, <1>2, <1>9, <2>1, <2>2, <2>3, <2>4, ReconcileRefines DEF ReconcileHardware
<1>10. CASE PruneHardware
  <2>1. PICK e \in toPrune : /\ toPrune' = toPrune \ {e}
                             /\ hw' = hw \/ hw' = [hw EXCEPT ![Key(e)] = NoHw]
    BY <1>10 DEF PruneHardware
  <2>2. e \in Label /\ [dev |-> e.dev, key |-> Key(e)] \in Unwanted
    BY DEF KubernetesTypeOK, Unwanted, Entries
  <2>3. Unwanted' \subseteq Unwanted
    BY <1>0, <2>1, ListsShrink
  <2>4. UNCHANGED Changes
    BY <1>10 DEF PruneHardware, Changes
  <2>5. CASE hw' = hw
    BY <1>0, <1>3, <1>10, <2>3, <2>4, <2>5, LookRefines DEF PruneHardware, Lifecycle!Next
  <2>6. CASE hw' = [hw EXCEPT ![Key(e)] = NoHw]
    BY <1>0, <1>3, <1>10, <2>2, <2>3, <2>4, <2>6, RemoveRefines
    DEF PruneHardware, Lifecycle!Next
  <2> QED
    BY <2>1, <2>5, <2>6
<1>11. CASE StatusCall
  BY <1>0, <1>2, <1>3, <1>11, StatusCallRefines DEF StatusCall, kubernetesVars
<1> QED
  BY <1>0, <1>4, <1>5, <1>6, <1>7, <1>8, <1>9, <1>10, <1>11 DEF SyncTinkerbell

\* The netbox-updater.
LEMMA WorkerRefines ==
    ASSUME TypeOK, Evidence,
           \/ \E k \in Keys : NetBoxUpdaterTakes(k)
           \/ NetBoxUpdaterCalls \/ NetBoxUpdaterResyncs \/ NetBoxUpdaterRestart
    PROVE  Lifecycle!Next
<1> USE DEF TypeOK
<1>0. Worker \in Clients /\ UNCHANGED <<names, Wanted, Unwanted>>
  BY DEF Worker, Clients, NetBoxUpdaterTakes, NetBoxUpdaterCalls, NetBoxUpdaterResyncs,
     NetBoxUpdaterRestart, kubernetesVars, cliVars, syncVars, Wanted, Unwanted, Entries, Key
<1>1. ASSUME NEW k \in Keys, Reconcile(k)
      PROVE  Lifecycle!Next
  <2>1. CASE hw[k] = NoHw \/ DeviceIDFromLabels(hw[k]) = NoDevice
    <3>1. Changes' \subseteq Changes
      BY <1>1, <2>1 DEF Reconcile, Changes
    <3> QED
      BY <1>0, <1>1, <3>1, LookRefines DEF Reconcile, Lifecycle!Next
  <2>2. CASE ~(hw[k] = NoHw \/ DeviceIDFromLabels(hw[k]) = NoDevice)
    <3> DEFINE d == DeviceIDFromLabels(hw[k])
               t == TargetNetBoxStatus(hw[k])
    <3>1. hw[k] \in Hardware /\ hw[k].label # NoLabel /\ d = hw[k].label.dev
      BY <2>2 DEF FleetTypeOK, DeviceIDFromLabels
    <3>2. d \in Devices
      BY <3>1 DEF Hardware, Label
    <3>3. t \in {"staged", "active"} /\ k \in names[d] /\ (t = "active" => InstalledUnder(k))
      BY <2>2, <3>1 DEF Evidence, Genuine, TargetNetBoxStatus
    <3>4. call' = [call EXCEPT ![Worker] = NewCall(d, t, k)]
      BY <1>1, <2>2 DEF Reconcile
    <3> HIDE DEF d, t
    <3>5. Changes' \subseteq Changes \cup {[dev |-> d, target |-> t]}
      BY <1>0, <3>2, <3>3, <3>4, CallDecided
    <3>6. UNCHANGED Stages
      BY <1>1 DEF Reconcile, Stages, Stage
    <3> QED
      BY <1>0, <1>1, <3>2, <3>3, <3>5, <3>6, DecideRefines DEF Reconcile, Lifecycle!Next
  <2> QED
    BY <2>1, <2>2
<1>2. CASE WorkerCall \/ WorkerCallFails
  BY <1>0, <1>2, StatusCallRefines DEF WorkerCall, WorkerCallFails
<1>3. CASE Resync \/ WorkerRestart
  <2>1. Changes' \subseteq Changes
    BY <1>0, <1>3, CallKept DEF Resync, WorkerRestart, fleetVars
  <2> QED
    BY <1>0, <1>3, <2>1, LookRefines DEF Resync, WorkerRestart, fleetVars, Lifecycle!Next
<1> QED
  BY <1>1, <1>2, <1>3 DEF NetBoxUpdaterTakes, NetBoxUpdaterCalls, NetBoxUpdaterResyncs,
     NetBoxUpdaterRestart

\* At the start nothing is decided and nothing provisioned.
LEMMA InitRefines ==
    ASSUME Init
    PROVE  Lifecycle!Init
<1>1. TypeOK
  BY TypeInit
<1>2. NamesNow \in [Devices -> Keys] /\ names = [d \in Devices |-> {NamesNow[d]}]
  BY <1>1, KeyNowType DEF Init, NamesNow, TypeOK
<1>3. Stages \in [Keys -> {"none", "new"}]
  BY <1>1 DEF Init, FleetInit, HandMade, Stages, Stage
<1>4. Wanted = {} /\ Unwanted = {}
  BY DEF Init, KubernetesInit, CliInit, Wanted, Unwanted, Entries
<1>5. Changes = {}
  BY DEF Init, FleetInit, Changes
<1> QED
  BY <1>1, <1>2, <1>3, <1>4, <1>5 DEF Lifecycle!Init, Init, FleetInit, TypeOK, FleetTypeOK

\* The two commands.
LEMMA CliRefines ==
    ASSUME TypeOK, Evidence, CliStep
    PROVE  Lifecycle!Next
<1> USE DEF TypeOK
<1>0. /\ UNCHANGED <<names, desired, cur, toPrune>> /\ Cli
      /\ "cli-sync" \in Clients /\ "cli-sync-status" \in Clients
  BY DEF CliStep, kubernetesVars, Clients
<1>1. UNCHANGED call => Changes' \subseteq Changes
  BY DEF Changes
<1>2. UNCHANGED sPrune => UNCHANGED Unwanted
  BY <1>0 DEF Unwanted, Entries, Key
<1>3. UNCHANGED <<sDesired, sCur>> => UNCHANGED Wanted
  BY <1>0 DEF Wanted, Entries, Key
<1>4. CASE SyncStart
  <2>1. PICK lost : sDesired' = CreateHardwares(lost)
    BY <1>4 DEF SyncStart
  <2>2. Wanted' \subseteq Wanted \cup Entries(CreateHardwares(lost))
    BY <1>0, <1>4, <2>1 DEF SyncStart, Wanted, Entries, Key
  <2>3. Wanted' \subseteq Wanted \cup Lifecycle!Now({"staged"})
    BY <2>2, ListingSeen
  <2> QED
    BY <1>0, <1>1, <1>2, <1>4, <2>3, LookRefines DEF SyncStart, Lifecycle!Next
<1>5. CASE SyncListPrune
  <2>1. PICK lost : sPrune' = CreateHardwaresToPrune(lost)
    BY <1>5 DEF SyncListPrune
  <2>2. Unwanted' \subseteq Unwanted \cup Entries(CreateHardwaresToPrune(lost))
    BY <1>0, <1>5, <2>1 DEF SyncListPrune, Unwanted, Entries, Key
  <2>3. Unwanted' \subseteq Unwanted \cup Lifecycle!Now({"offline", "planned"})
    BY <2>2, ListingSeen
  <2> QED
    BY <1>0, <1>1, <1>3, <1>5, <2>3, LookRefines DEF SyncListPrune, Lifecycle!Next
<1>6. CASE SyncCreate
  <2>1. PICK e \in sDesired :
              /\ sDesired' = sDesired \ {e}
              /\ \/ hw[Key(e)] = NoHw /\ hw' = [hw EXCEPT ![Key(e)] = NewHardware(e)] /\ sCur' = sCur
                 \/ hw' = hw /\ sCur' \subseteq sCur \cup {e}
    BY <1>6 DEF SyncCreate
  <2>2. e \in Label /\ [dev |-> e.dev, key |-> Key(e)] \in Wanted
    BY DEF CliTypeOK, Wanted, Entries
  <2>3. Wanted' \subseteq Wanted
    BY <1>0, <2>1, ListsShrink
  <2>4. UNCHANGED <<status, inv, installed, ops, call, sPrune>> /\ UNCHANGED Changes
    BY <1>6 DEF SyncCreate, Changes
  <2>5. CASE hw[Key(e)] = NoHw /\ hw' = [hw EXCEPT ![Key(e)] = NewHardware(e)]
    BY <1>0, <1>2, <2>2, <2>3, <2>4, <2>5, CreateRefines DEF Lifecycle!Next
  <2>6. CASE hw' = hw
    BY <1>0, <1>1, <1>2, <2>3, <2>4, <2>6, LookRefines DEF Lifecycle!Next
  <2> QED
    BY <2>1, <2>5, <2>6
<1>7. CASE SyncReconcile
  <2>1. PICK e \in sCur : ReconcileExistingHardware("cli-sync", e, hw)
    BY <1>7 DEF SyncReconcile
  <2>2. e \in Label /\ Key(e) \in names[e.dev]
    BY DEF CliTypeOK, Evidence, Named
  <2>3. Wanted' \subseteq Wanted
    BY <1>0, <1>7, ListsShrink DEF SyncReconcile
  <2>4. /\ hw \in [Keys -> Hardware \cup {NoHw}]
        /\ \A k \in Keys : Genuine(hw[k], k)
    BY DEF FleetTypeOK, Evidence
  <2> QED
    BY <1>0, <1>2, <1>7, <2>1, <2>2, <2>3, <2>4, ReconcileRefines DEF SyncReconcile
<1>8. CASE SyncPrune
  <2>1. UNCHANGED <<status, inv, installed, ops, call, sDesired, sCur>> /\ UNCHANGED Changes
    BY <1>8 DEF SyncPrune, Changes
  <2>2. CASE sPrune' = sPrune /\ hw' = hw
    BY <1>0, <1>1, <1>2, <1>3, <2>1, <2>2, LookRefines DEF Lifecycle!Next
  <2>3. ASSUME NEW e \in sPrune, sPrune' = sPrune \ {e},
               hw' = hw \/ hw' = [hw EXCEPT ![Key(e)] = NoHw]
        PROVE  Lifecycle!Next
    <3>1. e \in Label /\ [dev |-> e.dev, key |-> Key(e)] \in Unwanted
      BY <2>3 DEF CliTypeOK, Unwanted, Entries
    <3>2. Unwanted' \subseteq Unwanted
      BY <1>0, <2>3, ListsShrink
    <3>3. CASE hw' = hw
      BY <1>0, <1>1, <1>3, <2>1, <3>2, <3>3, LookRefines DEF Lifecycle!Next
    <3>4. CASE hw' = [hw EXCEPT ![Key(e)] = NoHw]
      BY <1>0, <1>3, <2>1, <3>1, <3>2, <3>4, RemoveRefines DEF Lifecycle!Next
    <3> QED
      BY <2>3, <3>3, <3>4
  <2> QED
    BY <1>8, <2>2, <2>3 DEF SyncPrune
<1>9. CASE SyncExits
  <2>1. Wanted' \subseteq Wanted /\ Unwanted' \subseteq Unwanted
    BY <1>0, <1>9, ListsShrink DEF SyncExits
  <2>2. Changes' \subseteq Changes
    BY <1>0, <1>9, CallKept DEF SyncExits
  <2> QED
    BY <1>0, <1>9, <2>1, <2>2, LookRefines DEF SyncExits, Lifecycle!Next
<1>10. ASSUME NEW ns \in Namespaces, SyncStatusStart(ns)
       PROVE  Lifecycle!Next
  BY <1>0, <1>1, <1>2, <1>3, <1>10, LookRefines
  DEF SyncStatusStart, fleetVars, syncVars, Lifecycle!Next
<1>11. CASE SyncStatusNext
  <2>1. UNCHANGED <<status, inv, hw, installed, ops, Wanted, Unwanted>>
    BY <1>2, <1>3, <1>11 DEF SyncStatusNext, syncVars
  <2>2. CASE call' = call
    BY <1>0, <1>1, <2>1, <2>2, LookRefines DEF Lifecycle!Next
  <2>3. ASSUME NEW i \in listed, i.hw.label # NoLabel,
               call' = [call EXCEPT !["cli-sync-status"] =
                          NewCall(i.hw.label.dev,
                                  IF i.hw.prov = "true" THEN "active" ELSE "staged",
                                  i.key)]
        PROVE  Lifecycle!Next
    <3> DEFINE d == i.hw.label.dev
               t == IF i.hw.prov = "true" THEN "active" ELSE "staged"
    <3>1. i.key \in Keys /\ i.hw \in Hardware /\ d \in Devices
      BY <2>3 DEF CliTypeOK, Item, Hardware, Label
    <3>2. Genuine(i.hw, i.key) /\ i.hw # NoHw
      BY <2>3, <3>1, FleetAssumption DEF Evidence, FleetAssumption
    <3>3. i.key \in names[d] /\ t \in {"staged", "active"}
          /\ (t = "active" => InstalledUnder(i.key))
      BY <2>3, <3>2 DEF Genuine
    <3>4. call' = [call EXCEPT !["cli-sync-status"] = NewCall(d, t, i.key)]
      BY <2>3
    <3> HIDE DEF d, t
    <3>5. Changes' \subseteq Changes \cup {[dev |-> d, target |-> t]}
      BY <1>0, <3>1, <3>3, <3>4, CallDecided
    <3>6. UNCHANGED Stages
      BY <2>1 DEF Stages, Stage
    <3> QED
      BY <1>0, <2>1, <3>1, <3>3, <3>5, <3>6, DecideRefines DEF Lifecycle!Next
  <2> QED
    BY <1>11, <2>2, <2>3 DEF SyncStatusNext
<1>12. CASE CliCall
  <2>1. PICK c \in {"cli-sync", "cli-sync-status"} : Retrieve(c) \/ PatchStatus(c) \/ CallFails(c)
    BY <1>12 DEF CliCall
  <2>2. c \in Clients /\ UNCHANGED <<names, Wanted, Unwanted>>
    BY <1>0, <1>2, <1>3, <1>12 DEF CliCall, cliVars, syncVars
  <2> QED
    BY <2>1, <2>2, StatusCallRefines
<1> QED
  BY <1>0, <1>4, <1>5, <1>6, <1>7, <1>8, <1>9, <1>10, <1>11, <1>12 DEF Cli

\* The steps that leave NetBox and the API alone.
LEMMA QuietRefines ==
    ASSUME TypeOK,
           KubernetesUpdaterRestart \/ (\E k \in Keys : CacheStep(k)) \/ UNCHANGED vars
    PROVE  Lifecycle!Next
<1> USE DEF TypeOK
<1>1. UNCHANGED <<status, inv, names, hw, installed, ops>>
  BY DEF KubernetesUpdaterRestart, Restart, CacheStep, CacheSync, vars, fleetVars
<1>2. Wanted' \subseteq Wanted /\ Unwanted' \subseteq Unwanted
  <2>1. (desired' \cup cur' \cup sDesired' \cup sCur') \subseteq (desired \cup cur \cup sDesired \cup sCur)
    BY DEF KubernetesUpdaterRestart, Restart, CacheStep, CacheSync, vars, kubernetesVars,
       cliVars, syncVars
  <2>2. (toPrune' \cup sPrune') \subseteq (toPrune \cup sPrune)
    BY DEF KubernetesUpdaterRestart, Restart, CacheStep, CacheSync, vars, kubernetesVars,
       cliVars, syncVars
  <2> QED
    BY <2>1, <2>2, ListsShrink
<1>3. Changes' \subseteq Changes
  <2>1. Client \in Clients /\ (call' = call \/ call' = [call EXCEPT ![Client] = NoCall])
    BY DEF KubernetesUpdaterRestart, Restart, CacheStep, CacheSync, vars, fleetVars,
       Client, Clients
  <2> QED
    BY <2>1, CallKept
<1> QED
  BY <1>1, <1>2, <1>3, LookRefines DEF Lifecycle!Next

\* The controllers and commands, with their caches, queues, passes, snapshots
\* and faults, implement DeviceLifecycle: every creation, deletion and status
\* change they make (applyHardware, pruneHardware, setDeviceStatus) goes back
\* to a decision that was right when it was made.
THEOREM HardwareImplementsLifecycle == Spec => ImplementsLifecycle
<1>1. Init => Lifecycle!Init
  BY InitRefines
<1>2. TypeOK /\ Evidence /\ [Next]_vars => [Lifecycle!Next]_(Lifecycle!vars)
  BY EnvironmentRefines, PassRefines, WorkerRefines, CliRefines, QuietRefines DEF Next
<1>3. Init => TypeOK /\ Evidence
  BY TypeInit, EvidenceInit
<1>4. TypeOK /\ Evidence /\ [Next]_vars => TypeOK' /\ Evidence'
  BY TypeStep, EvidenceStep
<1> QED
  BY <1>1, <1>2, <1>3, <1>4, PTL DEF Spec, ImplementsLifecycle, Lifecycle!Spec
=============================================================================
