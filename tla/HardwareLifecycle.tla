------------------------- MODULE HardwareLifecycle -------------------------
(***************************************************************************)
(* The whole hardware lifecycle: NetBox and the Kubernetes API, operator   *)
(* and provisioner, the two controllers and the two commands, interleaved  *)
(* at their requests.  The programs share nothing but NetBox and the API.  *)
(***************************************************************************)
EXTENDS KubernetesUpdater, NetBoxUpdater, HardwareCli

VARIABLES
    seen,    \* history: statuses each device has had since the pass began
    names    \* history: keys each device has gone by

vars == <<fleetVars, kubernetesVars, queue, cliVars, seen, names>>

TypeOK ==
    /\ FleetTypeOK
    /\ KubernetesTypeOK
    /\ NetBoxTypeOK
    /\ CliTypeOK
    /\ seen \in [Devices -> SUBSET Status]
    /\ names \in [Devices -> SUBSET Keys]

Init ==
    /\ FleetInit
    /\ KubernetesInit
    /\ NetBoxInit
    /\ CliInit
    /\ seen = [d \in Devices |-> {status[d]}]
    /\ names = [d \in Devices |-> {KeyNow(d)}]

\* Every change of an object in the watched namespace reaches the work queue.
Watch == queue' = queue \cup {k \in CachedKeys : hw'[k] # hw[k]}

\* The history goes on, or starts again with the pass.
Observe == seen' = [d \in Devices |-> seen[d] \cup {status'[d]}]
ObserveAnew == seen' = [d \in Devices |-> {status[d]}]
RecordNames == names' = [d \in Devices |-> names[d] \cup {KeyOf[d][inv'[d]]}]

EnvironmentStep ==
    /\ Environment
    /\ Watch /\ Observe /\ RecordNames
    /\ UNCHANGED <<kubernetesVars, cliVars>>

KubernetesUpdaterStep ==
    /\ SyncTinkerbell
    /\ Watch
    /\ IF kPc = "idle" THEN ObserveAnew ELSE Observe
    /\ UNCHANGED <<cliVars, names>>

KubernetesUpdaterRestart ==
    /\ Restart
    /\ UNCHANGED <<queue, cliVars, seen, names>>

CacheStep(k) ==
    /\ CacheSync(k)
    /\ UNCHANGED <<queue, cliVars, seen, names>>

NetBoxUpdaterTakes(k) ==
    /\ Reconcile(k)
    /\ UNCHANGED <<kubernetesVars, cliVars, seen, names>>

NetBoxUpdaterCalls ==
    /\ WorkerCall \/ WorkerCallFails
    /\ Observe
    /\ UNCHANGED <<kubernetesVars, cliVars, names>>

NetBoxUpdaterResyncs ==
    /\ Resync
    /\ UNCHANGED <<kubernetesVars, cliVars, seen, names>>

NetBoxUpdaterRestart ==
    /\ WorkerRestart
    /\ UNCHANGED <<kubernetesVars, cliVars, seen, names>>

CliStep ==
    /\ Cli
    /\ Watch /\ Observe
    /\ UNCHANGED <<kubernetesVars, names>>

Next ==
    \/ EnvironmentStep
    \/ KubernetesUpdaterStep
    \/ KubernetesUpdaterRestart
    \/ \E k \in Keys : CacheStep(k)
    \/ \E k \in Keys : NetBoxUpdaterTakes(k)
    \/ NetBoxUpdaterCalls
    \/ NetBoxUpdaterResyncs
    \/ NetBoxUpdaterRestart
    \/ CliStep

Spec == Init /\ [][Next]_vars

(***************************************************************************)
(* Fairness is that of the controllers and of the machinery they run on:   *)
(* a pass goes on and is followed by another, the watch delivers, a queued *)
(* key gets its turn (the work queue is first-in first-out, hence strong   *)
(* fairness for each key), the cache is resynchronised every ten hours.    *)
(* Operator, provisioner, command line and faults owe nothing.             *)
(***************************************************************************)
Fairness ==
    /\ WF_vars(KubernetesUpdaterStep)
    /\ \A k \in Keys : WF_vars(CacheStep(k))
    /\ \A k \in Keys : SF_vars(NetBoxUpdaterTakes(k))
    /\ WF_vars(NetBoxUpdaterCalls)
    /\ WF_vars(NetBoxUpdaterResyncs)

FairSpec == Spec /\ Fairness

-----------------------------------------------------------------------------
(* Safety.                                                                 *)

\* A Workflow installed a machine that goes, or went, by key k.
InstalledUnder(k) == \E d \in installed : k \in names[d]

\* The mark of the provisioner, on an object or on a copy of it: the API's, the
\* cache's, those sync-status has listed.
Marked(h) == h # NoHw /\ h.prov = "true"

MarkedUnder(k) ==
    \/ Marked(hw[k])
    \/ Marked(cache[k])
    \/ \E i \in listed : i.key = k /\ Marked(i.hw)

\* A call is on its way to make d active.
CalledActive(d) ==
    \E c \in Clients : call[c] # NoCall /\ call[c].dev = d /\ call[c].target = "active"

\* There is something that may yet make d active.
Promised(d) == CalledActive(d) \/ \E k \in names[d] : MarkedUnder(k)

\* An object under a name of d is marked, after the installation of a machine
\* that goes, or went, by that name: of d, unless d shares its names.
JustInstalled(d) ==
    \E k \in names[d] : /\ hw[k] # NoHw /\ hw[k].prov # "true" /\ k \in names[hw[k].machine]
                       /\ hw' = [hw EXCEPT ![k].prov = "true"]
                       /\ installed' = installed \cup {hw[k].machine}

\* Nobody but an operator makes a device active (README, the row "Active")
\* without a marked object of its name, or a copy of one; and these come from
\* an installation under that name only (or from a rename of the device to
\* it).  Once the mark is gone from the API, the cache, the snapshot of
\* sync-status and the calls under way, it takes another installation: no
\* retry, late PATCH, restart or second device of that name brings it back
\* (setDeviceStatus and its callers).
PromotionsAreFounded ==
    [][\A d \in Devices :
          /\ status[d] # "active" /\ status'[d] = "active" => ops' # ops \/ Promised(d)
          /\ Promised(d)' => Promised(d) \/ JustInstalled(d) \/ names'[d] # names[d]]_vars

\* pruneHardware deletes an object only if a device of that name was offline
\* or planned at some moment of the pass: a prune list never outlives its
\* pass, whatever failed or was restarted in between.
PruneJustified ==
    [][\A k \in Keys :
          PruneHardware /\ hw[k] # NoHw /\ hw'[k] = NoHw =>
             \E d \in Devices : k \in names[d] /\ seen[d] \cap {"offline", "planned"} # {}]_vars

\* applyHardware creates an object only for a device that was staged at some
\* moment of the pass.
CreateJustified ==
    [][\A k \in Keys :
          CreateHardware /\ hw[k] = NoHw /\ hw'[k] # NoHw =>
             "staged" \in seen[hw'[k].machine]]_vars

-----------------------------------------------------------------------------
(* The inductive invariants behind the safety properties.                  *)

\* What is true of an object under key k wherever a copy of it is kept: it
\* is about devices of that name, and marked provisioned only after an
\* installation.
Genuine(h, k) ==
    h # NoHw => /\ k \in names[h.machine]
                /\ h.label # NoLabel => k \in names[h.label.dev]
                /\ h.prov = "true" => InstalledUnder(k)

\* What is true of a status call under way: it sets a device of the object's
\* name, and sets it active only after an installation.
Warranted(c) ==
    call[c] # NoCall => /\ call[c].key \in names[call[c].dev]
                        /\ call[c].target = "active" => InstalledUnder(call[c].key)

\* A listing holds entries under names their devices have had.
Named(S) == \A e \in S : Key(e) \in names[e.dev]

\* PromotionsAreFounded, and with it the refinement below, rests on this: all
\* copies of an object (the API's, the cache's, the snapshot of sync-status)
\* are genuine, all calls they led to are warranted, and new objects are made
\* under names their devices have had, if only at the time of the listing.
Evidence ==
    /\ \A d \in Devices : KeyNow(d) \in names[d]
    /\ Named(desired \cup cur) /\ Named(sDesired \cup sCur)
    /\ \A k \in Keys : Genuine(hw[k], k) /\ Genuine(cache[k], k)
    /\ \A i \in listed : Genuine(i.hw, i.key)
    /\ \A c \in Clients : Warranted(c)

\* PruneJustified and CreateJustified are preserved because the lists of a
\* pass hold what the history has seen since the pass began, and nothing is
\* left of them, nor of a status call, when the next pass begins.
PassOK ==
    /\ \A d \in Devices : status[d] \in seen[d]
    /\ \A e \in desired \cup cur : "staged" \in seen[e.dev]
    /\ \A e \in toPrune : Key(e) \in names[e.dev] /\ seen[e.dev] \cap {"offline", "planned"} # {}
    /\ \A d \in Devices : KeyNow(d) \in names[d]
    /\ kPc = "idle" => desired = {}
    /\ kPc \in {"idle", "prunelist"} => toPrune = {}
    /\ kPc \notin {"create", "reconcile"} => cur = {}
    /\ kPc # "apply" => call[Client] = NoCall

-----------------------------------------------------------------------------
(* The programs implement DeviceLifecycle.                                 *)

\* Decisions that have been made and not been carried out: the entries of the
\* lists of a pass and of a command, and the status calls under way.
Entries(S) == {[dev |-> e.dev, key |-> Key(e)] : e \in S}

Wanted   == Entries(desired \cup cur \cup sDesired \cup sCur)
Unwanted == Entries(toPrune \cup sPrune)

Changes ==
    {[dev |-> call[c].dev, target |-> call[c].target] :
        c \in {b \in Clients : call[b] # NoCall}}

\* Objects and names as the abstract specification knows them.
Stage(h) ==
    IF h = NoHw THEN "none" ELSE IF h.prov = "true" THEN "provisioned" ELSE "new"

Stages   == [k \in Keys |-> Stage(hw[k])]
NamesNow == [d \in Devices |-> KeyNow(d)]

Lifecycle == INSTANCE DeviceLifecycle
    WITH name <- NamesNow, object <- Stages,
         wanted <- Wanted, unwanted <- Unwanted, pending <- Changes

\* Every step of every program, from whatever stale copy and with whatever
\* fault, is a step of DeviceLifecycle: objects are created and removed only
\* under names that were listed with the right status, NetBox is written to
\* only by decisions that had their evidence, and only Tinkerbell marks an
\* object provisioned (applyHardware, pruneHardware, setDeviceStatus).
ImplementsLifecycle == Lifecycle!Spec

-----------------------------------------------------------------------------
(* Liveness, for devices whose names are cached and no other device's.     *)

Alone(d) ==
    \A e \in Devices, i, j \in Invs : KeyOf[e][i] = KeyOf[d][j] => e = d

Managed ==
    {d \in Devices : Alone(d) /\ \A i \in Invs : KeyOf[d][i] \in CachedKeys}

Readable(d) == Extractable(d) /\ inv[d] \notin NilInvs

\* No object under a former name speaks for the device.
NothingLeftBehind(d) ==
    \A k \in Keys \ {KeyNow(d)} :
        hw[k] # NoHw /\ hw[k].label # NoLabel => hw[k].label.dev # d

\* A device that stays staged ends up with a Hardware object that carries
\* its current name and labels, also after a rename, and whatever the cache
\* showed on the way (README, the row "Staged"; applyHardware,
\* ReconcileExistingHardware, createMetaFromDevice).
StagedGetsHardware ==
    \A d \in Managed :
        <>[](status[d] = "staged" /\ Readable(d)) =>
            <>[](/\ hw[KeyNow(d)] # NoHw
                 /\ hw[KeyNow(d)].label = [dev |-> d, inv |-> inv[d]])

\* A device that stays offline or planned ends up without Hardware object
\* under its name, even when the command line created it from an older
\* listing, the device got its name after it was listed, or someone made
\* the object by hand (README, the row "Offline"; pruneHardware).
OfflineIsPruned ==
    \A d \in Managed :
        <>[](status[d] \in {"offline", "planned"} /\ Readable(d)) =>
            <>[](hw[KeyNow(d)] = NoHw)

\* Once a labelled Hardware object is there to stay, the status of its device
\* settles on what the annotation calls for, in spite of late PATCHes of the
\* other programs, unless a rename has left a second object behind that calls
\* for another status (HardwareReconciler.Reconcile, targetNetBoxStatus).
StatusFollowsAnnotation ==
    \A d \in Managed :
        <>[](/\ hw[KeyNow(d)] # NoHw /\ hw[KeyNow(d)].label # NoLabel
             /\ NothingLeftBehind(d)) =>
            <>[](/\ hw[KeyNow(d)] # NoHw
                 /\ status[d] = TargetNetBoxStatus(hw[KeyNow(d)]))

-----------------------------------------------------------------------------
(* What the documentation says and the code does not do.                   *)

\* README, the row "Offline": "The `Hardware` object is deleted."
OfflineDeletesHardware ==
    \A d \in Devices : status[d] = "offline" ~> hw[KeyNow(d)] = NoHw
=============================================================================
