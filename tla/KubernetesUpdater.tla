------------------------- MODULE KubernetesUpdater -------------------------
(***************************************************************************)
(* controller-kubernetes-updater: the NetBoxSyncReconciler, a single       *)
(* goroutine that repeats a pass over NetBox (two listings, then one       *)
(* object after the other), reading Kubernetes through the manager's cache *)
(* and writing to the API.                                                 *)
(*                                                                         *)
(* Every pass is followed by another one: after the sync interval, or with *)
(* back-off when an error was counted.  The number of errors only selects  *)
(* the delay, so it is not part of the state.                              *)
(***************************************************************************)
EXTENDS Fleet

VARIABLES
    kPc,      \* where the pass is
    desired,  \* Hardware objects still to be applied
    toPrune,  \* Hardware objects still to be pruned
    cur,      \* the entry being applied, between the read and the write, or none
    cache     \* the manager's copy of the objects, which lags the API

kubernetesVars == <<kPc, desired, toPrune, cur, cache>>

Client == "kubernetes-updater"

KubernetesTypeOK ==
    /\ kPc \in {"idle", "prunelist", "apply", "create", "reconcile"}
    /\ desired \subseteq Label
    /\ toPrune \subseteq Label
    /\ cur \subseteq Label
    /\ cache \in [Keys -> Hardware \cup {NoHw}]

\* The cache as it is filled at start-up, before any reconciler runs.
Relist == [k \in Keys |-> IF k \in CachedKeys THEN hw[k] ELSE NoHw]

KubernetesInit ==
    /\ kPc = "idle"
    /\ desired = {}
    /\ toPrune = {}
    /\ cur = {}
    /\ cache = Relist

\* The watch brings the cache up to date with one object.
CacheSync(k) ==
    /\ k \in CachedKeys
    /\ cache[k] # hw[k]
    /\ cache' = [cache EXCEPT ![k] = hw[k]]
    /\ UNCHANGED <<fleetVars, kPc, desired, toPrune, cur>>

-----------------------------------------------------------------------------
(* syncTinkerbell.                                                         *)

\* The first listing.  When it fails or panics the pass ends where it began.
ListDesired ==
    /\ kPc = "idle"
    /\ ~ListPanics({"staged"})
    /\ \E lost \in SUBSET GetDevices({"staged"}) :
          /\ Lose(lost)
          /\ desired' = CreateHardwares(lost)
    /\ kPc' = "prunelist"
    /\ UNCHANGED <<status, inv, hw, call, installed, ops, toPrune, cur, cache>>

\* The second listing; status may have changed since the first.
ListToPrune ==
    /\ kPc = "prunelist"
    /\ ~ListPanics({"offline", "planned"})
    /\ \E lost \in SUBSET GetDevices({"offline", "planned"}) :
          /\ Lose(lost)
          /\ toPrune' = CreateHardwaresToPrune(lost)
    /\ kPc' = "apply"
    /\ UNCHANGED <<status, inv, hw, call, installed, ops, desired, cur, cache>>

\* The second listing fails or panics: the pass is given up before anything
\* has been applied.
ListToPruneFails ==
    /\ kPc = "prunelist"
    /\ \/ ListPanics({"offline", "planned"}) /\ UNCHANGED faults
       \/ SpendFault
    /\ kPc' = "idle"
    /\ desired' = {}
    /\ UNCHANGED <<status, inv, hw, call, installed, ops, toPrune, cur, cache>>

\* applyHardware, the read: a key outside the cached namespace is an error, a
\* missing object is created, an existing one reconciled.
ApplyHardware ==
    /\ kPc = "apply"
    /\ call[Client] = NoCall
    /\ \E e \in desired :
          /\ IsNext(e, desired)
          /\ desired' = desired \ {e}
          /\ IF Key(e) \notin CachedKeys
             THEN UNCHANGED <<kPc, cur>>
             ELSE /\ kPc' = IF cache[Key(e)] = NoHw THEN "create" ELSE "reconcile"
                  /\ cur' = {e}
    /\ UNCHANGED <<fleetVars, toPrune, cache>>

\* applyHardware, the creation; the API refuses it when the object exists.
CreateHardware ==
    /\ kPc = "create"
    /\ \E e \in cur :
          hw' = IF hw[Key(e)] = NoHw THEN [hw EXCEPT ![Key(e)] = NewHardware(e)] ELSE hw
    /\ kPc' = "apply"
    /\ cur' = {}
    /\ UNCHANGED <<status, inv, call, installed, ops, faults, desired, toPrune, cache>>

\* applyHardware, an existing object, which is read again through the cache.
ReconcileHardware ==
    /\ kPc = "reconcile"
    /\ \E e \in cur : ReconcileExistingHardware(Client, e, cache)
    /\ kPc' = "apply"
    /\ cur' = {}
    /\ UNCHANGED <<status, inv, installed, ops, faults, desired, toPrune, cache>>

\* The API refuses the creation or the label patch.
WriteFails ==
    /\ kPc \in {"create", "reconcile"}
    /\ SpendFault
    /\ kPc' = "apply"
    /\ cur' = {}
    /\ UNCHANGED <<status, inv, hw, call, installed, ops, desired, toPrune, cache>>

\* Mutant: only objects that carry the labels of machinecfg are deleted.
PruneHardware_OnlyLabelled ==
    /\ kPc = "apply"
    /\ desired = {}
    /\ call[Client] = NoCall
    /\ \E e \in toPrune :
          /\ IsNext(e, toPrune)
          /\ toPrune' = toPrune \ {e}
          /\ LET k == Key(e) IN
             hw' = IF k \in CachedKeys /\ cache[k] # NoHw /\ cache[k].label # NoLabel
                   THEN [hw EXCEPT ![k] = NoHw] ELSE hw
          /\ UNCHANGED faults
    /\ UNCHANGED <<status, inv, call, installed, ops, kPc, desired, cur, cache>>

\* pruneHardware: what the cache shows decides, the deletion is not
\* conditional on the version read.  The deletion may fail.
PruneHardware ==
    /\ kPc = "apply"
    /\ desired = {}
    /\ call[Client] = NoCall
    /\ \E e \in toPrune :
          /\ IsNext(e, toPrune)
          /\ toPrune' = toPrune \ {e}
          /\ LET k == Key(e) IN
             \/ /\ hw' = IF k \in CachedKeys /\ cache[k] # NoHw
                         THEN [hw EXCEPT ![k] = NoHw] ELSE hw
                /\ UNCHANGED faults
             \/ UNCHANGED hw /\ SpendFault
    /\ UNCHANGED <<status, inv, call, installed, ops, kPc, desired, cur, cache>>

EndPass ==
    /\ kPc = "apply"
    /\ desired = {}
    /\ toPrune = {}
    /\ call[Client] = NoCall
    /\ kPc' = "idle"
    /\ UNCHANGED <<fleetVars, desired, toPrune, cur, cache>>

\* The requests of the status call a reconciled object may lead to.
StatusCall ==
    /\ Retrieve(Client) \/ PatchStatus(Client) \/ CallFails(Client)
    /\ UNCHANGED kubernetesVars

\* The process dies and is started again: its lists are gone, its cache is
\* filled anew before the first pass.
Restart ==
    /\ SpendFault
    /\ kPc' = "idle"
    /\ desired' = {}
    /\ toPrune' = {}
    /\ cur' = {}
    /\ cache' = Relist
    /\ call' = [call EXCEPT ![Client] = NoCall]
    /\ UNCHANGED <<status, inv, hw, installed, ops>>

\* The steps of a pass.
SyncTinkerbell ==
    \/ ListDesired \/ ListToPrune \/ ListToPruneFails
    \/ ApplyHardware \/ CreateHardware \/ ReconcileHardware \/ WriteFails
    \/ PruneHardware \/ EndPass
    \/ StatusCall
=============================================================================
