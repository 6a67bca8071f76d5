---------------------------- MODULE HardwareCli ----------------------------
(***************************************************************************)
(* The commands "tinkerbell hardware sync" and "... sync-status" of the    *)
(* command line, which an operator or a cron job may run while the         *)
(* controllers are at work.  They read and write the API directly.         *)
(***************************************************************************)
EXTENDS Fleet

CONSTANTS MaxSyncs, MaxSyncStatuses    \* bounds: runs of each command

VARIABLES
    sPc,       \* where "sync" is
    sDesired,  \* Hardware objects "sync" has still to create or reconcile
    sPrune,    \* Hardware objects "sync" has still to delete
    sCur,      \* the entry whose creation was refused
    syncs,     \* runs of "sync" so far
    listed,    \* Hardware objects "sync-status" has listed and not handled
    syncStatuses   \* runs of "sync-status" so far

syncVars == <<sPc, sDesired, sPrune, sCur, syncs>>
syncStatusVars == <<listed, syncStatuses>>
cliVars == <<syncVars, syncStatusVars>>

\* The number of runs of the two commands is bounded.
ASSUME CliAssumption == MaxSyncs \in Nat /\ MaxSyncStatuses \in Nat

Item == [key : Keys, hw : Hardware]

CliTypeOK ==
    /\ sPc \in {"idle", "create", "reconcile", "prune"}
    /\ sDesired \subseteq Label
    /\ sPrune \subseteq Label
    /\ sCur \subseteq Label
    /\ syncs \in 0..MaxSyncs
    /\ listed \subseteq Item
    /\ syncStatuses \in 0..MaxSyncStatuses

CliInit ==
    /\ sPc = "idle"
    /\ sDesired = {}
    /\ sPrune = {}
    /\ sCur = {}
    /\ syncs = 0
    /\ listed = {}
    /\ syncStatuses = 0

-----------------------------------------------------------------------------
(* hardware sync.                                                          *)

\* The staged devices are listed; a failure ends the command.
SyncStart ==
    /\ sPc = "idle"
    /\ syncs < MaxSyncs
    /\ syncs' = syncs + 1
    /\ ~ListPanics({"staged"})
    /\ \E lost \in SUBSET GetDevices({"staged"}) :
          /\ Lose(lost)
          /\ sDesired' = CreateHardwares(lost)
    /\ sPc' = "create"
    /\ UNCHANGED <<status, inv, hw, call, installed, ops, sPrune, sCur, syncStatusVars>>

\* The creation is tried first; an object that exists is reconciled, another
\* error is counted and the command goes on.
SyncCreate ==
    /\ sPc = "create"
    /\ call["cli-sync"] = NoCall
    /\ \E e \in sDesired :
          /\ IsNext(e, sDesired)
          /\ sDesired' = sDesired \ {e}
          /\ \/ /\ hw[Key(e)] = NoHw
                /\ hw' = [hw EXCEPT ![Key(e)] = NewHardware(e)]
                /\ UNCHANGED <<sPc, sCur, faults>>
             \/ /\ hw[Key(e)] # NoHw
                /\ sPc' = "reconcile"
                /\ sCur' = {e}
                /\ UNCHANGED <<hw, faults>>
             \/ /\ SpendFault
                /\ UNCHANGED <<hw, sPc, sCur>>
    /\ UNCHANGED <<status, inv, call, installed, ops, sPrune, syncs, syncStatusVars>>

\* ReconcileExistingHardware reads the object from the API.
SyncReconcile ==
    /\ sPc = "reconcile"
    /\ \E e \in sCur : ReconcileExistingHardware("cli-sync", e, hw)
    /\ sPc' = "create"
    /\ sCur' = {}
    /\ UNCHANGED <<status, inv, installed, ops, faults, sDesired, sPrune, syncs, syncStatusVars>>

\* The devices to prune are listed after every object has been applied.
SyncListPrune ==
    /\ sPc = "create"
    /\ call["cli-sync"] = NoCall
    /\ sDesired = {}
    /\ ~ListPanics({"offline", "planned"})
    /\ \E lost \in SUBSET GetDevices({"offline", "planned"}) :
          /\ Lose(lost)
          /\ sPrune' = CreateHardwaresToPrune(lost)
    /\ sPc' = "prune"
    /\ UNCHANGED <<status, inv, hw, call, installed, ops, sDesired, sCur, syncs, syncStatusVars>>

\* The objects are deleted one after the other; a failure (an object that
\* does not exist is one) is counted.  Then the command ends.
SyncPrune ==
    /\ sPc = "prune"
    /\ \/ \E e \in sPrune :
             /\ IsNext(e, sPrune)
             /\ sPrune' = sPrune \ {e}
             /\ \/ hw' = [hw EXCEPT ![Key(e)] = NoHw] /\ UNCHANGED faults
                \/ UNCHANGED hw /\ SpendFault
             /\ UNCHANGED sPc
       \/ /\ sPrune = {}
          /\ sPc' = "idle"
          /\ UNCHANGED <<hw, sPrune, faults>>
    /\ UNCHANGED <<status, inv, call, installed, ops, sDesired, sCur, syncs, syncStatusVars>>

\* fatalExit when a listing fails, a panic, or an interrupted terminal.
SyncExits ==
    /\ sPc # "idle"
    /\ \/ SpendFault
       \/ /\ sPc = "create" /\ sDesired = {} /\ call["cli-sync"] = NoCall
          /\ ListPanics({"offline", "planned"})
          /\ UNCHANGED faults
    /\ sPc' = "idle"
    /\ sDesired' = {}
    /\ sPrune' = {}
    /\ sCur' = {}
    /\ call' = [call EXCEPT !["cli-sync"] = NoCall]
    /\ UNCHANGED <<status, inv, hw, installed, ops, syncs, syncStatusVars>>

-----------------------------------------------------------------------------
(* hardware sync-status.                                                   *)

\* The objects of one namespace are listed, once.
SyncStatusStart(ns) ==
    /\ listed = {}
    /\ call["cli-sync-status"] = NoCall
    /\ syncStatuses < MaxSyncStatuses
    /\ syncStatuses' = syncStatuses + 1
    /\ listed' = {[key |-> k, hw |-> hw[k]] :
                    k \in {j \in Keys : NsOf[j] = ns /\ hw[j] # NoHw}}
    /\ UNCHANGED <<fleetVars, syncVars>>

\* One listed object: a value of the annotation other than "true" and a
\* missing label are skipped; otherwise the status is set.
SyncStatusNext ==
    /\ call["cli-sync-status"] = NoCall
    /\ \E i \in listed :
          /\ listed' = listed \ {i}
          /\ call' = IF i.hw.prov = "other" \/ i.hw.label = NoLabel THEN call
                     ELSE [call EXCEPT !["cli-sync-status"] =
                             NewCall(i.hw.label.dev,
                                     IF i.hw.prov = "true" THEN "active" ELSE "staged",
                                     i.key)]
    /\ UNCHANGED <<status, inv, hw, installed, ops, faults, syncVars, syncStatuses>>

\* The requests of the status calls; errors are reported, not retried.
CliCall ==
    /\ \E c \in {"cli-sync", "cli-sync-status"} :
          Retrieve(c) \/ PatchStatus(c) \/ CallFails(c)
    /\ UNCHANGED cliVars

Cli ==
    \/ SyncStart \/ SyncCreate \/ SyncReconcile \/ SyncListPrune \/ SyncPrune \/ SyncExits
    \/ \E ns \in Namespaces : SyncStatusStart(ns)
    \/ SyncStatusNext
    \/ CliCall
=============================================================================
