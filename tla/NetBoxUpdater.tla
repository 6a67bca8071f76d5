--------------------------- MODULE NetBoxUpdater ---------------------------
(***************************************************************************)
(* controller-netbox-updater: the HardwareReconciler.  Every change of a   *)
(* Hardware object in the watched namespace queues its key; one worker     *)
(* takes the keys from the queue, reads the object from the API (objects   *)
(* of an unstructured type are not served from the cache) and sets the     *)
(* status of the device its label names.                                   *)
(***************************************************************************)
EXTENDS Fleet

VARIABLE queue    \* the controller's work queue, without duplicates

NetBoxTypeOK == queue \subseteq Keys

Worker == "netbox-updater"

\* Keys the watch reports when the controller starts or resynchronises.
Existing == {k \in CachedKeys : hw[k] # NoHw}

NetBoxInit == queue = Existing

\* The device the label names; NoDevice when the label is missing or is not
\* a number.
DeviceIDFromLabels(h) == IF h.label = NoLabel THEN NoDevice ELSE h.label.dev

\* Mutant: the presence of the annotation is taken for its value.
TargetNetBoxStatus_AnyValue(h) == IF h.prov # "absent" THEN "active" ELSE "staged"

\* The status the annotation calls for; any value but "true" means staged.
TargetNetBoxStatus(h) == IF h.prov = "true" THEN "active" ELSE "staged"

\* Mutant: a missing label is not noticed.
Reconcile_NoLabelCheck(k) ==
    /\ k \in queue
    /\ call[Worker] = NoCall
    /\ queue' = queue \ {k}
    /\ call' = IF hw[k] = NoHw THEN call
               ELSE [call EXCEPT ![Worker] =
                       NewCall(DeviceIDFromLabels(hw[k]), TargetNetBoxStatus(hw[k]), k)]
    /\ UNCHANGED <<status, inv, hw, installed, ops, faults>>

\* Reconcile up to the status call.  A deleted object and an object without
\* the label are done with.
Reconcile(k) ==
    /\ k \in queue
    /\ call[Worker] = NoCall
    /\ queue' = queue \ {k}
    /\ call' = IF hw[k] = NoHw \/ DeviceIDFromLabels(hw[k]) = NoDevice THEN call
               ELSE [call EXCEPT ![Worker] =
                       NewCall(DeviceIDFromLabels(hw[k]), TargetNetBoxStatus(hw[k]), k)]
    /\ UNCHANGED <<status, inv, hw, installed, ops, faults>>

\* The requests of the status call.
WorkerCall ==
    /\ Retrieve(Worker) \/ PatchStatus(Worker)
    /\ UNCHANGED queue

\* A failed request makes Reconcile return the error: the key is queued again.
WorkerCallFails ==
    /\ CallFails(Worker)
    /\ queue' = queue \cup {call[Worker].key}

\* The periodic resynchronisation of the manager's cache.
Resync ==
    /\ ~(Existing \subseteq queue)
    /\ queue' = queue \cup Existing
    /\ UNCHANGED fleetVars

\* The process dies and is started again: it finds every existing object.
WorkerRestart ==
    /\ SpendFault
    /\ call' = [call EXCEPT ![Worker] = NoCall]
    /\ queue' = Existing
    /\ UNCHANGED <<status, inv, hw, installed, ops>>
=============================================================================
