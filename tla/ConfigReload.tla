---------------------------- MODULE ConfigReload ----------------------------
(***************************************************************************)
(* The configuration of a controller: a ConfigMap and a Secret, the        *)
(* controller's cache of both, the ConfigReconciler that copies them into  *)
(* the shared Config, and the reconcilers that read the Config through its *)
(* getters, one field at a time, while it may be replaced.                 *)
(*                                                                         *)
(* The two controllers have a ConfigMap, a Secret and a Config each and do *)
(* not meet; "program" says which of them a behaviour is about.            *)
(***************************************************************************)
EXTENDS Naturals

CONSTANTS
    Settings,        \* values of the other entries: endpoint, filters, variant, interval
    DefaultSettings, \* the ones of NewConfig
    Tokens,          \* NetBox tokens other than the empty one
    MaxEdits,        \* bound: changes of ConfigMap and Secret, events of Hardware objects
    MaxCrashes,      \* bound: restarts and failed requests
    Missing, NoClient, Unread

VARIABLES
    program,         \* the controller
    cm, token,       \* the API: ConfigMap, and token in the Secret
    cachedCm, cachedToken,
    config,          \* Config: backend, settings and client
    boot,            \* where main is: "get", "secret", "running"
    read,            \* ConfigMap read by the Bootstrap or Reconcile under way
    queueC,          \* the ConfigReconciler has work
    queueS,          \* the NetBoxSyncReconciler has work
    pass,            \* the pass of the NetBoxSyncReconciler
    last,            \* history: what the last completed pass worked with
    registered,      \* the HardwareReconciler was set up
    queueH,          \* the HardwareReconciler has work
    unhandled,       \* history: a Hardware event not yet acted upon
    edits, crashes

apiVars == <<cm, token>>
cacheVars == <<cachedCm, cachedToken>>
syncVars == <<queueS, pass, last>>
hardwareVars == <<registered, queueH, unhandled>>
boundVars == <<edits, crashes>>
vars == <<program, apiVars, cacheVars, config, boot, read, queueC, syncVars, hardwareVars,
          boundVars>>

Programs == {"kubernetes-updater", "netbox-updater"}

\* The values of "backend" that the programs tell apart.
Backends == {"tinkerbell", "metal3", "unknown"}

ConfigMap == [backend : Backends \cup {""}, settings : Settings]
Token == Tokens \cup {""}
Client == [settings : Settings, token : Tokens]

\* What the models need of their parameters.
ASSUME ConfigAssumption ==
    /\ DefaultSettings \in Settings
    /\ "" \notin Tokens
    /\ MaxEdits \in Nat /\ MaxCrashes \in Nat
    /\ Missing \notin ConfigMap \cup Token
    /\ NoClient \notin Client
    /\ Unread \notin Settings \cup Client \cup {NoClient}

\* What a pass has read so far, in the order in which it reads.
PassData == [pc : {"idle", "backend", "client", "filters", "variant", "apply"},
             client  : Client \cup {NoClient, Unread},
             filters : Settings \cup {Unread},
             variant : Settings \cup {Unread},
             again   : Client \cup {NoClient, Unread}]

NoPass == [pc |-> "idle", client |-> Unread, filters |-> Unread,
           variant |-> Unread, again |-> Unread]

DataTypeOK ==
    /\ program \in Programs
    /\ cm \in ConfigMap \cup {Missing} /\ cachedCm \in ConfigMap \cup {Missing}
    /\ token \in Token \cup {Missing} /\ cachedToken \in Token \cup {Missing}
    /\ read \in ConfigMap \cup {Missing}
    /\ config \in [backend : Backends, settings : Settings, client : Client \cup {NoClient}]
    /\ boot \in {"get", "secret", "running"}
    /\ pass \in PassData /\ last \in PassData
    /\ edits \in 0..MaxEdits
    /\ crashes \in 0..MaxCrashes

FlagTypeOK ==
    /\ queueC \in BOOLEAN /\ queueS \in BOOLEAN /\ queueH \in BOOLEAN
    /\ registered \in BOOLEAN /\ unhandled \in BOOLEAN

TypeOK == DataTypeOK /\ FlagTypeOK

\* What makes TypeOK inductive: Bootstrap has the ConfigMap when it turns to
\* the Secret.
BootstrapHasRead == boot = "secret" => read # Missing

\* What makes PassHasClient inductive: nothing is kept from pass to pass.
IdlePassIsEmpty == pass.pc = "idle" => pass = NoPass

\* NewConfig.
NewConfig == [backend |-> "tinkerbell", settings |-> DefaultSettings, client |-> NoClient]

Init ==
    /\ program \in Programs
    /\ cm \in ConfigMap \cup {Missing}
    /\ token \in Token \cup {Missing}
    /\ cachedCm = Missing /\ cachedToken = Missing
    /\ config = NewConfig
    /\ boot = "get" /\ read = Missing
    /\ queueC = FALSE /\ queueS = FALSE /\ pass = NoPass /\ last = NoPass
    /\ registered = FALSE /\ queueH = FALSE /\ unhandled = FALSE
    /\ edits = 0 /\ crashes = 0

Running == boot = "running"
SpendEdit == edits < MaxEdits /\ edits' = edits + 1
SpendCrash == crashes < MaxCrashes /\ crashes' = crashes + 1

-----------------------------------------------------------------------------
(* The API and the cache.                                                  *)

\* Someone changes, creates or deletes the ConfigMap or the Secret.
Edit ==
    /\ SpendEdit
    /\ \/ cm' \in (ConfigMap \cup {Missing}) \ {cm} /\ UNCHANGED token
       \/ token' \in (Token \cup {Missing}) \ {token} /\ UNCHANGED cm
    /\ UNCHANGED <<program, cacheVars, config, boot, read, queueC, syncVars, hardwareVars, crashes>>

\* The watch delivers the ConfigMap: both reconcilers are told.
CacheConfigMap ==
    /\ Running
    /\ cachedCm # cm
    /\ cachedCm' = cm
    /\ queueC' = TRUE
    /\ queueS' = (program = "kubernetes-updater")
    /\ UNCHANGED <<program, apiVars, cachedToken, config, boot, read, pass, last, hardwareVars,
                   boundVars>>

\* Mutant: the Secret is not watched.
CacheSecret_NotWatched ==
    /\ Running
    /\ cachedToken # token
    /\ cachedToken' = token
    /\ UNCHANGED <<program, apiVars, cachedCm, config, boot, read, queueC, syncVars, hardwareVars,
                   boundVars>>

\* The watch delivers the Secret, which is mapped to the key of the ConfigMap
\* for the ConfigReconciler only.
CacheSecret ==
    /\ Running
    /\ cachedToken # token
    /\ cachedToken' = token
    /\ queueC' = TRUE
    /\ UNCHANGED <<program, apiVars, cachedCm, config, boot, read, syncVars, hardwareVars, boundVars>>

-----------------------------------------------------------------------------
(* Config.                                                                 *)

\* Mutant: an empty token takes the client away.
Update_ClearsClient(backend, settings, t) ==
    [backend |-> backend, settings |-> settings,
     client |-> IF t # "" THEN [settings |-> settings, token |-> t] ELSE NoClient]

\* update: all fields are replaced, except that an empty token leaves the
\* client as it is.
Update(backend, settings, t) ==
    [backend |-> backend, settings |-> settings,
     client |-> IF t # "" THEN [settings |-> settings, token |-> t] ELSE config.client]

\* The backend in effect.
EffectiveBackend(m) == IF m.backend = "" THEN "tinkerbell" ELSE m.backend

\* Mutant: an absent entry is copied as it is.
ApplyConfigMapAndSecret_NoDefault(m, t) == config' = Update(m.backend, m.settings, t)

\* applyConfigMapAndSecret: absent entries get their defaults.
ApplyConfigMapAndSecret(m, t) == config' = Update(EffectiveBackend(m), m.settings, t)

\* main goes on without a configuration when Bootstrap fails.  The caches are
\* filled, all objects they hold are queued, and the HardwareReconciler is
\* set up or not, once and for all.
Start ==
    /\ boot' = "running"
    /\ read' = Missing
    /\ cachedCm' = cm /\ cachedToken' = token
    /\ queueC' = (cm # Missing \/ token # Missing)
    /\ queueS' = (program = "kubernetes-updater" /\ cm # Missing)
    /\ registered' = (program = "netbox-updater" /\ config'.backend = "tinkerbell")
    /\ queueH' = registered'
    /\ UNCHANGED <<program, apiVars, pass, last, unhandled, edits>>

\* Bootstrap, the ConfigMap.
BootstrapConfigMap ==
    /\ boot = "get"
    /\ cm # Missing
    /\ read' = cm
    /\ boot' = "secret"
    /\ UNCHANGED <<program, apiVars, cacheVars, config, queueC, syncVars, hardwareVars, boundVars>>

\* Bootstrap, the Secret.
BootstrapSecret ==
    /\ boot = "secret"
    /\ token # Missing
    /\ ApplyConfigMapAndSecret(read, token)
    /\ Start
    /\ UNCHANGED crashes

\* Bootstrap fails: one of the two does not exist, or a request fails.
BootstrapFails ==
    /\ \/ boot = "get" /\ cm = Missing /\ UNCHANGED crashes
       \/ boot = "secret" /\ token = Missing /\ UNCHANGED crashes
       \/ ~Running /\ SpendCrash
    /\ UNCHANGED config
    /\ Start

\* The process is restarted.
Crash ==
    /\ Running
    /\ SpendCrash
    /\ config' = NewConfig
    /\ boot' = "get" /\ read' = Missing
    /\ cachedCm' = Missing /\ cachedToken' = Missing
    /\ queueC' = FALSE /\ queueS' = FALSE /\ pass' = NoPass
    /\ registered' = FALSE /\ queueH' = FALSE
    /\ UNCHANGED <<program, apiVars, last, unhandled, edits>>

\* ConfigReconciler.Reconcile, the ConfigMap; nothing happens without one.
ReconcileConfigMap ==
    /\ Running
    /\ queueC /\ read = Missing
    /\ queueC' = FALSE
    /\ read' = cachedCm
    /\ UNCHANGED <<program, apiVars, cacheVars, config, boot, syncVars, hardwareVars, boundVars>>

\* ConfigReconciler.Reconcile, the Secret; nothing happens without one.
ReconcileSecret ==
    /\ Running
    /\ read # Missing
    /\ read' = Missing
    /\ IF cachedToken = Missing THEN UNCHANGED config
       ELSE ApplyConfigMapAndSecret(read, cachedToken)
    /\ UNCHANGED <<program, apiVars, cacheVars, boot, queueC, syncVars, hardwareVars, boundVars>>

-----------------------------------------------------------------------------
(* NetBoxSyncReconciler.Reconcile and syncTinkerbell: the reads of Config. *)

\* A step of a pass, which changes nothing but syncVars.
PassStep(pc) ==
    /\ pass.pc = pc
    /\ UNCHANGED <<program, apiVars, cacheVars, config, boot, read, queueC, hardwareVars, boundVars>>

\* Without a client the reconciler tries again after the interval.
PassBegins ==
    /\ PassStep("idle")
    /\ Running /\ queueS
    /\ IF config.client = NoClient THEN UNCHANGED <<queueS, pass>>
       ELSE queueS' = FALSE /\ pass' = [pass EXCEPT !.pc = "backend"]
    /\ UNCHANGED last

\* Backends other than tinkerbell are left for the next interval.
PassBackend ==
    /\ PassStep("backend")
    /\ IF config.backend = "tinkerbell"
       THEN pass' = [pass EXCEPT !.pc = "client"] /\ UNCHANGED queueS
       ELSE pass' = NoPass /\ queueS' = TRUE
    /\ UNCHANGED last

\* syncTinkerbell reads client, filters and variant in turn.
PassReads ==
    /\ \/ PassStep("client") /\ pass' = [pass EXCEPT !.client = config.client, !.pc = "filters"]
       \/ PassStep("filters") /\ pass' = [pass EXCEPT !.filters = config.settings, !.pc = "variant"]
       \/ PassStep("variant") /\ pass' = [pass EXCEPT !.variant = config.settings, !.pc = "apply"]
    /\ UNCHANGED <<queueS, last>>

\* Mutant: a pass does not ask for the next one.
PassEnds_NoRequeue ==
    /\ PassStep("apply")
    /\ last' = [pass EXCEPT !.again = config.client]
    /\ pass' = NoPass
    /\ UNCHANGED queueS

\* applyHardware reads the client anew for each existing object; the pass
\* ends, failed or not, with the request for the next one.
PassEnds ==
    /\ PassStep("apply")
    /\ last' = [pass EXCEPT !.again = config.client]
    /\ pass' = NoPass
    /\ queueS' = TRUE

-----------------------------------------------------------------------------
(* HardwareReconciler.Reconcile: the read of Config.                       *)

\* A Hardware object changes.  Without the reconciler nobody notices.
HardwareEvent ==
    /\ program = "netbox-updater"
    /\ Running
    /\ SpendEdit
    /\ queueH' = registered
    /\ unhandled' = TRUE
    /\ UNCHANGED <<program, apiVars, cacheVars, config, boot, read, queueC, syncVars, registered,
                   crashes>>

\* Mutant: an event that finds no client is dropped.
HandleEvent_Drops ==
    /\ Running /\ queueH
    /\ queueH' = FALSE
    /\ unhandled' = (unhandled /\ config.client = NoClient)
    /\ UNCHANGED <<program, apiVars, cacheVars, config, boot, read, queueC, syncVars, registered,
                   boundVars>>

\* The event is acted upon, or queued again as long as there is no client.
HandleEvent ==
    /\ Running /\ queueH
    /\ queueH' = (config.client = NoClient)
    /\ unhandled' = (unhandled /\ config.client = NoClient)
    /\ UNCHANGED <<program, apiVars, cacheVars, config, boot, read, queueC, syncVars, registered,
                   boundVars>>

-----------------------------------------------------------------------------
Bootstrap == BootstrapConfigMap \/ BootstrapSecret \/ BootstrapFails
Reconcile == ReconcileConfigMap \/ ReconcileSecret
Sync == PassBegins \/ PassBackend \/ PassReads \/ PassEnds

Next ==
    \/ Edit \/ CacheConfigMap \/ CacheSecret
    \/ Bootstrap \/ Crash \/ Reconcile
    \/ Sync
    \/ HardwareEvent \/ HandleEvent

Spec == Init /\ [][Next]_vars

(***************************************************************************)
(* Everything inside the controller goes on: main, the watches, each of    *)
(* the reconcilers (each has its own worker).  Edits, events and crashes   *)
(* owe nothing.                                                            *)
(***************************************************************************)
FairSpec ==
    /\ Spec
    /\ WF_vars(Bootstrap)
    /\ WF_vars(CacheConfigMap) /\ WF_vars(CacheSecret)
    /\ WF_vars(Reconcile)
    /\ WF_vars(Sync)
    /\ WF_vars(HandleEvent)

-----------------------------------------------------------------------------
(* Properties.                                                             *)

\* A pass that found a client at its start has one at every later read,
\* although each read is made anew and the Secret may be emptied or deleted
\* meanwhile (GetNetBoxClient in Reconcile, syncTinkerbell and
\* applyHardware; a nil client would be dereferenced).
PassHasClient ==
    pass.pc # "idle" => config.client # NoClient /\ pass.client # NoClient

Complete == cm # Missing /\ token # Missing

\* What the ConfigMap and the Secret call for.
WantedClient == [settings |-> cm.settings, token |-> token]

\* Once ConfigMap and Secret are there and left alone, the Config becomes and
\* stays what they say, in whatever order they were written, delivered and
\* read and whether or not Bootstrap found them (CONTROLLERS.md: "hot config
\* reload").
ConfigSettles ==
    <>[]Complete =>
        <>[](/\ Complete
             /\ config.backend = EffectiveBackend(cm)
             /\ config.settings = cm.settings
             /\ token # "" => config.client = WantedClient)

\* The passes of the kubernetes-updater end up working with the current
\* client, filters and variant, none of them left over from an older
\* configuration, although a change of the Secret triggers no pass
\* (NetBoxSyncReconciler.Reconcile, RequeueAfter).
PassesUseLatest ==
    (program = "kubernetes-updater"
       /\ <>[](Complete /\ token # "" /\ EffectiveBackend(cm) = "tinkerbell")) =>
        <>[](/\ Complete
             /\ {last.client, last.again} = {WantedClient}
             /\ {last.filters, last.variant} = {cm.settings})

\* A Hardware event that arrives before the NetBox client is configured, or
\* before a crash, is acted upon once there is a client (Requeue in
\* HardwareReconciler.Reconcile), provided the reconciler was set up.
EventsOutliveMissingConfig ==
    <>[](Complete /\ token # "" /\ registered) => <>[](~unhandled)
=============================================================================
