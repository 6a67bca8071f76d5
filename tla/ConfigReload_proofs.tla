------------------------ MODULE ConfigReload_proofs ------------------------
(***************************************************************************)
(* Proofs about ConfigReload: the Config stays well formed under hot       *)
(* reload, and a pass that began with a NetBox client never reads a nil    *)
(* one, for any settings, tokens and bounds.                               *)
(***************************************************************************)
EXTENDS ConfigReload, TLAPS

\* What applyConfigMapAndSecret leaves in the Config is well formed, and has
\* a client if there was one before.
LEMMA ApplyKeepsClient ==
    ASSUME DataTypeOK,
           NEW m \in ConfigMap, NEW t \in Token,
           ApplyConfigMapAndSecret(m, t)
    PROVE  /\ config' \in [backend : Backends, settings : Settings,
                           client : Client \cup {NoClient}]
           /\ config.client # NoClient => config'.client # NoClient
  <1>1. EffectiveBackend(m) \in Backends
    BY DEF EffectiveBackend, ConfigMap, Backends
  <1>2. t # "" => [settings |-> m.settings, token |-> t] \in Client
    BY DEF ConfigMap, Token, Client
  <1>3. config.client \in Client \cup {NoClient}
    BY DEF DataTypeOK
  <1>4. NoClient \notin Client
    BY ConfigAssumption
  <1> QED
    BY <1>1, <1>2, <1>3, <1>4 DEF ApplyConfigMapAndSecret, Update, ConfigMap

\* The assumptions, in the pieces the steps need.
LEMMA BoundsAreNat == MaxEdits \in Nat /\ MaxCrashes \in Nat
  BY ConfigAssumption

\* The settings of NewConfig are settings.
LEMMA DefaultsAreSettings == DefaultSettings \in Settings
  BY ConfigAssumption

\* A nil client is neither a client nor a field not yet read.
LEMMA NoClientIsNone == NoClient \notin Client /\ Unread # NoClient
  BY ConfigAssumption

\* The steps of a pass keep its local state well formed.
LEMMA SyncKeepsPassData ==
    ASSUME DataTypeOK, Sync
    PROVE  pass' \in PassData /\ last' \in PassData
  <1> USE DEF DataTypeOK, PassStep
  <1>1. pass \in PassData /\ last \in PassData /\ NoPass \in PassData
    BY DEF PassData, NoPass
  <1>2. config.client \in Client \cup {NoClient} /\ config.settings \in Settings
    OBVIOUS
  <1>3. CASE PassBegins
    <2>1. [pass EXCEPT !.pc = "backend"] \in PassData
      BY <1>1 DEF PassData
    <2>2. QED
      BY <1>1, <1>3, <2>1 DEF PassBegins
  <1>4. CASE PassBackend
    BY <1>1, <1>4 DEF PassBackend, PassData
  <1>5. CASE PassReads
    <2>1. [pass EXCEPT !.client = config.client, !.pc = "filters"] \in PassData
      BY <1>1, <1>2 DEF PassData
    <2>2. [pass EXCEPT !.filters = config.settings, !.pc = "variant"] \in PassData
      BY <1>1, <1>2 DEF PassData
    <2>3. [pass EXCEPT !.variant = config.settings, !.pc = "apply"] \in PassData
      BY <1>1, <1>2 DEF PassData
    <2>4. QED
      BY <1>1, <1>5, <2>1, <2>2, <2>3 DEF PassReads, syncVars
  <1>6. CASE PassEnds
    BY <1>1, <1>2, <1>6 DEF PassEnds, PassData
  <1> QED
    BY <1>3, <1>4, <1>5, <1>6 DEF Sync

\* Every step leaves the data well formed.
LEMMA DataStep == ASSUME TypeOK, BootstrapHasRead, [Next]_vars PROVE DataTypeOK'
  <1> USE DEF TypeOK, DataTypeOK, apiVars, cacheVars, syncVars, hardwareVars, boundVars
  <1>1. CASE Edit
    BY <1>1, BoundsAreNat DEF Edit, SpendEdit
  <1>2. CASE CacheConfigMap
    BY <1>2 DEF CacheConfigMap
  <1>3. CASE CacheSecret
    BY <1>3 DEF CacheSecret
  <1>4. CASE BootstrapConfigMap
    BY <1>4 DEF BootstrapConfigMap
  <1>5. CASE BootstrapSecret
    <2>1. read \in ConfigMap /\ token \in Token
      BY <1>5 DEF BootstrapSecret, BootstrapHasRead
    <2>2. config' \in [backend : Backends, settings : Settings, client : Client \cup {NoClient}]
      BY <1>5, <2>1, ApplyKeepsClient DEF BootstrapSecret
    <2>3. QED
      BY <1>5, <2>2 DEF BootstrapSecret, Start
  <1>6. CASE BootstrapFails
    BY <1>6, BoundsAreNat DEF BootstrapFails, Start, SpendCrash
  <1>7. CASE Crash
    BY <1>7, BoundsAreNat, DefaultsAreSettings DEF Crash, SpendCrash, NewConfig, NoPass, PassData, Backends
  <1>8. CASE ReconcileConfigMap
    BY <1>8 DEF ReconcileConfigMap
  <1>9. CASE ReconcileSecret
    BY <1>9, ApplyKeepsClient DEF ReconcileSecret
  <1>10. CASE Sync
    <2>1. pass' \in PassData /\ last' \in PassData
      BY <1>10, SyncKeepsPassData
    <2>2. QED
      BY <1>10, <2>1 DEF Sync, PassBegins, PassBackend, PassReads, PassEnds, PassStep
  <1>11. CASE HardwareEvent
    BY <1>11, BoundsAreNat DEF HardwareEvent, SpendEdit
  <1>12. CASE HandleEvent
    BY <1>12 DEF HandleEvent
  <1>13. CASE UNCHANGED vars
    BY <1>13 DEF vars
  <1> QED
    BY <1>1, <1>2, <1>3, <1>4, <1>5, <1>6, <1>7, <1>8, <1>9, <1>10, <1>11, <1>12, <1>13
    DEF Next, Bootstrap, Reconcile

\* Every step leaves the flags Boolean.
LEMMA FlagStep == ASSUME TypeOK, [Next]_vars PROVE FlagTypeOK'
  <1> USE Zenon DEF TypeOK, FlagTypeOK, apiVars, cacheVars, syncVars, hardwareVars, boundVars
  <1>1. CASE Edit
    BY <1>1 DEF Edit
  <1>2. CASE CacheConfigMap \/ CacheSecret
    BY <1>2 DEF CacheConfigMap, CacheSecret
  <1>3. CASE BootstrapConfigMap
    BY <1>3 DEF BootstrapConfigMap
  <1>4. CASE Start
    BY <1>4 DEF Start
  <1>5. CASE Crash
    BY <1>5 DEF Crash
  <1>6. CASE Reconcile
    BY <1>6 DEF Reconcile, ReconcileConfigMap, ReconcileSecret
  <1>7. CASE Sync
    BY <1>7 DEF Sync, PassBegins, PassBackend, PassReads, PassEnds, PassStep
  <1>8. CASE HardwareEvent \/ HandleEvent
    BY <1>8 DEF HardwareEvent, HandleEvent
  <1>9. CASE UNCHANGED vars
    BY <1>9 DEF vars
  <1> QED
    BY <1>1, <1>2, <1>3, <1>4, <1>5, <1>6, <1>7, <1>8, <1>9
    DEF Next, Bootstrap, BootstrapSecret, BootstrapFails

\* Types and BootstrapHasRead together are inductive: a ConfigMap that is gone
\* cannot be applied.
LEMMA TypesInductive == Spec => [](TypeOK /\ BootstrapHasRead)
  <1>1. Init => TypeOK /\ BootstrapHasRead
    <2> SUFFICES ASSUME Init PROVE TypeOK /\ BootstrapHasRead
      OBVIOUS
    <2>1. DataTypeOK
      BY BoundsAreNat, DefaultsAreSettings
      DEF Init, DataTypeOK, NewConfig, NoPass, PassData, Programs, Backends
    <2>2. FlagTypeOK
      BY DEF Init, FlagTypeOK
    <2>3. BootstrapHasRead
      BY DEF Init, BootstrapHasRead
    <2> QED
      BY <2>1, <2>2, <2>3 DEF TypeOK
  <1>2. TypeOK /\ BootstrapHasRead /\ [Next]_vars => TypeOK' /\ BootstrapHasRead'
    <2> SUFFICES ASSUME TypeOK, BootstrapHasRead, [Next]_vars
                 PROVE  TypeOK' /\ BootstrapHasRead'
      OBVIOUS
    <2>1. TypeOK'
      BY DataStep, FlagStep DEF TypeOK
    <2>2. BootstrapHasRead'
      BY DEF BootstrapHasRead, Next, Edit, CacheConfigMap, CacheSecret, Bootstrap,
             BootstrapConfigMap, BootstrapSecret, BootstrapFails, Start, Crash, Running,
             Reconcile, ReconcileConfigMap, ReconcileSecret, Sync, PassBegins, PassBackend,
             PassReads, PassEnds, PassStep, HardwareEvent, HandleEvent, vars
    <2> QED
      BY <2>1, <2>2
  <1> QED
    BY <1>1, <1>2, PTL DEF Spec

\* Type correctness, for every set of settings and tokens; in particular the
\* backend in the Config is never the empty string (applyConfigMapAndSecret).
THEOREM ConfigTypeCorrectness == Spec => []TypeOK
  BY TypesInductive, PTL

\* A pass that found a client never reads a nil one, for every set of settings
\* and tokens and every bound.  With IdlePassIsEmpty it is inductive given the
\* types: no step of the ConfigReconciler takes the client away (update), and
\* a restart ends the pass.
THEOREM PassNeverReadsNil == Spec => []PassHasClient
  <1> DEFINE Inv == PassHasClient /\ IdlePassIsEmpty
  <1>1. Init => Inv
    BY DEF Init, NoPass, PassHasClient, IdlePassIsEmpty
  <1>2. TypeOK /\ BootstrapHasRead /\ Inv /\ [Next]_vars => Inv'
    <2> SUFFICES ASSUME TypeOK, BootstrapHasRead, Inv, [Next]_vars
                 PROVE  Inv'
      OBVIOUS
    <2> USE DEF TypeOK, DataTypeOK, PassHasClient, IdlePassIsEmpty, apiVars, cacheVars,
                syncVars, hardwareVars
    <2>1. CASE BootstrapSecret
      <3>1. read \in ConfigMap /\ token \in Token
        BY <2>1 DEF BootstrapSecret, BootstrapHasRead
      <3>2. config.client # NoClient => config'.client # NoClient
        BY <2>1, <3>1, ApplyKeepsClient DEF BootstrapSecret
      <3>3. QED
        BY <2>1, <3>2 DEF BootstrapSecret, Start
    <2>2. CASE ReconcileSecret
      BY <2>2, ApplyKeepsClient DEF ReconcileSecret
    <2>3. CASE Crash
      BY <2>3 DEF Crash, NoPass
    <2>4. CASE Sync
      <3>1. config' = config
        BY <2>4 DEF Sync, PassBegins, PassBackend, PassReads, PassEnds, PassStep
      <3>2. CASE PassBegins
        <4>1. pass = NoPass
          BY <3>2 DEF PassBegins, PassStep
        <4>2. CASE config.client = NoClient
          BY <3>1, <3>2, <4>2 DEF PassBegins
        <4>3. CASE config.client # NoClient
          <5>1. pass' = [NoPass EXCEPT !.pc = "backend"]
            BY <3>2, <4>1, <4>3 DEF PassBegins
          <5>2. QED
            BY <3>1, <4>3, <5>1, NoClientIsNone DEF NoPass
        <4>4. QED
          BY <4>2, <4>3
      <3>3. CASE PassBackend
        BY <3>1, <3>3, NoClientIsNone DEF PassBackend, PassStep, NoPass, PassData
      <3>4. CASE PassReads
        BY <3>1, <3>4, NoClientIsNone DEF PassReads, PassStep, PassData
      <3>5. CASE PassEnds
        BY <3>1, <3>5 DEF PassEnds, NoPass
      <3>6. QED
        BY <2>4, <3>2, <3>3, <3>4, <3>5 DEF Sync
    <2>5. CASE UNCHANGED <<config, pass>>
      BY <2>5
    <2> QED
      BY <2>1, <2>2, <2>3, <2>4, <2>5
      DEF Next, Bootstrap, Reconcile, Edit, CacheConfigMap, CacheSecret, BootstrapConfigMap,
          BootstrapFails, Start, ReconcileConfigMap, HardwareEvent, HandleEvent, vars
  <1> QED
    BY <1>1, <1>2, TypesInductive, PTL DEF Spec
=============================================================================
