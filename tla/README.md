# A TLA+ model of machinecfg

machinecfg keeps three systems in step: NetBox (the inventory of devices and
clusters), the Kubernetes API (Tinkerbell `Hardware` objects, Cluster API
objects) and the machines Tinkerbell installs. Two controllers and a command
line do the work; they share nothing but NetBox and the API, and none of their
writes carries a precondition. This directory models the part of the code where
that matters, checks it with TLC on small instances, and proves the central
safety properties with TLAPS for all instances.

## 1. Inventory

| Component | State | Operations | Meets |
|---|---|---|---|
| kubernetes-updater, `NetBoxSyncReconciler` | informer cache, lists of the current pass | poll NetBox, create or relabel `Hardware` of staged devices, prune that of offline/planned ones, move provisioned devices to active | everyone, through NetBox and the API |
| netbox-updater, `HardwareReconciler` | work queue | on a `Hardware` event set the device `active` (annotation `provisioned` = `true`) or `staged` | kubernetes-updater, commands, operator |
| `hardware sync`, `hardware sync-status` | a listing or a snapshot | the same two directions, once, without cache | both controllers |
| netbox-updater, `ClusterReconciler`, and `cluster sync-status` | next group_id, the group found | `cluster.SyncStatus`: look up or create FHRP group, addresses, template, service | each other, through NetBox |
| `ConfigReconciler`, `Config` (both controllers) | endpoint, token, backend, filters, variant, interval, client under a RWMutex | bootstrap, reload on ConfigMap or Secret events, getters | every reconciler of the process |
| Extraction (`extractHardwareData`), filters | none | record to `Hardware` | called by passes and commands |
| Butane (Flatcar, FCOS) and Talos rendering | documents of the run | record to document, one request at a time; write files | NetBox; called by commands and extraction |
| `hardware clean/pxe/show` | objects read before | merge patches computed from an earlier read; a table | each other, kubernetes-updater and Tinkerbell, through the API |
| `cluster show/ipaddr` | rows so far | cross-reference NetBox with Cluster API objects | NetBox, the API |
| root command, flags, filters | options | check them, select devices and namespaces | every command |
| `seed-netbox`, `seed-authentik` | ids found in the run | look up or create a plan of records | NetBox, Authentik, an operator |
| OpenTelemetry, charts, templates | none of their own | set-up | - |

What is hard here:

* decisions from stale data: the informer cache, the lists of a pass, the
  snapshot of a command, `nextID`, a getter read before a reload, the base of a
  merge patch, the ids of a seeding run, answers of different moments in one document;
* read-then-write on NetBox without precondition, by four callers;
* two controllers working in opposite directions on one device;
* everything is repaired by repetition only: the next pass, the work queue, the
  ten-hourly resync;
* partial failures, lost answers, crashes in the middle of a pass;
* identities that are not identities: devices with one name, an address search
  that matches prefixes, FHRP groups of one name, devices that are renamed.

What makes each component correct: a device becomes active only on the strength of an
installation under its name; an object is created or deleted only for a reason the current pass
has seen; objects, labels and statuses converge; records of a cluster are made
once and belong to it; a reload never leaves a reader without client and is
eventually in effect; a document or report contains nothing that was never true of
its device or cluster; exit code 0 means done; a seeding run may be repeated at any
point. `PROJECT.json` lists the hazards line by line.

## 2. Modules

| Module | Models |
|---|---|
| `Fleet` | NetBox devices, `Hardware` objects, operator and Tinkerbell, and the shared code of `pkg/tinkerbell`: listing, extraction outcomes, `setDeviceStatus`, `ReconcileExistingHardware` |
| `KubernetesUpdater` | passes of `NetBoxSyncReconciler` and its cache |
| `NetBoxUpdater` | the work queue and worker of `HardwareReconciler` |
| `HardwareCli` | `hardware sync` and `hardware sync-status` |
| `HardwareLifecycle` | the composition, fairness, properties, and the refinement mapping |
| `DeviceLifecycle` | the abstract specification: what the programs promise together |
| `HardwareLifecycle_proofs` | theorems about the composition, among them that it implements `DeviceLifecycle` |
| `ClusterSync` | `cluster.SyncStatus` with its two callers, and their properties |
| `ClusterSync_proofs` | its theorems |
| `ConfigReload` | ConfigMap, Secret, cache, `Config`, its writer and readers, and their properties |
| `ConfigReload_proofs` | its theorems |
| `CommandLine` | the options all commands share, `getNamespace`, the selection `GetDevices` makes of them; used by the three below |
| `Lists`, `Lists_proofs` | slices, and the loops that filter and join them; what these loops compute, for lists of any length |
| `Rendering`, `Rendering_proofs` | `butane flatcar`, `butane fcos`, `talos machineconfig` and embedded Ignition; its theorems |
| `HardwareFields`, `HardwareFields_proofs` | `clean-userdata`, `clean-vendordata`, `pxe-allow`, `pxe-deny`, `show`; its theorems |
| `ClusterReports`, `ClusterReports_proofs` | `cluster show`, `cluster ipaddr show`; its theorems |
| `Seeding`, `Seeding_proofs` | the two seeding tools; its theorems |
| `MC...` | constants of the instances TLC checks |

Conventions: one action per request to NetBox or to the API, because that is the
grain at which the programs interleave (section 5 lists the steps that bundle requests); a definition keeps the name of its
function; an operator `X_...` marked "Mutant" is a plausible bug used to show that
a property can fail. `PROJECT.json` maps each definition to its lines.

### Hardware lifecycle

A device `d` has a status and an inventory record; with record `i` it goes by the key
`KeyOf[d][i]`, tenant slug and name. Two devices may share a key, and a device that is
renamed or moved to another tenant changes its own: the object under the old key
stays, since no listing names it again, and so does its label. `Hardware` objects carry their labels
(device id, and the record the other labels came from), the machine whose MAC is
in the spec, and the annotation. `WorkflowSucceeds` is the only step that marks an
object provisioned; the history variable `installed` remembers which machines it
happened to, `seen` the statuses each device has had since the current pass began, and
`names` the keys it has gone by.

A pass is: list staged devices, list offline or planned ones (a separate request,
with whatever has changed in between), apply each desired object (read the cache,
then create, or patch labels and possibly set the status), delete each object to be
pruned. Any request may fail; a crash clears everything local. `setDeviceStatus`
is a retrieve and a patch, with whatever happens in between; a failed patch may
have been applied. The listing returns one page (`PageSize`), drops records that
cannot be extracted and panics on nil fields, as the code does.

### The abstract device lifecycle

`DeviceLifecycle` knows the status and name of a device, whether there is an object
under a key and whether it is marked, and three sets of decisions that have been made
and not been carried out: objects wanted, objects unwanted, status changes pending. A
program may look at NetBox (and then decide on what it sees staged, offline or
planned at that moment), create what is wanted, remove what is unwanted, decide on
`active` for a device that was installed under one of its names, and write a pending
status over whatever is there. The refinement mapping takes the decisions from the
lists of passes and of `hardware sync` (`Wanted`, `Unwanted`) and from the calls under
way (`Changes`). Caches, queues, `seen` and the snapshot of `sync-status` have no
counterpart: that they never lead to a step the abstract specification does not
allow is what `ImplementsLifecycle` says.

### Cluster sync

A call of `SyncStatus` reads the next group_id once and then goes through its
clusters: endpoint, group, Cilium address, Tailscale prefix and address, template,
service, each a lookup and a creation. An error ends the cluster, not the call; an error about
the Tailscale address is only logged. NetBox (external) refuses a second address
or template, accepts a second group or service, and searches addresses by the
beginning of their text (`Search`). An address that is found is taken as it is, on whatever
group it may be; others may have recorded it by hand (`HandAddrs`). The controller cannot read the Tailscale Secret,
which is outside the namespace it caches, so only the command records that address.

### Configuration

`Config` is replaced in one step under its lock; readers take one field at a time. The
settings (endpoint, filters, variant, interval) are one abstract value, so that a
client or filter from an older configuration is visible as such. The two
controllers do not interact; `program` selects the one a behaviour is about. The
kubernetes-updater runs passes; the netbox-updater decides at start whether to
set up its `HardwareReconciler` and then handles events.

### Rendering

A command checks its options, resolves clusters, lists devices, and then reads for each
device its interfaces, for each interface its addresses, for each address its prefix; each
list request is a step and returns one page (`Page`), and NetBox may be edited between any two.
A document is the sequence of its network units. The three variants differ as the code does: Flatcar keeps one interface
unit, the last; FCOS has no addresses on VLANs, loses the error of an extraction in its loop
(`err` is declared anew) and panics on a prefix without VLAN; Talos has a unit for every
interface. Embedded Ignition reads the device a second time and panics if it is gone. Butane
(external) translates no document with two files of one path; the file stays empty. Paths are
made of interface and VLAN id for FCOS, and of the name of the VLAN or interface for Flatcar, so that
two VLANs of one name clash, and a VLAN with an interface of its name (`FileName`).
`DocumentIsReference` compares the documents with a definition without loops.

### Hardware fields

`clean-*` and `pxe-allow` read the objects and then send a merge patch for each of them, the
difference between the object read and the object wanted: an empty one if the field was clear
when read, the whole list of interfaces if one of them differs. `MergeFrom` and `PatchOf`
model that. `pxe-deny` does nothing, as in the code. `show` looks up the cluster of an object
twice. kubernetes-updater prunes and creates objects meanwhile, Tinkerbell claims them and
turns PXE off.

### Cluster reports

`cluster show` lists clusters (first page), then devices, virtual machines and readiness of each;
`cluster ipaddr show` lists control planes, then looks up each announced address and the Tailscale
one. A failed request leaves a gap and no trace in the exit code.

### Seeding

Both tools go through a plan in the order of `main`: each record is looked up and created if
there is none. A request may fail before or after it was carried out; the first error ends
the run. An operator deletes records and moves addresses; a permission whose user is deleted stays,
assigned to nobody (`orphaned`). NetBox and Authentik (external)
refuse references to records that are gone and duplicates of what is unique there.

## 3. Runs

Passing runs:

| Run | Instance | Properties |
|---|---|---|
| `shared_name` | two devices under one key, one of which may be renamed into another namespace, a page of one device, one operator change, one fault | `TypeOK`, `PromotionsAreFounded`, `PruneJustified`, `CreateJustified` |
| `cli_race` | one device, both controllers and one run of each command, a record that panics, one change, one fault | `ImplementsLifecycle` |
| `convergence` | one device with four records, one a rename and one incomplete, one change, one fault, controllers only | `ImplementsLifecycle`, `StagedGetsHardware`, `OfflineIsPruned`, `StatusFollowsAnnotation` |
| `convergence_cli` | one device, one record, one change, one fault, and one run of `hardware sync` beside the controllers | the last three |
| `cluster_sync` | a managed and a standalone cluster, controller and command, one change or address recorded by hand, one fault, possibly a group with the largest group_id | `TypeOK`, `SerialCallsDoNotDuplicate`, `AttachedToOwnCluster`, `ReportedAddressKnown`, `ManagedClusterGetsService` |
| `config_reload` | each controller, two settings, two tokens, two edits, one crash or failed bootstrap | `TypeOK`, `PassHasClient`, `ConfigSettles`, `PassesUseLatest`, `EventsOutliveMissingConfig` |
| `rendering` | three variants, embedded or not, 91 inventories of up to three devices with VLANs shared, tagged, missing or of one name, some with more devices, interfaces or addresses than the page of two, nine command lines, one edit, one fault | `TypeOK`, `UnitsAreSourced`, `SelectionRespected`, `AllFilesOrNone`, `DocumentIsReference` |
| `hardware_fields` | each command beside a `pxe-allow`, three objects in two namespaces, two changes, one fault | `TypeOK`, `ExitZeroMeansDone`, `ShownBelong`, `PatchesAreNarrow` |
| `seeding` | each tool, two devices, two controllers, two edits, one fault, one run after a complete one | `TypeOK`, `NoDuplicates`, `CompleteIsUsable`, `RerunChangesNothing`, `SeedingSettles` |
| `cluster_reports` | three clusters, more than a page, with more members than a page, two control planes, four command lines, one edit, one fault | `TypeOK`, `ShownWereMembers`, `AnnouncedAreShown`, `ShowIsReference` |

Why the bounds are enough: a stale decision needs one actor holding old data and
one change behind its back, so one or two changes and one fault reach each
hazard; two devices are needed for shared names, for a page that is too short and for a pass
that goes on after a failure, two clusters for a `nextID` that is used twice. Bounds are guards on
counters (`MaxOps`, `MaxFaults`, `MaxSyncs`, `MaxSyncStatuses`, `MaxRuns`,
`MaxEvents`, `MaxEdits`, `MaxCrashes`, `MaxChanges`). A rename needs one change and two keys;
a document mixed from two moments needs one edit and a device with two interfaces; a merge
patch that reverts something needs two writers of one object; a rerun that
duplicates needs one lost answer. Deadlock is not checked: all of these
systems may come to rest.

Runs that show a disagreement between the code and what is written about it
(details under "findings"):

| Run | What the documentation or a comment says | What happens |
|---|---|---|
| `v_offline_reverted` | Offline: "The `Hardware` object is deleted." | the `HardwareReconciler` sets the device back to staged before the next poll |
| `v_address_prefix` | `getOrCreateIPAddress` "ensures the given IP address exists ... and is assigned" | the search for 10.0.0.1 takes 10.0.0.10 for it |

Further disagreements met while modelling; the models contain the behaviour, and no
run is spent on it:

* README.md:103, "The `Workflow` succeeded." of an active device: the mark is on the object, and of two devices
  of one name (NetBox wants names unique per site only) the installation of one makes the other
  active (`JustInstalled`; `PromotionsAreFounded` is stated for names for that reason).
* `hardware_sync.go:35`, "When device is in an active on staged status, it is created.": only staged
  devices are (`pkg/tinkerbell/hardware.go:32`, `CreateHardwares`).
* `pkg/cluster/sync_status.go:440-441` and CLI.md:286, the address is "assigned to that FHRP group": one that is
  recorded already, by hand or for another cluster, is never assigned (lines 456-474; `FindAddr`),
  and the cluster is reported without error. `ReportedAddressKnown` lists the cases.
* `pkg/cluster/ipaddr.go:142-144`, "checks whether the given IP address is known to NetBox IPAM":
  the same prefix search, so that an unknown address is shown as assigned if a longer one is recorded
  (`Hits`; `AnnouncedAreShown` states the other direction only).
* `butane` and `talos` list one page of devices, of interfaces and of addresses (`pkg/common/netbox.go:56`,
  `flatcar.go:128`, 134; `Page`) and exit with 0 without a file for the other devices.
* README.md:100, "The `Hardware` object is deleted.": `GetDevices` (`pkg/common/netbox.go:56`) reads
  the first page of NetBox's answer only; a device beyond it is neither pruned nor created (`FirstPage`).
* README.md:102, "The `Hardware` object is created.": a JSON null for the primary address or the
  platform is dereferenced (`pkg/tinkerbell/hardware.go:113`, 169) and ends the pass for every
  device (`ListPanics`); and objects of a tenant whose namespace is not the controller's are outside its cache
  (`controller-kubernetes-updater/main.go:53`) and are never created (`CachedKeys`).
* CONTROLLERS.md:10, "updating the ConfigMap or Secret takes effect immediately without a pod
  restart": the backend is looked at once, at start (`controller-netbox-updater/main.go:104`; `registered`).
* `hardware_clean.go:50`, "This forces a fresh embedded Ignition config on next provisioning.":
  `vendorData` is written when an object is created and never again.
* `hardware_pxe.go:48`, "Set AllowPXE=false on Tinkerbell Hardware objects": `pxe-deny` changes nothing
  and exits with 0 (`hardware_pxe.go:62`).
* `seed-authentik/main.go:304-305`, `ensureNetboxPermission` "assigns it to the given user": not if
  the permission exists already (line 311). When the user of one was deleted, a rerun makes the user
  anew, leaves the permission without user and says "Seed complete."; `CompleteIsUsable` leaves
  out these permissions (`orphaned`) and no others.
* `pkg/cluster/show.go:96`, "returns all DCIM devices", and CLI.md:208, `cluster_show.go:25`, "List all"
  clusters: the first page only (lines 99 and 44; `Page`). `ShowIsReference` asks for all that fit.
* CLI.md:55, `--namespaces` is an "Alias for --tenants": it selects a namespace, never
  devices (`root.go:140`; `TextFilters`).
* `fcos` exits with 0 although an extraction failed (`pkg/butane/fcos.go:76`), which
  `AllFilesOrNone` leaves out for that reason.

### What the properties say

* `ImplementsLifecycle`: whatever the programs do was decided on when it was right (see above).
  It implies that nothing is made active without an installation under its name, in the presence
  of the commands too.
* `PromotionsAreFounded`: a device becomes active by an operator, or because there is a mark under one
  of its names: on the object, on the cached or listed copy of it, or behind a call under way. Marks
  come from installations under that name (or with a rename). So a mark, once gone from all of
  these, has to be earned again; no retry, late patch or restart brings it back. A stale
  copy may still promote, as long as it lasts, and devices of one name share their marks.
* `PruneJustified`, `CreateJustified`: lists never outlive their pass.
* `StagedGetsHardware`, `OfflineIsPruned`, `StatusFollowsAnnotation`: convergence, for
  devices in the controller's namespace whose names are theirs alone and whose
  record can be read; the disagreements above show that these restrictions are needed. After a
  rename the object under the new name converges too, but the status only if
  nothing labelled is left under an old one (`NothingLeftBehind`): two objects that call for
  different statuses make the `HardwareReconciler` change its mind at every resync.
* `SerialCallsDoNotDuplicate`: without overlapping calls one group and one service
  per cluster, whatever failed; with no lost answer, distinct group_ids. Overlapping
  calls do duplicate, and a lost answer does reuse a group_id.
* `AttachedToOwnCluster`: even then each service, address and DNS name belongs to its
  cluster. `ReportedAddressKnown`: a cluster reported without error has its address on a group of its
  own, unless someone else recorded it before or a longer address was taken for it. That it
  always has it (`ReportedAddressAssigned`) is refuted by `v_address_prefix`.
* `ManagedClusterGetsService`: partial failures are completed later, unless the largest
  group_id is taken.
* `PassHasClient`: the check at the start of a pass protects the later reads.
  `ConfigSettles`, `PassesUseLatest`: a reload arrives, and no pass goes on mixing
  configurations. `EventsOutliveMissingConfig`: requeueing without client loses nothing.
* `UnitsAreSourced`: address, interface and VLAN of a unit belonged together at some moment of
  the command; nothing is carried over from the interface or device before. `SelectionRespected`:
  nor does a document exist for a device that was never selected. `AllFilesOrNone`: exit code
  0 means a file for every device, another one none, as long as no more devices are selected than are on
  a page; of devices of one name one file is left. `DocumentIsReference`: in quiet, the file of the last
  device of a name is what the record calls for, if its interfaces and addresses fit on a page too.
* `ExitZeroMeansDone`: each object a command listed was as wanted at some moment since.
  `PatchesAreNarrow`: a patch computed from a stale object touches its own field, or all
  interfaces, which `pxe-allow` may put back as it has read them. `ShownBelong`: a row passes the filter
  for a reason and names a cluster its object was in, though not always the same.
* `ShownWereMembers`: a row of `cluster show` has nothing from elsewhere. `AnnouncedAreShown`: no announced
  address is lost, nor called unassigned if NetBox knows it. `ShowIsReference`: in quiet, a row
  for every cluster asked for and all their members, as far as each list fits on a page.
* `NoDuplicates`, `RerunChangesNothing`, `SeedingSettles`: seeding is idempotent and repeatable
  at every point, unless an address stays where the plan does not have it.
  `CompleteIsUsable`: "Seed complete." is true: each planned record is there and refers to the
  planned ones, but for orphaned permissions and for addresses, of which it asks that the primary
  one is on an interface of its device.

### Fairness

Weak fairness for what a controller does next (a pass goes on and is followed by
another: `RequeueAfter`; a worker finishes its call; the watch delivers; the
resync comes), strong fairness for each key of a work queue, since the queue is
first in first out and a key that is requeued again and again still gets its
turn. For the seeding tools, weak fairness of the tool. That is an assumption on whoever runs it, to run it
again after a failure; the tools themselves neither retry nor ask for it. Nothing is assumed of operators, Tinkerbell, commands,
events and faults; the latter are bounded, as a controller that fails for ever converges to nothing.

## 4. Proofs

`HardwareLifecycle_proofs`, for every set of devices, keys, records and bounds
satisfying `FleetAssumption`:

* `TypeCorrectness`: `Spec => []TypeOK`.
* `MarksAreNotInvented`: `Spec => PromotionsAreFounded`, an action property. Per program it is shown
  that a step makes no mark and no call for `active` without one (`PromisesKept`), which needs
  that objects and calls are about devices of their name. `Evidence` is the invariant for that: every
  copy of an object, wherever it is kept, is `Genuine` (about devices that have gone by that key, and
  marked provisioned only if a machine was installed under it), every pending call is
  `Warranted`, and the entries of all lists are `Named`, under keys their devices have had. `names`
  only grows, so a rename takes no evidence away.
* `PrunesAreJustified`, `CreationsAreJustified`: from `PassOK`, which says that the lists
  of a pass hold only what `seen` has recorded since the pass began and that nothing
  is left of them between passes.
* `HardwareImplementsLifecycle`: `Spec => ImplementsLifecycle`. One lemma per program, by cases
  on its actions; `Evidence` supplies what `Decide` and `Install` ask for, since an
  abstract decision needs proof where a concrete one has an annotation in some copy.
  `ListingSeen` relates the two listings to `Now`, `ListsShrink` says that a list gives
  nothing but what it had.

`ConfigReload_proofs`, under `ConfigAssumption`:

* `ConfigTypeCorrectness`, with `BootstrapHasRead`, since a ConfigMap that was not
  read cannot be applied;
* `PassNeverReadsNil`: `Spec => []PassHasClient`, with `IdlePassIsEmpty`. The argument is
  that `update` never takes a client away and that a restart ends the pass.

`ClusterSync_proofs`, under `ClusterAssumption`. `WellFormed` is the type invariant with
what a call knows at each request (`CallOK`): its cluster, and an address of that cluster.

* `ClusterSyncTypes`: `Spec => []TypeOK`.
* `SerialCalls`: `Spec => []SerialCallsDoNotDuplicate`. `Serial` adds that, as long as no two
  calls have overlapped, what a lookup found missing is still missing when it is created, and
  that without a lost answer the next group_id of a call is beyond all in use. `NextGroupID`
  proves that of `getNextFHRPGroupID`, for any number of groups.
* `AttachedToOwn`: `[]AttachedToOwnCluster`, with any interleaving of the two callers.
  `Attachment` adds what a call relies on between two requests (`CallRelies`): its group is
  still there under the name of its cluster, an address it is about to name is on no group,
  a Tailscale address lies in a prefix unless a request failed. Two hypotheses on the data:
  `SearchKeepsNames` (an address that begins with the text of one that can be given a DNS name can
  be given one itself) and `TailscaleApart` (Cilium does not announce a cluster's Tailscale address).
* `ReportedIsKnown`: `[]ReportedAddressKnown`, from `Reports` (the Cilium address a call has left behind is
  `Accounted` for: on a group of the cluster, recorded elsewhere, or taken for a longer
  one). No hypothesis on addresses: any of them may be recorded before, shared between clusters
  or the beginning of another.

`HardwareFields_proofs`, under `HardwareFieldsAssumption`, for any number of commands and objects:

* `HardwareFieldsTypes`: `Spec => []TypeOK`, with `CmdOK`, which kind of command gets to which step.
* `ExitZero`: `[]ExitZeroMeansDone`. `Progress` adds that the objects a command is through
  with have been as it wants them, and so have those that were so when it read them, for
  which its patch is empty: the patch changes nothing, but nothing was left to do.
* `NarrowPatches`: `Spec => PatchesAreNarrow`, an action property, from what `MergeFrom` and
  `PatchOf` compute for any pair of objects.
* `ShownAreSifted`: `[]ShownBelong`. `Filtering` carries the reason an object passed the
  filter along to its row, past the second look-up of its cluster; `Naming` is about what that gave.

`Rendering_proofs`, under `RenderingAssumption`, for any inventories and any page size:

* `RenderingTypes`: `Spec => []TypeOK`; `Types` also says what there is at which step.
* `AddressesAreSourced`: `[]UnitsAreSourced`. `Sourcing` adds the same of the unfinished
  document, and that the interfaces and addresses still to be rendered were those of the
  current device and interface at some moment. `seen` only grows, so an edit takes no source away.
* `OptionsRespected`: `[]SelectionRespected`, from `Choosing`: devices still to be
  done were selected, with cluster ids that were resolved at some moment.
* `FilesAllOrNone`: `[]AllFilesOrNone`, from `Covering`: a device selected throughout, and never one of
  more than a page holds, is still to come, has a document, a file or a logged failure, or an
  error is pending. Without the condition on the page the code does not have the property.
* `DocumentsFollowRecords`: `[]DocumentIsReference`, if the interfaces of a device have
  different names (`IfacesApart`, as NetBox demands; `MCRendering` asserts it of the inventories
  of the run). `Following` relates the loops over devices, interfaces and addresses to the
  records when nothing fails and nothing is edited: documents and devices to come together are the devices
  on the page, in order (`Ahead`; `Behind` while files are written), and the units at hand are what
  the places rendered so far call for (`Rendered`), if the lists of the device fit on a page. The reference
  is therefore stated for any set of places, and one address more changes both sides alike: `UsedStep`
  and `ExpectedStep` for the reference, `PlacedRepeats` for the units, `AgreesPlaced` for the two
  together. Flatcar replaces its interface unit, so a clash of its path with that of a VLAN
  need not last: until the end only clashes that do are followed (`Repeats`, `Lasting`), and
  `SettledCompleted` decides on the others.
  `SameAgreement` carries all of it over steps that leave inventory and variant alone.

`ClusterReports_proofs`, under `ReportsAssumption`, for any number of clusters and pages:

* `ReportsTypes`: `Spec => []TypeOK`.
* `MembersAreShown`: `[]ShownWereMembers`, from `Membership`, the same of the unfinished row.
* `AddressesAreShown`: `[]AnnouncedAreShown`, from `Announcing` (a control plane is still to
  come or has its rows) and `Unassigned`.
* `ShowAgrees`: `[]ShowIsReference`, the loop against the records: `Reference` says that
  rows and clusters to come together are the clusters on the page, in order; `OnlyPlaces` and `UptoParts`
  relate the page to the clusters asked for.

`Seeding_proofs`, under `SeedingAssumption`, for any number of devices, networks, controllers
and permissions, edits, faults and runs:

* `SeedingTypes`: `Spec => []TypeOK`. `WellFormed` adds that ids are below the next one and
  that a run remembers something only of steps it has been through.
* `NothingTwice`: `[]NoDuplicates`. What keeps two runs from making one record twice is that a
  lookup goes by the same name as the creation after it. `Integrity` says so along the
  plan: each record is under the name of a planned step with the references of that step
  (`Planning`); what the run remembers of a step has its name or is gone (`Knowing`); what was
  looked up and is about to be created is not there (`Absence`). A deletion takes everything
  with it that refers to what is deleted, so references are never left hanging
  (`DeleteClosed`, by induction on the length of a chain). The order of the plan, in which what
  is referred to comes first, follows from `JoinedParts`.
* `CompleteMeansUsable`: `[]CompleteIsUsable`, from `Undisturbed`: if nothing was edited
  since the run began, each step it is through has its record, with everything it refers to; a
  permission that refers to no user is one of `orphaned`.
* `RerunIsIdle`: `Spec => RerunChangesNothing`, an action property, from `Settling`: after a
  complete run and without an edit each lookup of the next one finds what the last one left.

Each of these inductive invariants was checked with TLC on the instance of its run before
it was proved.

About the operators. The induction theorems of the library take an operator as a parameter,
which the provers cannot instantiate. `Lists_proofs` does without: `FiniteMaximum` and
`BoundedInduction` are about sets of numbers, from the well-foundedness of strict inclusion
on finite sets, and what a loop computes is proved with the set of the indices for which it is right
(`OnlyLoop`, `OnlyParts`, `OnlyPlaces`, `JoinedLoop`, `JoinedParts`). The filters are therefore `Only`, a recursive function, and not
`SelectSeq`, which the prover cannot expand. For the same reason `Merged` replaces `@@` in
`HardwareFields` and `Joined` puts the plan of `Seeding` together. The proof of `Rendering` showed that two guards of a CASE in `Placed` overlapped, so
that TLA+ leaves its value open (TLC takes the first); they now exclude each other.
That of `Seeding` showed that the lookup of a token had compared the references too, while the code
goes by the name of the user only (`ensureNetboxToken`); the model now does the same.

Only model-checked: everything temporal beyond `[]` (`StagedGetsHardware`, `OfflineIsPruned`,
`StatusFollowsAnnotation`, `ManagedClusterGetsService`, `ConfigSettles`, `PassesUseLatest`,
`EventsOutliveMissingConfig`, `SeedingSettles`), because the prover handles neither
fairness nor `ENABLED`. Each invariant and each action property of a passing run has its theorem.

## 5. Abstractions and limits

* A cache entry jumps to the current version of its object; intermediate versions
  are skipped, as a watch may do anyway.
* Requests made during an extraction for a `Hardware` object are not separate steps: one that
  fails drops the device from that list and counts as a fault. (They are in `Rendering`.)
* Steps that bundle requests: the lookups of prefix, gateways and name servers for one address
  (`RenderAddress`; `flatcar.go:144`, 195, 200), which differ at most in whether a gateway was found; the read
  and the patch of an existing object by `hardware sync` (`SyncReconcile`; `hardware.go:319`, 338): the answer to the
  patch replaces what was read, and an object deleted in between fails the one or the other;
  the address of a control plane and the domain of its prefix (`ReadLb`), which nothing in the model changes; the StatefulSet list and the Secret of a
  Tailscale device (`Exposure`; `tailscale.go:78`, 99), read and written by no one else here.
* Labels are one value that is replaced. The code adds and updates keys and removes none
  (`hardware.go:331-336`), which comes to the same for the keys it writes itself.
* The clusters of `resolveClusterIDs` and of `SyncStatus` are taken to fit on a page.
* Cases left out: a seeded device without network (`seed-netbox/main.go:148-150`; each of
  `devicesToSeed` has one); annotations of a control plane that are not a map of strings, which are
  logged and passed over (`ipaddr.go:88-89`); no cluster of either type in NetBox, which ends
  `SyncStatus` with an empty report (`sync_status.go:65-68`).
* A command fails like a controller does, but is not restarted.
* NetBox clusters exist for all clusters of an instance; ports are left out.
* Documents are their network units: wording of unit files, `dcim.yaml`, node labels,
  gateways other than whether they were looked up, users and keys are left out.
* NetBox's answers in `Rendering` and `ClusterReports` come from a fixed set of contents, and an
  edit replaces one by another.
* Metrics, events, logging and output formats are left out.

### Not modelled

* OpenTelemetry (`otel.go`): set up once at start, no influence on any state above.
* Charts, manifests, templates, taskfile: data without behaviour of its own.
* Disks, metadata and instance data of a `Hardware` spec, which no program reads again.
* The choice of a kubeconfig, environment variables as defaults of flags, log levels: read
  once, before anything that can interleave.

## 6. Plan

Done: all modules of section 2, and the theorems of section 4. Left: an abstract specification
of `ClusterSync`, with one group, address and service per cluster.
