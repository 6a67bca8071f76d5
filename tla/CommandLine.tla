---------------------------- MODULE CommandLine ----------------------------
(***************************************************************************)
(* What the commands do before they do anything: the options every command *)
(* shares (processRootArgs, getNamespace), and the selection of devices    *)
(* from them (GetDevices, resolveClusterIDs).                              *)
(*                                                                         *)
(* An option that takes a list is the sequence of its parts, as            *)
(* strings.Split leaves it: an option that is not given is <<Blank>>, and  *)
(* ",paris" is <<Blank, "paris">>.                                         *)
(***************************************************************************)
EXTENDS Lists

CONSTANTS
    Blank,     \* the empty string
    BadRack    \* a rack identifier that is not a number

\* The filters on text that GetDevices passes on as they are.  --namespaces
\* is not one of them, although the help calls it an alias of --tenants.
TextFilters == {"regions", "sites", "locations", "tenants", "roles"}

\* An option was given.
Given(s) == s # <<Blank>>

\* Rack identifiers: blank parts are skipped, a part that is not a number is
\* an error.
RackIDs(s) == Only(s, Parts(s) \ {Blank, BadRack})

\* processRootArgs: endpoint, token and (for those that need them) output
\* directory and device filters.  All problems are reported before it exits.
ProcessRootArgs(a, needOutput, needFilters) ==
    /\ a.endpoint
    /\ a.tokenLength = 40
    /\ needOutput => a.output
    /\ needFilters => Given(a.sites) /\ Given(a.roles)
    /\ BadRack \notin Parts(a.racks)

\* getNamespace: the first part of --tenants, or of --namespaces.
GetNamespace(a) == IF Given(a.tenants) THEN a.tenants[1] ELSE a.namespaces[1]

-----------------------------------------------------------------------------
(* GetDevices.  A device of an inventory is a record with its attributes.  *)

\* Mutant: the filter on racks is left out of the request.
Wanted_AnyRack(a, f) == f # "racks" /\ Len(a[f]) > 0 /\ a[f][1] # Blank

\* A filter takes part in the request when its list is not empty and does
\* not begin with a blank (a zero, for racks).
Wanted(a, f) ==
    IF f = "racks" THEN RackIDs(a.racks) # <<>> /\ RackIDs(a.racks)[1] # 0
    ELSE Len(a[f]) > 0 /\ a[f][1] # Blank

\* The devices NetBox answers with: they have a primary address, one of the
\* statuses, and match every filter that took part; "ids" are the clusters
\* resolved beforehand.
Matches(dev, a, statuses, ids) ==
    /\ dev.primary
    /\ dev.status \in statuses
    /\ \A f \in TextFilters \cup {"racks"} : Wanted(a, f) => dev[f] \in Parts(a[f])
    /\ Wanted(a, "clusters") => dev.cluster \in ids

\* resolveClusterIDs: the clusters that have one of the names.
ResolveClusterIDs(names, a) == {i \in DOMAIN names : names[i] \in Parts(a.clusters)}
=============================================================================
