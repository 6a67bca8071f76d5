CONSTANTS
    c1 = c1
    c2 = c2
    a1 = a1
    a2 = a2
    t1 = t1
    NoAddr = NoAddr
    NoCluster = NoCluster
    Clusters = {c1, c2}
    Place <- ByName
    Managed = {c1}
    Headed = {c2}
    Addrs = {a1, t1}
    LbAddrs <- OwnAddresses
    TailscaleAddr <- FirstOnTailscale
    Search <- PrefixSearch
    Named = {a1, t1}
    ManualGids = {4}
    HandAddrs = {a1, t1}
    MaxGid = 4
    MaxRuns = 1
    MaxEvents = 1
    MaxFaults = 1
SPECIFICATION FairSpec
CHECK_DEADLOCK FALSE
INVARIANTS TypeOK SerialCallsDoNotDuplicate AttachedToOwnCluster ReportedAddressKnown
PROPERTIES ManagedClusterGetsService
