CONSTANTS
    c1 = c1
    c2 = c2
    a1 = a1
    a2 = a2
    t1 = t1
    NoAddr = NoAddr
    NoCluster = NoCluster
    Clusters = {c1, c2}
    Place <- ByName
    Managed = {c1, c2}
    Headed = {}
    Addrs = {a1, a2}
    LbAddrs <- OwnAddresses
    TailscaleAddr <- NoneOnTailscale
    Search <- PrefixSearch
    Named = {a1}
    ManualGids = {}
    HandAddrs = {}
    MaxGid = 4
    MaxRuns = 1
    MaxEvents = 1
    MaxFaults = 0
SPECIFICATION Spec
CHECK_DEADLOCK FALSE
INVARIANTS ReportedAddressAssigned
