CONSTANTS
    d1 = d1
    d2 = d2
    k1 = k1
    k2 = k2
    ns1 = ns1
    ns2 = ns2
    NoHw = NoHw
    NoLabel = NoLabel
    NoDevice = NoDevice
    NoCall = NoCall
    Devices = {d1, d2}
    Keys = {k1, k2}
    KeyOf <- PartlyShared
    Rank <- ListOrder
    PageSize = 1
    Namespaces = {ns1, ns2}
    NsOf <- TwoNamespaces
    ControllerNamespace = ns1
    Invs = {"a", "own"}
    IncompleteInvs = {}
    NilInvs = {}
    InitialStatuses = {"offline", "staged"}
    OperatorStatuses = {"offline", "staged", "active"}
    MaxOps = 1
    MaxFaults = 1
    MaxSyncs = 0
    MaxSyncStatuses = 0
SPECIFICATION Spec
CHECK_DEADLOCK FALSE
INVARIANT TypeOK
PROPERTIES PromotionsAreFounded PruneJustified CreateJustified
