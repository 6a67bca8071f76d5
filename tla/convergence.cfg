CONSTANTS
    d1 = d1
    d2 = d2
    k1 = k1
    k2 = k2
    ns1 = ns1
    ns2 = ns2
    NoHw = NoHw
    NoLabel = NoLabel
    NoDevice = NoDevice
    NoCall = NoCall
    Devices = {d1}
    Keys = {k1, k2}
    KeyOf <- Renaming
    Rank <- ListOrder
    PageSize = 2
    Namespaces = {ns1, ns2}
    NsOf <- OneNamespace
    ControllerNamespace = ns1
    Invs = {"a", "b", "bare", "renamed"}
    IncompleteInvs = {"bare"}
    NilInvs = {}
    InitialStatuses = {"offline", "staged"}
    OperatorStatuses = {"offline", "staged"}
    MaxOps = 1
    MaxFaults = 1
    MaxSyncs = 0
    MaxSyncStatuses = 0
SPECIFICATION FairSpec
CHECK_DEADLOCK FALSE
PROPERTIES ImplementsLifecycle StagedGetsHardware OfflineIsPruned StatusFollowsAnnotation
