CONSTANTS
    d1 = d1
    d2 = d2
    k1 = k1
    k2 = k2
    ns1 = ns1
    ns2 = ns2
    NoHw = NoHw
    NoLabel = NoLabel
    NoDevice = NoDevice
    NoCall = NoCall
    Devices = {d1}
    Keys = {k1}
    KeyOf <- SharedName
    Rank <- ListOrder
    PageSize = 2
    Namespaces = {ns1, ns2}
    NsOf <- OneNamespace
    ControllerNamespace = ns1
    Invs = {"a", "noplatform"}
    IncompleteInvs = {}
    NilInvs = {"noplatform"}
    InitialStatuses = {"offline", "staged"}
    OperatorStatuses = {"offline", "staged"}
    MaxOps = 1
    MaxFaults = 1
    MaxSyncs = 1
    MaxSyncStatuses = 1
SPECIFICATION Spec
CHECK_DEADLOCK FALSE
PROPERTY ImplementsLifecycle
