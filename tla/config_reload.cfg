CONSTANTS
    s1 = s1
    s2 = s2
    t1 = t1
    t2 = t2
    Missing = Missing
    NoClient = NoClient
    Unread = Unread
    Settings = {s1, s2}
    DefaultSettings = s1
    Tokens = {t1, t2}
    MaxEdits = 2
    MaxCrashes = 1
SPECIFICATION FairSpec
CHECK_DEADLOCK FALSE
INVARIANTS TypeOK PassHasClient
PROPERTIES ConfigSettles PassesUseLatest EventsOutliveMissingConfig
