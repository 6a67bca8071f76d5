CONSTANTS
    Blank = Blank
    BadRack = BadRack
    NoRecord = NoRecord
    NoDevice = NoDevice
    Worlds <- MCWorlds
    Scenarios <- MCScenarios
    EditedTo <- Edited
    Search <- MCSearch
    PageSize = 2
    MaxEdits = 1
    MaxFaults = 1
SPECIFICATION Spec
CHECK_DEADLOCK FALSE
INVARIANTS TypeOK ShownWereMembers AnnouncedAreShown ShowIsReference
