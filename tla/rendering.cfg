CONSTANTS
    Blank = Blank
    BadRack = BadRack
    NoName = NoName
    NoAddr = NoAddr
    NoIface = NoIface
    NoFile = NoFile
    NoDoc = NoDoc
    Dhcp = Dhcp
    Names = {"n1", "n2", "n3"}
    SubName <- MCSubName
    PageSize = 2
    Inventories <- MCInventories
    Scenarios <- MCScenarios
    EditedNb <- Edited
    MaxEdits = 1
    MaxFaults = 1
SPECIFICATION Spec
CHECK_DEADLOCK FALSE
INVARIANTS TypeOK UnitsAreSourced SelectionRespected AllFilesOrNone DocumentIsReference
