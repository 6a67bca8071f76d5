CONSTANTS
    Devices <- MCDevices
    Networks <- MCNetworks
    Controllers <- MCControllers
    NoAddr = NoAddr
    Placeholder = Placeholder
    MaxEdits = 2
    MaxFaults = 1
    MaxRuns = 1
SPECIFICATION FairSpec
CHECK_DEADLOCK FALSE
INVARIANTS TypeOK NoDuplicates CompleteIsUsable
PROPERTIES RerunChangesNothing SeedingSettles
