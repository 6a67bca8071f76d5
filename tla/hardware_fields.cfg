CONSTANTS
    Blank = Blank
    BadRack = BadRack
    Nil = Nil
    NoObject = NoObject
    NoMachine = NoMachine
    Keys <- MCKeys
    Procs = {p1, p2}
    Commands <- MCCommands
    Owners = {"o1"}
    Clusters = {"k1", "k2"}
    Macs = {"m1", "m2"}
    MaxChanges = 2
    MaxFaults = 1
SPECIFICATION Spec
CHECK_DEADLOCK FALSE
INVARIANTS TypeOK ExitZeroMeansDone ShownBelong
PROPERTY PatchesAreNarrow
