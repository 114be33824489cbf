SPECIFICATION Spec
CONSTANTS
    Lines = {0, 1, 4, 5, 6}
    Cyls = 2
    Heads = 2
    SPT = 2
    MaxSectors = 3
    InitCyls = {1}
    InitHeads = {1, 3}
    Keys = {30, 42}
    Modifiers = {42}
    KBQ = 3
INVARIANTS
    LinesDriven
    InterruptsInOrder
    HdcTransfersAll
    KeysArrive
PROPERTY FdcFreshEdge
