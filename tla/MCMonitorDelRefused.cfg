SPECIFICATION Spec
CONSTANTS
    Devices = {floppy0}
    Fixed = {}
    Empties = {floppy0}
    Tells = {floppy0}
    Late = {}
    Names = {node1, node2}
    Slots = {1, 2}
    Files = {file1, file2}
    NoFile = NoFile
    NoDevice = NoDevice
    NoSlot = 0
INVARIANT RefusedNodeIsInDrive
