SPECIFICATION TablesSpec
CONSTANTS
    Devices = {floppy0, cartridge, hd0}
    Fixed = {hd0}
    Empties = {floppy0}
    Tells = {floppy0, hd0}
    Late = {}
    node1 = node1
    node2 = node2
    file1 = file1
    file2 = file2
    image1 = image1
    image2 = image2
    Names = {node1, node2}
    Slots = {1, 2}
    Files = {file1, file2}
    NoFile = NoFile
    NoDevice = NoDevice
    NoSlot = 0
    Size = 3
    ChunkSize = 2
    Images = {image1, image2}
    NoImage = NoImage
    Values = {0, 1}
    Zero = 0
    Unknown = Unknown
    Faults = {"file", "memory"}
    Interfaces = {"floppy", "ide"}
    MaxDevs <- MCMaxDevs
    MaxDrives = 3
    Buses = {1}
    Units = {0, 1}
    Indexes = {2}
    Ids <- MCIds
    Spelling <- MCSpelling
    NoId = NoId
    Machines <- MCMachines
    Wants = {0, 2}
    NoDefault = NoDefault
    Addr = {0, 1, 2}
    Key <- EvenOdd
    Vector = 0
    BP_MAX = 2
    MaxId = 3
SYMMETRY Symmetry
INVARIANTS
    NodeLinked
    ReadBack
    DrivesPlaced
PROPERTIES
    StopsOncePerVisit
