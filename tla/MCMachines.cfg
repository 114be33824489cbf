SPECIFICATION Spec
CONSTANTS
    KbSize = 2
    AuxSize = 3
    Motion = 1
    AtapiLens = {0, 1, 3, 5}
    AtapiLimits = {0, 2, 3}
    PacketWords = 2
    HdSectors = 2
    FlashBits = {1, 2}
    FlashBlocks = {0, 1}
    Factory = 1
    RomImage <- MCRom
    FlashChipOf <- MCChipOf
    OldTimeout = {}
    NewTimeout = {2}
    NPrg = 16
    NChr = 16
    BoardVals = {0, 1, 23, 198}
    IrqHalf = 2
    IrqDots = 7
    IrqLines = 3
    ApuChannels = {1}
    ApuLength = 2
    ApuSteps <- ShortSteps
    DmcHalf = 3
    DmcBits = 2
    DmcBytes = 2
    OamBytes = 2
    Columns = 2
    Rows = 1
    RowMax = 2
    Fine = 2
    ShownRows = 2
    BlankLines = 1
    Sprites = 3
    PerLine = 1
    SearchSteps = 6
    ShownLines = 2
    Heights <- MCHeights
    Disks = {"a", "b", "c"}
    SidesOf <- MCSides
    NameOf <- MCNames
    NoDisk = NoDisk
    PerByte = 2
    ChangeTime = 2
INVARIANTS
    SourceKept
    RequestedDataIsThere
    SavedOrKnown
    BoardMapsRom
    CountersKeepTime
    DmaDelivers
    PictureKeepsTime
    SpritesPicked
    DiskRemembers
PROPERTY RunsAlong
CHECK_DEADLOCK FALSE
