SPECIFICATION Spec
CONSTANTS
    RseCapacity = 4
    RseStacked = 2
    RseGroup = 3
    RseRecords = 1
    RseTraps = 2
    RseSteps = 8
    RseDepth = 3
    RseKernel = 55
    Vectors = {2, 33, 49}
    TimerVector = 50
    StepLevels = 2
    MmuPages = {p1}
    MmuFrames = {p1, p2}
    MmuRids = {1, 2}
    NTr = 1
    NTc = 2
    SpecStatics = {1}
    SpecAccesses <- MCAccesses
    NAlat = 1
    Ia32Words = 4
    Z80Program = 4
    Z80Block = 3
    Z80Depth = 3
    X86Program = 4
    X86Count = 2
    X86Depth = 3
    VdcLines = 7
    VdcIntLine = 2
    VdcFirstLine = 4
    VdcLastLine = 5
INVARIANTS
    SpilledCurrent
    EoiEndsLastTaken
    TranslationsCurrent
    SpeculationIsSound
    InterruptsOnTime
    ProgramsUnaware
    DisplayInStep
PROPERTIES
    RfiReturns
    RestartsPrecisely
CHECK_DEADLOCK FALSE
