SPECIFICATION BusSpec
CONSTANTS
    ApuChannels = {1}
    ApuLength = 2
    ApuSteps <- ShortSteps
    DmcHalf = 3
    DmcBits = 2
    DmcBytes = 2
    OamBytes = 2
PROPERTY RunsExactly
CHECK_DEADLOCK FALSE
