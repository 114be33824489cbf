SPECIFICATION HostSpec
CONSTANTS
    QueueSize = 2
    MaxSeq = 3
    Backends = {"telnet", "gmp", "none"}
    ReaderCmds = {"QUIT"}
    OwnCmds = {"QUIT"}
    Slow = FALSE
    Posix = {TRUE}
    NoShutdown = {TRUE, FALSE}
    LoopAddr = {0, 1}
    FrameLen = 2
    MaxCount = 2
    TermLines = 3
    TermCols = 2
    TabStop = 2
    KeyRing = 8
    Strings <- TermStrings
    TermInputs = 2
INVARIANTS
    MonitorSeesBus
    TerminalSound
PROPERTIES
    ThreadsEnd
    RunsAsAsked
