SPECIFICATION Spec
CONSTANTS
    QueueSize = 3
    MaxSeq = 3
    Backends = {"stdio", "telnet", "gmp", "gmp-stdio", "none"}
    ReaderCmds = {"STOP", "QUIT"}
    OwnCmds = {"QUIT"}
    Slow = TRUE
    Posix = {TRUE, FALSE}
    NoShutdown = {FALSE}
INVARIANTS
    QueueConsistent
    CommandsObeyed
    ReaderOutlived
