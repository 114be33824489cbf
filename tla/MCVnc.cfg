SPECIFICATION MCSpec
CONSTANTS
    Tiles = {t1, t2}
    Colours = {0, 1}
    Sizes = {small, large}
    NoSize = NoSize
    NoPicture = NoPicture
    MaxFrames = 3
    Clients = {c1, c2}
    MaxClients = 2
    Keys = {k1}
    QueueSize = 2
    Exclusive = TRUE
    PasswordRequired = TRUE
INVARIANTS
    ShowsCurrentFrame
    NoUseAfterFree
    NothingSticks
PROPERTIES
    RequestServed
    SessionsEnd
