SPECIFICATION EndlessSpec
CONSTANTS
    u1 = u1
    NoUser = NoUser
    User <- OneUser
    MaxId = 3
    MaxLimit = 1
    Grace = 1
    Retry = 1
    MaxLag = 0
    MaxLinger = 1
    KeepNewest = TRUE
    ReadFaults = TRUE
    TerminateFaults = TRUE
    DbFaults = FALSE
    DaemonRestarts = FALSE
    KillPoints = {}
PROPERTY Converges
