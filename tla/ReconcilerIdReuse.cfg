SPECIFICATION FairSpec
CONSTANTS
    u1 = u1
    NoUser = NoUser
    User <- OneUser
    MaxId = 2
    MaxLimit = 1
    Grace = 0
    Retry = 1
    MaxLag = 0
    MaxLinger = 0
    KeepNewest = TRUE
    ReadFaults = FALSE
    TerminateFaults = FALSE
    DbFaults = FALSE
    DaemonRestarts = TRUE
    KillPoints = {}
PROPERTY Converges
