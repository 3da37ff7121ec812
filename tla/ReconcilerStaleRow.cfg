SPECIFICATION Spec
CONSTANTS
    u1 = u1
    NoUser = NoUser
    User <- OneUser
    MaxId = 4
    MaxLimit = 1
    Grace = 2
    Retry = 1
    MaxLag = 0
    MaxLinger = 0
    KeepNewest = TRUE
    ReadFaults = FALSE
    TerminateFaults = FALSE
    DbFaults = FALSE
    DaemonRestarts = FALSE
    KillPoints = {"idle"}
INVARIANT GraceHonoured
