SPECIFICATION Spec
CONSTANTS
    u1 = u1
    NoUser = NoUser
    User <- OneUser
    MaxId = 3
    MaxLimit = 1
    Grace = 2
    Retry = 1
    MaxLag = 1
    MaxLinger = 1
    KeepNewest = FALSE
    ReadFaults = TRUE
    TerminateFaults = TRUE
    DbFaults = FALSE
    DaemonRestarts = TRUE
    KillPoints = {}
INVARIANTS GraceHonoured NoRepeatedCommand
