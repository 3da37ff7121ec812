SPECIFICATION Spec
CONSTANTS
    u1 = u1
    NoUser = NoUser
    User <- OneUser
    MaxId = 3
    MaxLimit = 2
    Grace = 1
    Retry = 1
    MaxLag = 1
    MaxLinger = 1
    KeepNewest = TRUE
    ReadFaults = TRUE
    TerminateFaults = FALSE
    DbFaults = TRUE
    DaemonRestarts = FALSE
    KillPoints = {"idle", "users", "cut", "reconcile", "enforce"}
INVARIANTS TypeOK OldOffender
PROPERTY KeepsAllowance
