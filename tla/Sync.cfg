SPECIFICATION Spec
CONSTANTS
    u1 = u1
    u2 = u2
    User <- OneUser
    Stopped = Stopped
    NoFile = NoFile
    Causes <- AllCauses
    MaxQueue = 1
    HelperFaults = TRUE
    WarpFaults = TRUE
    WorkerFaults = TRUE
    CoreCrashes = TRUE
    KillPoints <- HarmlessKills
INVARIANTS TypeOK CopyIsApplied QuietMeansSynced
