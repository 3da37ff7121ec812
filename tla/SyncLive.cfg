SPECIFICATION FairSpec
CONSTANTS
    u1 = u1
    u2 = u2
    User <- OneUser
    Stopped = Stopped
    NoFile = NoFile
    Causes <- QuotaOnly
    MaxQueue = 1
    HelperFaults = TRUE
    WarpFaults = FALSE
    WorkerFaults = FALSE
    CoreCrashes = TRUE
    KillPoints <- NoKills
PROPERTIES CutOff KeptServed
