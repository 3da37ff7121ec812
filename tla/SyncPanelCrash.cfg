SPECIFICATION Spec
CONSTANTS
    u1 = u1
    u2 = u2
    User <- OneUser
    Stopped = Stopped
    NoFile = NoFile
    Causes <- AllCauses
    MaxQueue = 1
    HelperFaults = FALSE
    WarpFaults = FALSE
    WorkerFaults = FALSE
    CoreCrashes = FALSE
    KillPoints <- AllKills
INVARIANT IneligibleRefused
