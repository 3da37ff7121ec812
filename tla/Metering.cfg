SPECIFICATION Spec
CONSTANTS
    u1 = u1
    u2 = u2
    NoCaller = NoCaller
    User <- OneUser
    Transport <- OneTransport
    MaxEpoch = 2
    MaxBytes = 2
    MaxCalls = 2
    HelperFaults = TRUE
    PanelRestarts = TRUE
INVARIANTS TypeOK NeverRegressed ResetForgives
PROPERTIES DrainedBeforeRestart ImplementsLedger
