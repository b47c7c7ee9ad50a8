SPECIFICATION Spec
CONSTANTS
    p1 = p1
    p2 = p2
    NoMessage = NoMessage
    Participants <- TwoParticipants
    VersionMaps <- AnyBuilds
    Cancellers = {p1}
    MaxPackages = 4
    MaxFaults = 3
INVARIANTS
    TypeOK
    IntentBeforePublish
    KeyAgreement
    NoSplitKey
    FundsWaitIsShortFunds
PROPERTIES
    Completes
CHECK_DEADLOCK FALSE
