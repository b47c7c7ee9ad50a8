SPECIFICATION Spec
CONSTANTS
    user = user
    loop = loop
    Senders <- Both
    Migrator = loop
    Requests <- Payments
    Fundings <- Wallets
    ReducedFrom = 2
    ExpiryDelta = 2
    Bucket = 2
    MaxSplitInputs = 50
    MaxHeight = 2
    MaxSent = 3
    MaxDeeds = 1
INVARIANTS
    TypeOK
    HopIsStandard
    OncePerBlock
    TaskIsPayable
PROPERTY RecordedNotReplanned
CHECK_DEADLOCK FALSE
