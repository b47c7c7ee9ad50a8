SPECIFICATION Spec
CONSTANTS
    a = a
    b = b
    c = c
    x = x
    y = y
    Transparent <- TwoTransparent
    Shielded <- TwoAccounts
    Addresses <- OneAddress
    Receives <- MCReceives
    SpentNote <- MCSpentNote
    RewindHeights <- AllRewinds
    CheckpointAge = 1
    ChunkSize = 2
    MaxHeight = 4
    MaxBranch = 0
INVARIANTS
    TypeOK
    ShieldedComplete
    WitnessAvailable
    CoverComplete
    NoClash
