SPECIFICATION FairSpec
CONSTANTS
    a = a
    b = b
    c = c
    x = x
    y = y
    Transparent <- OneAccount
    Shielded <- OneAccount
    Addresses <- OneAddress
    Receives <- ReorgReceives
    SpentNote <- ReorgSpentNote
    RewindHeights <- NoRewind
    CheckpointAge = 6
    ChunkSize = 3
    MaxHeight = 6
    MaxBranch = 1
INVARIANTS ShieldedComplete WitnessAvailable NoClash
PROPERTY CatchesUp
