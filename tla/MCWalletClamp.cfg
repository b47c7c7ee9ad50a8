SPECIFICATION Spec
CONSTANTS
    a = a
    b = b
    c = c
    x = x
    y = y
    Transparent <- NoAccount
    Shielded <- OneAccount
    Addresses <- OneAddress
    Receives <- ReorgReceives
    SpentNote <- ReorgSpentNote
    RewindHeights <- NoRewind
    CheckpointAge = 5
    ChunkSize = 5
    MaxHeight = 4
    MaxBranch = 1
INVARIANT ShieldedComplete
