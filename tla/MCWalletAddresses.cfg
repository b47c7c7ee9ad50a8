SPECIFICATION Spec
CONSTANTS
    a = a
    b = b
    c = c
    x = x
    y = y
    Transparent <- OneAccount
    Shielded <- NoAccount
    Addresses <- TwoAddresses
    Receives <- NoReceives
    SpentNote <- NoSpentNote
    RewindHeights <- NoRewind
    CheckpointAge = 5
    ChunkSize = 5
    MaxHeight = 4
    MaxBranch = 0
INVARIANT CoverComplete
