SPECIFICATION FairSpec
CONSTANTS
    Lengths = {0, 2}
    PoolFree = 8
    Hle = TRUE
    MaxPending = 2
INVARIANTS
    RcpInv
    CompletionPending
    ReadNotForgotten
    SpTransfersOnce
    SamplesPlayedOnce
PROPERTY
    DmaCompletes

