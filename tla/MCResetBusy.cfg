SPECIFICATION Spec
CONSTANTS
    Lengths = {2}
    PoolFree = 8
    Hle = TRUE
    MaxPending = 1
INVARIANT
    ResetFinishesTransfers
