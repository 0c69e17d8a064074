SPECIFICATION FairSpec

CONSTANTS
    SlotCount = 2
    Requests <- AllRequests
    Initial <- EarlierFiles
    Environments <- BothWays

INVARIANTS SlotLoadSucceeds LoadGetsNewest ShutdownKeepsSaves
PROPERTIES SavesInOrder KeyRequestsAnswered

\* The front-end makes a bounded number of requests.
CHECK_DEADLOCK FALSE
