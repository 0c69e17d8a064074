SPECIFICATION FairSpec

CONSTANTS
    SlotCount = 2
    Requests <- SlotRequests
    Initial <- NoFiles
    Environments <- FullDisk

PROPERTIES RequestsAnswered

\* The front-end makes a bounded number of requests.
CHECK_DEADLOCK FALSE
