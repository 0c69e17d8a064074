SPECIFICATION Spec

CONSTANTS
    SlotCount = 2
    Requests <- NativeRequests
    Initial <- NoFiles
    Environments <- Thread

INVARIANTS NamedSaveGoesThere

\* The front-end makes a bounded number of requests.
CHECK_DEADLOCK FALSE
