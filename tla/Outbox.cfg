SPECIFICATION FairSpec
CONSTANTS
    Workers = {w1, w2}
    MaxRow = 2
    BatchLimit = 2
    TripAfter = 1
    MaxRequests = 2
    MaxFaults = 3
INVARIANTS
    TypeOK
    FirstCopiesInOrder
    DuplicatesExplained
PROPERTIES
    ImplementsRelay
    EventuallyPublished
CHECK_DEADLOCK FALSE
