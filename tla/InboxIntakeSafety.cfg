CONSTANTS
    Messages = {1, 2}
    Events = {1}
    Subscribers = {s1, s2}
    EventOf <- OneEvent
    MaxBatch = 2
    MAX_READS = 3
    MaxFailures = 3
SPECIFICATION IntakeFairSpec
INVARIANTS DeletedWasStored StoredOnce
PROPERTY EveryMessageSettles
CHECK_DEADLOCK FALSE
