SPECIFICATION FairSpec
CONSTANTS
    MaxQueue = 2
    MaxAttempts = 2
    Priorities = {0, 1}
    MaxMessages = 4
INVARIANTS
    EveryMessageInOnePlace
    Bounded
    ServedInOrder
PROPERTIES
    KeepsThePromise
    EveryMessageSettles
CHECK_DEADLOCK FALSE
