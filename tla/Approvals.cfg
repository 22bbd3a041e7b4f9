SPECIFICATION FairSpec
CONSTANTS
    Procs = {daemon, once}
    Daemon = daemon
    Keys = {k1}
    Sizes = {1}
    Timeout = 1
    SnoozeTime = 1
    MaxSnoozes = 1
    MaxRows = 3
    MaxTime = 3
INVARIANTS
    TypeOK
    DecidedInTime
    TwoRoundsOnlyByRace
PROPERTIES
    DecidedRowIsFrozen
    ImplementsPromise
    EventuallyDecided
CHECK_DEADLOCK FALSE
