SPECIFICATION FairSpec
CONSTANTS
    Procs = {d, o}
    Attached = TRUE
    MaxEntries = 1
INVARIANTS
    TypeOK
    RunningIsNotHeldBack
PROPERTIES
    NoEntryWhileStopped
    KilledStops
