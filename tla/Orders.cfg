SPECIFICATION FairSpec
CONSTANTS
    Procs = {d, o}
    Daemon = d
    Keys = {k1}
    MaxFaults = 3
INVARIANTS
    TypeOK
    AtMostOneSubmission
    TruthfulTerminal
PROPERTIES
    KeepsThePromise
    KnownOrdersCatchUp
