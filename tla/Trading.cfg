SPECIFICATION FairSpec
CONSTANTS
    Symbols = {s1, s2}
    MaxOpen = 1
    MaxPerDay = 1
    MinHold = 1
    MaxHold = 2
    Buffer = 0
    Capital = 1
    Signal = "closed"
    MaxExtra = 1
    MaxFaults = 1
    MaxRows = 2
INVARIANTS
    TypeOK
    EntriesPerDay
    PositionsAreWatched
PROPERTIES
    MinimumHold
    OnlySettledCashIsSpent
    NonCompliantLeaves
