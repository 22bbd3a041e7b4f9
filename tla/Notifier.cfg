SPECIFICATION FairSpec
CONSTANTS
    Allowed = {u}
    Strangers = {s}
    MaxRows = 2
    MaxMessages = 2
    MaxRestarts = 1
INVARIANTS
    ChatIsHonest
PROPERTIES
    KnownMessageIsClosed
    ParkedIsDecided
CHECK_DEADLOCK FALSE
