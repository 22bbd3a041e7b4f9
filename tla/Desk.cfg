SPECIFICATION Spec
CONSTANTS
    a = a
    b = b
    c = c
    Symbols = {a, b, c}
    Varied = {a}
    Whitelists = {{}, {a}}
    Blacklists = {{}, {a}}
    Fallbacks = {"none", "internal_aaoifi", "mock_external"}
    Interval = 1
    MaxOpen = 2
    MaxPerDay = 1
    MaxPerWeek = 2
    MaxDays = 2
    MaxReloads = 1
    MaxLost = 1
SYMMETRY Interchangeable
INVARIANTS
    TypeOK
    OpenPositionsBounded
PROPERTIES
    BoughtOnFreshCertification
CHECK_DEADLOCK FALSE
