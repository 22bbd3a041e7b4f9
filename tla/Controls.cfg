SPECIFICATION ControlsSpec
CONSTANTS
    Users = {u, v}
    Sessions = {d1, d2}
    Symbols = {a, b}
    Timeout = 1
    MaxQuestions = 2
    MaxTicks = 3
    MaxEdits = 2
PROPERTIES
    ExecutesTheNewestQuestionOnce
    OnlyConcurrentRulesAreLost
CHECK_DEADLOCK FALSE
