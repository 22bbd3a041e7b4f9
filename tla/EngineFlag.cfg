SPECIFICATION Spec
CONSTANTS
    Procs = {d}
    Attached = FALSE
    MaxEntries = 1
PROPERTY NoEntryWhileFlagged
