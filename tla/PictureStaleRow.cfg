CONSTANTS
    Null = Null
    Procs = {p1, p2}
    MaxImages = 1
    MaxUpdates = 2
SPECIFICATION ProfileSpec
CHECK_DEADLOCK FALSE
PROPERTIES OnlyPasswordChanges
