CONSTANTS
    None = None
    MaxInt = 127
    MaxOffset = 15
    DefaultLimit = 2
    MaxLimit = 4
    Day = 2
    Users <- ActorIds
    Like <- ActorNames
    FirstRows <- Table
    NewRows <- Inserted
    Searches <- HugePages
    MaxWrites = 0
    MaxCalls = 1
SPECIFICATION Spec
CHECK_DEADLOCK FALSE
INVARIANT OffsetSaturates
