CONSTANTS
    None = None
    MaxInt = 127
    MaxOffset = 15
    DefaultLimit = 2
    MaxLimit = 3
    Day = 2
    Users <- ActorIds
    Like <- ActorNames
    FirstRows <- Table
    NewRows <- Inserted
    Searches <- AllSearches
    MaxWrites = 1
    MaxCalls = 1
SPECIFICATION Spec
CHECK_DEADLOCK FALSE
INVARIANT ShowingXofY
