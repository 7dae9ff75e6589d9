CONSTANTS
    Null = Null
    Procs = {p1, p2}
    MaxImages = 3
    MaxUpdates = 2
SPECIFICATION ProfileFairSpec
CHECK_DEADLOCK FALSE
INVARIANTS PictureExists ObjectsAccountedFor TrailTellsProfile
PROPERTY CleanedUp
