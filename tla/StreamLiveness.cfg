SPECIFICATION FairSpec
CONSTANTS
    MaxMsgs = 2
    Slots = {s1, s2}
    BatchSize = 2
    MaxRetries = 2
    UseDLQ = TRUE
    Undecodable = {}
    Env = {"shutdown", "redis_error"}
    MaxEvents = 1
INVARIANT RetriesBounded
PROPERTIES
    EventuallyAcked
    ShutdownCompletes
