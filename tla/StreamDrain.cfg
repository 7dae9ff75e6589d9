SPECIFICATION Spec
CONSTANTS
    MaxMsgs = 2
    Slots = {s1, s2}
    BatchSize = 2
    MaxRetries = 2
    UseDLQ = TRUE
    Undecodable = {}
    Env = {"shutdown"}
    MaxEvents = 1
INVARIANT ReturnsDrained
