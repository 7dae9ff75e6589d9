SPECIFICATION Spec
CONSTANTS
    MaxMsgs = 2
    Slots = {s1, s2}
    BatchSize = 1
    MaxRetries = 2
    UseDLQ = TRUE
    Undecodable = {2}
    Env = {"crash", "shutdown", "redis_error", "set_retry", "slow", "mail_late"}
    MaxEvents = 2
SYMMETRY SlotSymmetry
INVARIANTS
    LossOnlyThroughClaim
    DuplicateOnlyUnclaimed
