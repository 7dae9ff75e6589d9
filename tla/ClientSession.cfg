CONSTANTS
    Tabs = {t1, t2}
    Null = Null
    Sessions <- TwoSessions
    Secrets <- EightSecrets
    Pool <- FourEach
    JwtTTL = 1
    SessionTTL = 2
    Instants = {0, 2, 3}
    MaxFaults = 1
SPECIFICATION FairSpec
CHECK_DEADLOCK FALSE
INVARIANTS KeepsSession ExposureBounded
PROPERTY Renewed
