SPECIFICATION Spec
CONSTANTS
    Requests = {r1, r2}
    Ids = {i1, i2, i3}
    Codes = {c1, c2}
    None = None
    TTL = 2
    MAX_ATTEMPTS = 2
    COOLDOWN = 1
    MAX_SENDS = 2
    DAY = 1
    ROUNDS = 2
    MAX_CLOCK = 3
    StaleReads = FALSE
    LostReplies = TRUE
    Sweeps = {"otp"}
SYMMETRY Symmetry
INVARIANT TypeOK
INVARIANT DailyCap
PROPERTY CooldownRespected
PROPERTY FailedSendDiscarded
PROPERTY ImplementsContract
