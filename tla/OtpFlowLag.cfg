SPECIFICATION Spec
CONSTANTS
    Requests = {r1, r2}
    Ids = {i1, i2}
    Codes = {c1, c2}
    None = None
    TTL = 1
    MAX_ATTEMPTS = 2
    COOLDOWN = 1
    MAX_SENDS = 2
    DAY = 1
    ROUNDS = 2
    MAX_CLOCK = 3
    StaleReads = TRUE
    LostReplies = FALSE
    Sweeps = {"otp", "quota"}
SYMMETRY Symmetry
INVARIANT SingleUse
INVARIANT AttemptLimit
PROPERTY DiscardOwnOnly
PROPERTY VerifiedIsCurrent
