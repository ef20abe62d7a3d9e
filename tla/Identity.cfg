SPECIFICATION Spec
CONSTANTS
    s1 = s1
    s2 = s2
    t1 = t1
    t2 = t2
    Subs = {s1, s2}
    None = None
    Stranger = Stranger
    Number <- MCNumber
    MIN_DIGITS = 2
    MAX_DIGITS = 4
    TICKS = 2
    MAX_AGE = 1
    Tasks = {t1, t2}
    Requests <- MCRequests
    Configs <- MCConfigs
INVARIANT OnlyOwn
INVARIANT NeverWeaker
INVARIANT DecidedOnTheRecord
INVARIANT SpellingsFind
PROPERTY NonceWindow
