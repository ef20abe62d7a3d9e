SPECIFICATION FairSpec
CONSTANTS
    Handlers = {h1, h2}
    SCHEMES = {"md5"}
    None = None
    N_GET = 1
    N_CONF = 3
    Refused = {2}
    INIT_ACKS = {1}
    EXTRA_ACKS = {0}
    CAPACITIES = {2, 3}
    MAX_ACKS = 6
    MAX_MESSAGES = 2
    MAX_STORED = 7
    Scenarios <- MCLate
PROPERTY SessionEnds
