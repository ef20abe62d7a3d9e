SPECIFICATION Spec
CONSTANTS
    Actors = {a1, a2}
    None = None
    N_TOKENS = 2
    MAX_VERSION = 2
    N_SECRETS = 1
    Forceable = {0}
    PUT_VERSIONS = {1}
    LIMIT = 2
    Workloads <- MCDisabling
INVARIANT DisableHolds
