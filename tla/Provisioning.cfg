SPECIFICATION Spec
CONSTANTS
    Actors = {a1, a2}
    None = None
    N_TOKENS = 2
    MAX_VERSION = 2
    N_SECRETS = 2
    Forceable = {0}
    PUT_VERSIONS = {0, 2}
    LIMIT = 2
    Workloads <- MCWorkloads
 
INVARIANT DeleteLeavesNoToken
PROPERTY VersMonotonic
PROPERTY DmPasswordStable
INVARIANT RevokeCovers
SYMMETRY ActorSymmetry
