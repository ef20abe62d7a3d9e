SPECIFICATION Spec
CONSTANTS
    Handlers = {h1}
    SCHEMES = {"none", "basic", "md5"}
    None = None
    N_GET = 2
    N_CONF = 5
    Refused = {2}
    INIT_ACKS = {1, 2, 7}
    EXTRA_ACKS = {0, 5}
    CAPACITIES = {2, 3, 4, 5, 12}
    MAX_ACKS = 6
    MAX_MESSAGES = 9
    MAX_STORED = 7
    Scenarios <- MCFaulty
INVARIANT DeliveredInOrder
INVARIANT AcksExact
INVARIANT ReportsRecorded
INVARIANT ChallengeAnswerable
INVARIANT ClosedLeavesNothing
