SPECIFICATION FairSpec
CONSTANTS
    MAX_COUNT = 12
    MAX_SIZE = 1
INVARIANT Largest
INVARIANT ProbesNear
PROPERTY Ends
