SPECIFICATION FairSpec
CONSTANTS
    None = None
    MAX_SEQUENCE = 2
    SMSC_PDUS = 2
CHECK_DEADLOCK FALSE
INVARIANT VerdictHeard
INVARIANT ReportIsRight
PROPERTY SendEnds
