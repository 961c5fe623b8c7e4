CONSTANTS
    Threshold = 2
    MaxNonce = 2
    MaxKey = 2
SPECIFICATION FairSpec
INVARIANTS
    TypeOK
    ReportIsTrue
PROPERTIES
    HandshakeEnds
    LeavesWhenOver
CHECK_DEADLOCK FALSE
