CONSTANTS
    Threshold = 2
    MaxNonce = 2
    MaxSize = 2
    MaxKey = 3
    MaxEpoch = 2
    MaxReplay = 0
SPECIFICATION FairSpec
CONSTRAINT Instances
INVARIANTS
    TypeOK
    CaughtUp
PROPERTIES
    ConnectingEnds
    EndIsShown
CHECK_DEADLOCK FALSE
