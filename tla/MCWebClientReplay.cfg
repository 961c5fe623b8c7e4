CONSTANTS
    Threshold = 2
    MaxNonce = 3
    MaxSize = 0
    MaxKey = 1
    MaxEpoch = 1
    MaxReplay = 1
SPECIFICATION ReplaySpec
INVARIANT ReplaysRefused
CHECK_DEADLOCK FALSE
