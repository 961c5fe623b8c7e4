CONSTANTS
    r1 = r1
    v1 = v1
    ViewerID = {v1}
    AuthKey = {r1}
    Revoker = {}
    Caller <- MCCaller
    Plaintext <- MCPlaintext
    NoAuth = NoAuth
    Idle = Idle
    None = None
    UniqueIDs = TRUE
    EpochDurationSec = 1
    FailureThreshold = 2
    MaxOutput = 2
    MaxSize = 2
    MaxNonce = 9
    MaxTime = 1
    Lossy = FALSE
    MayLeave = FALSE
    ReplayRoom = 1
    MayEnd = TRUE
SPECIFICATION SharingSpec
INVARIANTS
    ShownInOrder
CHECK_DEADLOCK FALSE
