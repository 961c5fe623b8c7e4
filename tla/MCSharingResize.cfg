CONSTANTS
    r1 = r1
    v1 = v1
    ViewerID = {v1}
    AuthKey = {r1}
    Revoker = {}
    Caller <- MCCaller
    Plaintext <- MCPlaintext
    NoAuth = NoAuth
    Idle = Idle
    None = None
    UniqueIDs = TRUE
    EpochDurationSec = 1
    FailureThreshold = 3
    MaxOutput = 1
    MaxSize = 1
    MaxNonce = 9
    MaxTime = 0
    Lossy = FALSE
    MayLeave = FALSE
    ReplayRoom = 0
    MayEnd = FALSE
SPECIFICATION SharingSpec
INVARIANTS
    SizeSettles
CHECK_DEADLOCK FALSE
