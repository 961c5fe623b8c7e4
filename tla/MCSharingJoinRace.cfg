CONSTANTS
    r1 = r1
    r2 = r2
    v1 = v1
    v2 = v2
    k1 = k1
    ViewerID = {v1, v2}
    AuthKey = {r1, r2}
    Revoker = {k1}
    Caller <- MCCaller
    Plaintext <- MCPlaintext
    NoAuth = NoAuth
    Idle = Idle
    None = None
    UniqueIDs = TRUE
    EpochDurationSec = 1
    FailureThreshold = 3
    MaxOutput = 0
    MaxSize = 0
    MaxNonce = 9
    MaxTime = 0
    Lossy = FALSE
    MayLeave = FALSE
    ReplayRoom = 0
    MayEnd = FALSE
SPECIFICATION SharingSpec
SYMMETRY Symmetry
INVARIANTS
    OthersKeepWatching
CHECK_DEADLOCK FALSE
