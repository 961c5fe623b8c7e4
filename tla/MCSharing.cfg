CONSTANTS
    r1 = r1
    r2 = r2
    r3 = r3
    v1 = v1
    v2 = v2
    v3 = v3
    k1 = k1
    k2 = k2
    ViewerID = {v1, v2, v3}
    AuthKey = {r1, r2, r3}
    Revoker = {k1, k2}
    Caller <- MCCaller
    Plaintext <- MCPlaintext
    NoAuth = NoAuth
    Idle = Idle
    None = None
    UniqueIDs = TRUE
    EpochDurationSec = 1
    FailureThreshold = 2
    MaxOutput = 2
    MaxSize = 0
    MaxNonce = 9
    MaxTime = 0
    Lossy = TRUE
    MayLeave = TRUE
    ReplayRoom = 0
    MayEnd = TRUE
SPECIFICATION SharingSpec
SYMMETRY Symmetry
CONSTRAINT Instances
INVARIANTS
    SharingTypeOK
    KeyOnlyWithCode
    MapLeadsToOwner
    RevokedSeesNothingNew
    RekeyedViewersFollow
CHECK_DEADLOCK FALSE
