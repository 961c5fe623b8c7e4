CONSTANTS
    v1 = v1
    v2 = v2
    v3 = v3
    a1 = a1
    a2 = a2
    a3 = a3
    c1 = c1
    c2 = c2
    p1 = p1
    p2 = p2
    ViewerID = {v1, v2, v3}
    AuthKey = {a1, a2, a3}
    Caller = {c1, c2}
    Plaintext = {p1, p2}
    NoAuth = NoAuth
    Idle = Idle
    EpochDurationSec = 2
    UniqueIDs = TRUE
    MaxNonce = 6
    MaxTime = 2
SPECIFICATION Spec
SYMMETRY Symmetry
INVARIANTS
    TypeOK
    NonceNeverReused
    RevokedCannotReadLaterFrames
    MembersCanRead
    KeyStableWhileEncrypting
    ZeroedKeyNeverUsed
CHECK_DEADLOCK FALSE
