CONSTANTS
    id = id
    s1 = s1
    s2 = s2
    v1 = v1
    v2 = v2
    SessionID = {id}
    Sharer = {s1, s2}
    Viewer = {v1}
    None = None
    IDOf <- MCIDOf
    MaxViewers = 1
    SendBuf = 1
    MaxSent = 3
    MaxSPAKE2 = 1
SPECIFICATION FairSpec
PROPERTIES
    SessionIDFreed
    NoWriterLeaks
    DepartureReported
    ImplementsBroker
CHECK_DEADLOCK FALSE
