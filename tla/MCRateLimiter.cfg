CONSTANTS
    ip1 = ip1
    conn = conn
    reg = reg
    g1 = g1
    g2 = g2
    IP = {ip1}
    Event = {conn, reg}
    Request = {g1, g2}
    Idle = Idle
    Limit <- MCLimit
    Window <- MCWindow
    BanMultiplier = 3
    ViolationBanCount = 3
    ViolationWindow = 4
    BanDurationFirst = 4
    BanDurationSecond = 5
    MaxTime = 11
SPECIFICATION Spec
SYMMETRY Symmetry
INVARIANTS
    TypeOK
    ServedAtMostTwiceTheLimit
    BanStartsAfresh
PROPERTIES
    BannedNeverServed
    OneBanAtATime
CHECK_DEADLOCK FALSE
