CONSTANTS
    p1 = p1
    p2 = p2
    c1 = c1
    Proc = {p1, p2}
    Client = {c1}
    Old = Old
    Empty = Empty
    None = None
SYMMETRY Symmetry
SPECIFICATION Spec
INVARIANTS
    TypeOK
    SingleShare
    CommandFindsSession
    NothingLeftBehind
    NeverStuck
CHECK_DEADLOCK FALSE
