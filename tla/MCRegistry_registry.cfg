SPECIFICATION BothSpec
CONSTANTS
    Thread = {t1, t2}
    Page = {p1}
    NoPage = NoPage
    MaxOps = 3
    Window = {w1, w2}
    Publisher = {b1}
    Multiple = 2
    MaxAsks = 2
SYMMETRY Symmetry
INVARIANTS
    TypeOK
    NotDeaf Linked NoGhost
    Found
CHECK_DEADLOCK FALSE
