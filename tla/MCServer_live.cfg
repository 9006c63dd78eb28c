SPECIFICATION Spec
CONSTANTS
    t1 = t1
    t2 = t2
    m1 = m1
    m2 = m2
    p1 = p1
    c1 = c1
    w1 = w1
    w2 = w2
    Null = Null
    HB = HB
PROPERTIES Settles Forgotten
CHECK_DEADLOCK FALSE
