SPECIFICATION Spec
CONSTANTS
    t1 = t1
    t2 = t2
    t3 = t3
    n1 = n1
    n2 = n2
    n3 = n3
    n4 = n4
    n5 = n5
    i1 = i1
    i2 = i2
    p1 = p1
    p2 = p2
    NULL = NULL
    Root = Root
    Threads = {t1, t2}
    Nodes = {n1, n2, n3, n4}
    Inos = {i1, i2}
    Paths = {p1, p2}
    Kinds <- MCKinds
    MaxCalls = 4
VIEW MCView
SYMMETRY MCSymmetry
INVARIANTS GetReturnsNewest SafeUnlessRemovalOverlaps
PROPERTY SerialLikeList
CHECK_DEADLOCK FALSE
