CONSTANTS
    c1 = c1
    c2 = c2
    c3 = c3
    Caller = {c1, c2, c3}
    Owner = c1
    MaxRpcs = 2
SPECIFICATION ConnectionFairSpec
INVARIANTS FreedWhenUnused
PROPERTIES  FreeEnds
CHECK_DEADLOCK FALSE
