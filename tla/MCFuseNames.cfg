CONSTANTS
    a = a
    b = b
    i1 = i1
    i2 = i2
    i3 = i3
    NULL = NULL
    LongName = LongName
    RootIno = root
    Name = {a, b}
    Inode = {root, i1, i2, i3}
    MaxDepth = 2
    Exports <- MCExports
    Errno <- MCErrno
    MaxCache = 8
    MaxMounts = 1
    Caller = {c1, c2}
    Requests <- MCRequests
    Servers <- MCServers
    MaxRequests = 3
VIEW MCView
SYMMETRY MCSymmetry
SPECIFICATION FuseSpec
PROPERTIES  ChangesOnlyItsPaths
CHECK_DEADLOCK FALSE
