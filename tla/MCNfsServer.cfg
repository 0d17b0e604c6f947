CONSTANTS
    a = a
    b = b
    i1 = i1
    i2 = i2
    NULL = NULL
    LongName = LongName
    RootIno = root
    Name = {a, b}
    Inode = {root, i1, i2}
    MaxDepth = 2
    Exports <- MCExports
    Errno <- MCErrno
    MaxCache = 3
    MaxMounts = 2
SPECIFICATION Spec
VIEW MCView
SYMMETRY MCSymmetry
INVARIANTS TreeOK MountedResolves
PROPERTY OnlyRenameStrands

CHECK_DEADLOCK FALSE
