CONSTANTS
    s1 = s1
    s2 = s2
    Stream = {s1, s2}
    ByteValues = 4
    HeaderSize = 2
    MaxFragment = 2
    MaxRecord = 3
    MaxRecords = 3
    Sizes = {1, 3}
    Rooms = {5, 20}
    MaxConnections = 2
SPECIFICATION Spec
INVARIANT ContextsFresh
PROPERTY ImplementsChannel
CHECK_DEADLOCK FALSE
