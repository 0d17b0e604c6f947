CONSTANTS
    ByteValues = 2
    HeaderSize = 3
    MaxFragment = 2
    MaxRecord = 3
    MaxRecords = 2
    SizeMod = 8
SPECIFICATION Spec
INVARIANT IntactUnlessReset
PROPERTIES SendEnds ImplementsChannel
CHECK_DEADLOCK FALSE
