CONSTANTS
    i1 = i1
    i2 = i2
    i3 = i3
    NULL = NULL
    Invoker = {i1, i2, i3}
    MaxStreams = 2
    MaxCalls = 1
    MayFail = TRUE
SPECIFICATION FairSpec
INVARIANTS StreamsExclusive OwnReply NoUseAfterFree
 
CHECK_DEADLOCK FALSE
