SPECIFICATION FuseFairSpec
CONSTANTS
    c1 = c1
    c2 = c2
    Callers <- MCCallers
    BytesPerRpc = 2
    Requests <- MCRequests
    MaxLength = 3
    MaxRequests = 1
    RpcMayFail = TRUE
INVARIANTS
    ReadReturnsFile
    
    FrameOutlivesWorker
PROPERTY RequestReturns
CHECK_DEADLOCK FALSE
