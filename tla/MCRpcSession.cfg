CONSTANTS
    MAX_N_GIDS = 2
    NULL = NULL
    Caller = {c1, c2}
    Requests <- MCRequests
    Auths <- MCAuths
SPECIFICATION FairSpec
INVARIANTS  OnlyNullForAnyone
PROPERTIES UsesChannel 
CHECK_DEADLOCK FALSE
