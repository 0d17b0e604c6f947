CONSTANTS
    NONE = NONE
    Worker = {t1, t2}
    Creds <- MCCreds
    Modes <- MCModes
    Sattrs <- MCSattrs
    Dir <- MCDir
    Umask <- MCUmask
    WRITE_SIZE = 2
    MaxCalls = 3
SPECIFICATION AttributesSpec
INVARIANT AnswerTellsEffect
PROPERTIES CreateSparesOldFiles AllowedUnlessChanged
CHECK_DEADLOCK FALSE
SYMMETRY Threads
