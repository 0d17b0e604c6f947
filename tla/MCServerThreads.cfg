CONSTANTS
    t1 = t1
    t2 = t2
    t3 = t3
    NULL = NULL
    Main = Main
    Cleaner = Cleaner
    Thread = {t1, t2, t3}
SPECIFICATION FairSpec
INVARIANTS ListSound CrashOnlyBeforeEntry SocketOpenWhileServing ShutdownMissesOnlyNewest
PROPERTY ShutdownEnds
CHECK_DEADLOCK FALSE
