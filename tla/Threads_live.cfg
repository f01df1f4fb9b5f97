SPECIFICATION FairSpec
CONSTANTS
    t1 = t1
    t2 = t2
    t3 = t3
    t4 = t4
    NCpu = 2
    Thread = {t1, t2, t3, t4}
    Boot <- TwoCpus
    Loads <- Busy
    Shutdown = TRUE
PROPERTY ReadyRuns
INVARIANT OfflineClean
