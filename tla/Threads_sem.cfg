SPECIFICATION Spec
CONSTANTS
    t1 = t1
    t2 = t2
    t3 = t3
    t4 = t4
    NCpu = 2
    Thread = {t1, t2, t3, t4}
    Boot <- TwoCpus
    Loads <- SemAndClock
    Shutdown = FALSE
INVARIANT StackInUse
INVARIANT ThreadPlaced
INVARIANT NoStranded
INVARIANT NoLostWakeup
SYMMETRY Alike
