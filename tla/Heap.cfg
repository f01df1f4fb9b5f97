SPECIFICATION SpecHeap
CONSTANTS
    NFrames = 4
    Node = {1, 2, 3, 4, 5}
    Thread = {t0}
    Freer = {t0}
    MaxPages = 1
    NULL = NULL
    T = {t1, t2, t3}
    U = {u1, u2}
SYMMETRY Alike
INVARIANTS EveryFrameOnce HeapSound
 
