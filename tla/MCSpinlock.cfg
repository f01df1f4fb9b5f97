SPECIFICATION Spec
CONSTANTS
    Cpu = {c1, c2, c3}
    Lock = {l1, l2, l3}
    None = None
SYMMETRY Symmetry
INVARIANTS
    TypeOK
    MutualExclusion
    OnlyDeadlockPanics
    IplBalanced
    HangmanComplete
    HangmanSound
