SPECIFICATION Spec
CONSTANTS
    NFrames = 6
    NSlots = 1
    NUM_TLB = 1
    CountSpace = 8
    NCode = 1
    NData = 3
    LoadedCode = 1
    LoadedData = 1
    NFile = 1
    Proc = {p1, p2}
    NoProc = NoProc
    Value = {}
    PidSpace = 4
    MaxProgs = 2
    KMax = 0
    IOErrors = FALSE
    WritesCode = FALSE
INVARIANTS OwnTLB
