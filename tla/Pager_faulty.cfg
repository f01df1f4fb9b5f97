SPECIFICATION Spec
CONSTANTS
    NFrames = 4
    NSlots = 1
    NUM_TLB = 1
    CountSpace = 8
    NCode = 2
    NData = 2
    LoadedCode = 1
    LoadedData = 1
    NFile = 1
    Proc = {p1, p2}
    NoProc = NoProc
    Value = {v1}
    PidSpace = 4
    MaxProgs = 2
    KMax = 1
    IOErrors = TRUE
    WritesCode = TRUE
SYMMETRY Symmetry
INVARIANTS TypeOK  
