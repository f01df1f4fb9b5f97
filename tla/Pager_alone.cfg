SPECIFICATION SpecStats
CONSTANTS
    NFrames = 3
    NSlots = 2
    NUM_TLB = 2
    CountSpace = 8
    NCode = 2
    NData = 3
    LoadedCode = 1
    LoadedData = 1
    NFile = 1
    Proc = {p1}
    NoProc = NoProc
    Value = {v1}
    PidSpace = 4
    MaxProgs = 2
    KMax = 0
    IOErrors = FALSE
    WritesCode = FALSE
INVARIANTS TLBSound PagesKept  StatsAddUp
 
