SPECIFICATION SpecFiles
CONSTANTS
    Boot <- Machine
    Program = {"p1"}
    Path <- SmallPaths
    Pairs <- SomePairs
    Flags <- SomeFlags
    MaxFiles = 2
    MaxHeld = 1
    MaxOps = 4
    MaxFaulty = 1
    MaxCall = 6
INVARIANTS
    
    
    HeldIsMountedVfs
    
    
    
    
    
 
