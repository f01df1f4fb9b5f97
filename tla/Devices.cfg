SPECIFICATION SpecDevices
CONSTANTS
    Thread = {"t1", "t2"}
    Value = {"v1", "v2"}
    Blocks = 2
    Width = 4
    Requests <- SomeRequests
    MaxRequests = 2
    Writer = {"w"}
    Polled = {"k"}
    Reader = {"r"}
    Boot = "boot"
    Line <- OneLine
    Early = 1
    DelaySize = 1
    RingSize = 3
    Keys = 3
    NSlots = 4
    Drivers <- AutoconfOrder
    Machines <- SomeMachines
    MaxDuds = 2
    MaxRaise = 3
    MaxReads = 1
    Second = 5
    Small = 2
    Slow = 1
    MaxFaulty = 1
    MaxFailed = 1
INVARIANTS
    DriversSafe
    ConsoleInOrder
    BusAttached
    BusTimeIsNow
PROPERTIES
    DiskActsAtOnce
    RequestsEnd
