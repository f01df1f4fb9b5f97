------------------------------ MODULE Devices -------------------------------
(* The devices, next to each other: which is picked once and says what is  *)
(* run, the disk driver, the console or the bus with its CPUs.             *)
EXTENDS Disk, Console, Bus

VARIABLE which

Unused == "unused"
DiskUnused ==
    /\ media = Unused /\ card = Unused /\ lh_clear = Unused /\ lh_done = Unused /\ lh_result = Unused
    /\ pc = Unused /\ req = Unused /\ i = Unused /\ res = Unused /\ buf = Unused /\ got = Unused
    /\ last = Unused /\ done = Unused /\ faulty = Unused
ConsoleUnused ==
    /\ the_console = Unused /\ delayed = Unused /\ cs_wsem = Unused /\ cs_rsem = Unused
    /\ gotchars = Unused /\ head = Unused /\ tail = Unused /\ ls_wbusy = Unused /\ ls_lock = Unused
    /\ wirq = Unused /\ rirq = Unused /\ sending = Unused /\ irq = Unused /\ ch = Unused
    /\ wpc = Unused /\ todo = Unused /\ rpc = Unused /\ rloc = Unused /\ out = Unused /\ typed = Unused
    /\ accepted = Unused /\ taken = Unused /\ panicked = Unused
BusUnused ==
    /\ hw = Unused /\ boot = Unused /\ slotsinuse = Unused /\ irqfuncs = Unused /\ devdata = Unused
    /\ line = Unused /\ enabled = Unused /\ scan = Unused /\ duds = Unused /\ allcpus = Unused
    /\ cirqe = Unused /\ cram = Unused /\ hatched = Unused /\ sem = Unused /\ service = Unused
    /\ now = Unused /\ ts = Unused /\ span = Unused /\ raised = Unused /\ failed = Unused
    /\ reads = Unused /\ bus_panic = Unused

InitDevices ==
    \/ which = "disk" /\ InitDisk /\ ConsoleUnused /\ BusUnused
    \/ which = "console" /\ InitConsole /\ DiskUnused /\ BusUnused
    \/ which = "bus" /\ InitBus /\ DiskUnused /\ ConsoleUnused
NextDevices ==
    /\ UNCHANGED which
    /\ \/ which = "disk" /\ NextDisk /\ UNCHANGED <<varsConsole, varsBus>>
       \/ which = "console" /\ NextConsole /\ UNCHANGED <<varsDisk, varsBus>>
       \/ which = "bus" /\ NextBus /\ UNCHANGED <<varsDisk, varsConsole>>
varsDevices == <<which, varsDisk, varsConsole, varsBus>>
SafetyDevices == InitDevices /\ [][NextDevices]_varsDevices

-----------------------------------------------------------------------------
(* The types are right; the disk's card is used by one thread at a time    *)
(* and a request past the end of the disk fails (CardIsMine, PastEndFails  *)
(* of Disk); the port is not written to while it is busy, nor the early    *)
(* buffer overrun (NoConsolePanic); the panics of the bus are those that   *)
(* NoBusPanic names.                                                       *)
DriversSafe == CASE which = "disk" -> TypeDisk /\ CardIsMine /\ PastEndFails
                 [] which = "console" -> TypeConsole /\ NoConsolePanic
                 [] OTHER -> TypeBus /\ NoBusPanic

(* lhd_io and lhd_irq implement a disk whose sectors are read and written  *)
(* at once (Disk implements SectorDisk).                                   *)
DiskActsAtOnce ==
    [][which = "disk" => Abstract!Next \/ UNCHANGED <<media, got, Pending>>]_varsDisk

(* What is printed goes out whole, in order and once, and what is typed is *)
(* read once and in order (OutputKept and InputInOrder of Console).        *)
ConsoleInOrder == which = "console" => OutputKept /\ InputInOrder

(* CPUs are numbered alike by those who find and those who start them, and *)
(* every device with a driver has it and gets its own interrupts           *)
(* (CpusAgree and DevicesAttached of Bus).                                 *)
BusAttached == which = "bus" => CpusAgree /\ DevicesAttached

(* gettime returns a time between its call and its return (Bus).           *)
BusTimeIsNow == which = "bus" => TimeIsNow
=============================================================================
