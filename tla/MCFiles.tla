------------------------------ MODULE MCFiles -------------------------------
(* The file systems, for TLC: which is picked once and says what is run,   *)
(* the VFS layer and processes, or one of SFS, semfs and emufs below it.   *)
EXTENDS MCVfs

VARIABLES
    which,
    disk, mounted, freemap, freemapdirty, vnodes, torn,                    \* Sfs
    sems, dents, bal,                                                      \* Semfs
    mode, content, opened, dev, e_sem, e_result, e_lock, big, got, lost,   \* Emu
    vn, pc, loc, fd                                                        \* both

(* One call of an operation fails, or two (for the recovery of rename).    *)
(* Writes are of a whole block, and of the end of one, a whole one and the *)
(* start of another.                                                       *)
S == INSTANCE Sfs WITH NBLOCKS <- 9, NDIRECT <- 1, DBPERIDB <- 2, BLOCKSIZE <- 2, Name <- {"a", "b"},
         Failing <- {{n} : n \in 1..16} \cup {{n, n + 1} : n \in 7..9},
         MaxFaulty <- 1, MaxOps <- 4, MaxRef <- 1,
         Extent <- {<<0, 2>>, <<1, 4>>}, Length <- {0, 2, 3}

M == INSTANCE Semfs WITH Thread <- {"t1", "t2"}, Name <- {"a", "b", "c"}, Excl <- "serial",
         MaxSems <- 2, CountMax <- 3, Amount <- {1, 2, 4}, MaxOps <- 7, MaxFaulty <- 1
Common == {"lookup", "read", "write", "trunc", "stat", "close"}
E == INSTANCE Emu WITH Thread <- {"t1", "t2"}, File <- {"f", "g"}, Locks <- TRUE,
         Modes <- {[shares |-> TRUE, ops |-> Common],
                   [shares |-> FALSE, ops |-> Common \cup {"creat", "share"}]},
         MaxHandle <- 2, Retries <- 1, MaxOps <- 4, MaxFaulty <- 2

Off == "unused"
VfsOff ==
    /\ todo = Off /\ devs = Off /\ ref = Off /\ dirs = Off /\ bootfs = Off /\ cwd = Off /\ pname = Off
    /\ prog = Off /\ pstate = Off /\ swapfile = Off /\ phase = Off
SfsOff ==
    /\ disk = Off /\ mounted = Off /\ freemap = Off /\ freemapdirty = Off /\ vnodes = Off /\ torn = Off
SemfsOff == sems = Off /\ dents = Off /\ bal = Off
EmuOff ==
    /\ mode = Off /\ content = Off /\ opened = Off /\ dev = Off /\ e_sem = Off /\ e_result = Off
    /\ e_lock = Off /\ big = Off /\ got = Off /\ lost = Off
ThreadsOff == vn = Off /\ pc = Off /\ loc = Off /\ fd = Off
vfs == <<todo, devs, ref, dirs, bootfs, cwd, pname, prog, pstate, swapfile, phase>>
sfs == <<disk, mounted, freemap, freemapdirty, vnodes, torn>>
semfs == <<sems, dents, bal>>
emu == <<mode, content, opened, dev, e_sem, e_result, e_lock, big, got, lost>>
threads == <<vn, pc, loc, fd>>

InitFiles ==
    \/ which = "vfs" /\ Init /\ SfsOff /\ SemfsOff /\ EmuOff /\ ThreadsOff
    \/ which = "sfs" /\ S!Init /\ VfsOff /\ SemfsOff /\ EmuOff /\ ThreadsOff
    \/ which = "semfs" /\ M!Init /\ VfsOff /\ SfsOff /\ EmuOff /\ held = Off
    \/ which = "emu" /\ E!Init /\ VfsOff /\ SfsOff /\ SemfsOff /\ held = Off
NextFiles ==
    /\ UNCHANGED which
    /\ \/ which = "vfs" /\ Next /\ UNCHANGED <<sfs, semfs, emu, threads>>
       \/ which = "sfs" /\ S!Next /\ UNCHANGED <<vfs, semfs, emu, threads>>
       \/ which = "semfs" /\ M!Next /\ UNCHANGED <<vfs, sfs, emu, held>>
       \/ which = "emu" /\ E!Next /\ UNCHANGED <<vfs, sfs, semfs, held>>
varsFiles == <<which, vfs, sfs, semfs, emu, threads, held, ops, faulty, panicked>>
SpecFiles == InitFiles /\ [][NextFiles]_varsFiles

-----------------------------------------------------------------------------
(* Every vnode has as many references as it has users: files, directories, *)
(* programs and mounts (RefsExact of Vfs), holders (RefsHeld of Sfs), the  *)
(* threads with a file of emufs open (RefsExact of Emu); the directory,    *)
(* semaphores and vnodes of semfs agree (TablesAgree of Semfs).            *)
VnodeRefsExact == CASE which = "vfs" -> RefsExact [] which = "sfs" -> S!RefsHeld
                    [] which = "semfs" -> M!TablesAgree [] OTHER -> E!RefsExact

(* What somebody uses is on a file system that is mounted, and after       *)
(* shutdown one is mounted only if somebody uses it or a call failed       *)
(* (HeldIsMounted and DownIsClean of Vfs).                                 *)
HeldIsMountedVfs == which = "vfs" => HeldIsMounted /\ DownIsClean

(* The types are right, and no assertion or panic is reached but those     *)
(* that NoPanic of Vfs and of Sfs name.                                    *)
FilesNoPanic == CASE which = "vfs" -> TypeOK /\ NoPanic [] which = "sfs" -> S!TypeOK /\ S!NoPanic
                  [] which = "semfs" -> M!TypeOK /\ M!NoPanic [] OTHER -> E!TypeOK /\ E!NoPanic

(* What a check of an SFS volume looks for: a block has one use at most    *)
(* and is marked while it has; a marked block is in use, as long as no     *)
(* call has failed; link counts are the numbers of names; a truncation     *)
(* leaves at most one block past the end of file (Sfs).                    *)
SfsConsistent ==
    which = "sfs" => /\ S!BlocksOwned /\ S!NoBlockLost
                     /\ S!LinkCounts /\ S!OneBlockPastEnd

(* What SFS does not mark dirty is what the disk holds (Sfs).              *)
SfsCleanIsStored == which = "sfs" => S!CleanIsStored

(* A file holds only what was written to it, where it was written          *)
(* (DataInPlace of Sfs), and a read of a host file returns data of the     *)
(* file that was opened (DataOfFile of Emu).                               *)
DataOfItsFile == CASE which = "sfs" -> S!DataInPlace
                   [] which = "emu" -> E!DataOfFile
                   [] OTHER -> TRUE

(* What was written stays until the file is cut (WrittenStays of Sfs).     *)
SfsWrittenStays ==
    [][which = "sfs" => S!ContentKept]_<<which, sfs, ops>>

(* No table of semfs leads to a semaphore that was freed, and a count is   *)
(* what was written and not read (PointersLive and CountExact of Semfs).   *)
SemaphoresKept == which = "semfs" => M!PointersLive /\ M!CountExact

(* A handle in use is open in the device, one that is not is closed, and   *)
(* locks are given back (HandlesKept and LocksBack of Emu).                *)
EmuGivenBack == which = "emu" => E!HandlesKept /\ E!LocksBack
=============================================================================
