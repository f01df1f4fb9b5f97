-------------------------------- MODULE Emu ---------------------------------
(***************************************************************************)
(* The emulator file system (dev/lamebus/emu.c), from which programs are   *)
(* loaded and where the swapfile is.  A device does the work; the driver   *)
(* writes its registers, starts the operation and waits for the interrupt, *)
(* and emufs keeps a vnode for every handle it has open at the device.     *)
(*                                                                         *)
(* Two sleep locks are meant to keep threads apart: e_lock around the use  *)
(* of the device, and vfs_biglock, which vfs_lookup, emufs_loadvnode and   *)
(* emufs_reclaim take.  Locks says whether they do: those of synch.c are   *)
(* empty.  A thread may lose the CPU between any two steps.                *)
(***************************************************************************)
EXTENDS Integers, Sequences, FiniteSets, FiniteSetsExt

CONSTANTS
    Thread, File,
    Locks,       \* do sleep locks exclude?
    Modes,       \* [shares, ops]: see mode
    MaxHandle,   \* the handles of the device are 0..MaxHandle
    Retries,     \* how often a close is tried again (10 in the code)
    MaxOps, MaxFaulty

VARIABLES
    mode,        \* shares: does the device hand out the handle of a file that is open once
                 \* more; ops: what the threads do
    content,     \* of every file: None if there is no such file
    opened,      \* the file of every handle, None for a closed one
    dev,         \* the registers and the buffer: [oper, handle, buf, result]
    e_sem, e_result,
    e_lock,      \* the thread that holds it
    big,         \* vfs_biglock: [own, depth]
    vn,          \* ef_vnodes: vn_refcount of the vnode of every handle, 0 for none
    pc, loc,     \* of every thread
    fd,          \* what it has open: [h, f], the handle and the file, NoFd for nothing
    got,         \* what its last read returned
    lost,        \* ghost: handles that a failed close or reclaim left open
    ops, faulty, panicked

vars == <<mode, content, opened, dev, e_sem, e_result, e_lock, big, vn, pc, loc, fd, got, lost,
          ops, faulty, panicked>>
device == <<mode, content, opened>>
sofar  == <<ops, faulty, panicked>>

None   == "none"
Root   == "root"                 \* the directory, always open as handle 0
Handle == 0..MaxHandle
NoFd   == [h |-> 0, f |-> None]
Here   == [op |-> None, name |-> None, h |-> 0, tries |-> 0, of |-> None]

Init ==
    /\ mode \in Modes
    /\ \E fs \in SUBSET File :
         content = [f \in File \cup {Root} |-> IF f \in fs \cup {Root} THEN f ELSE None]
    /\ opened = [h \in Handle |-> IF h = 0 THEN Root ELSE None]
    /\ dev = [oper |-> None, handle |-> 0, buf |-> None, result |-> None]
    /\ e_sem = 0 /\ e_result = None /\ e_lock = None /\ big = [own |-> None, depth |-> 0]
    /\ vn = [h \in Handle |-> IF h = 0 THEN 1 ELSE 0] /\ lost = {}
    /\ pc = [t \in Thread |-> "idle"] /\ loc = [t \in Thread |-> Here]
    /\ fd = [t \in Thread |-> NoFd] /\ got = [t \in Thread |-> None]
    /\ ops = 0 /\ faulty = 0 /\ panicked = "no"

Goto(t, l, r) == pc' = [pc EXCEPT ![t] = l] /\ loc' = [loc EXCEPT ![t] = r]
Done(t) == Goto(t, "idle", Here)
Fault == faulty < MaxFaulty /\ faulty' = faulty + 1
Begins(t, op) == /\ pc[t] = "idle" /\ panicked = "no" /\ op \in mode.ops
                 /\ ops < MaxOps /\ ops' = ops + 1 /\ UNCHANGED <<faulty, panicked>>
At(t, l) == pc[t] = l /\ panicked = "no"

(* The locks.  vfs_biglock is recursive, and counts.                       *)
Free(t)    == Locks => e_lock \in {None, t}
BigFree(t) == Locks => big.own \in {None, t}
Taken(t)   == [own |-> t, depth |-> big.depth + 1]
GivenBack  == [own |-> IF big.depth = 1 THEN None ELSE big.own, depth |-> big.depth - 1]

-----------------------------------------------------------------------------
(* The device.  Any operation may meet an I/O error.                       *)
NewHandle(f) ==
    IF mode.shares /\ \E h \in Handle : opened[h] = f THEN CHOOSE h \in Handle : opened[h] = f
    ELSE Min({h \in Handle : opened[h] = None} \cup {MaxHandle + 1})

Opens(f) ==
    LET h == NewHandle(f)
        new == dev.oper # "open"
    IN  IF content[f] = None /\ ~new THEN dev' = [dev EXCEPT !.oper = None, !.result = "BADPATH"]
                                          /\ UNCHANGED device
        ELSE IF content[f] # None /\ dev.oper = "excl"
        THEN dev' = [dev EXCEPT !.oper = None, !.result = "EXISTS"] /\ UNCHANGED device
        ELSE IF h \notin Handle
        THEN dev' = [dev EXCEPT !.oper = None, !.result = "NOHANDLES"] /\ UNCHANGED device
        ELSE /\ dev' = [dev EXCEPT !.oper = None, !.result = "SUCCESS", !.handle = h]
             /\ opened' = [opened EXCEPT ![h] = f]
             /\ content' = [content EXCEPT ![f] = IF @ = None THEN f ELSE @]
             /\ UNCHANGED mode

OnHandle(f) ==
    /\ dev' = [dev EXCEPT !.oper = None, !.result = "SUCCESS",
                          !.buf = IF dev.oper = "read" THEN content[f] ELSE @]
    /\ opened' = IF dev.oper = "close" THEN [opened EXCEPT ![dev.handle] = None] ELSE opened
    /\ content' = IF dev.oper = "write" THEN [content EXCEPT ![f] = dev.buf] ELSE content
    /\ UNCHANGED mode

DeviceActs ==
    /\ dev.oper # None /\ dev.result = None /\ panicked = "no"
    /\ \/ /\ UNCHANGED faulty
          /\ IF dev.oper \in {"open", "creat", "excl"} THEN Opens(dev.buf)
             ELSE IF dev.handle \notin Handle \/ (dev.handle \in Handle /\ opened[dev.handle] = None)
             THEN dev' = [dev EXCEPT !.oper = None, !.result = "BADHANDLE"] /\ UNCHANGED device
             ELSE OnHandle(opened[dev.handle])
       \/ Fault /\ dev' = [dev EXCEPT !.oper = None, !.result = "MEDIA"] /\ UNCHANGED device
    /\ UNCHANGED <<e_sem, e_result, e_lock, big, vn, pc, loc, fd, got, lost, ops, panicked>>

emu_irq ==
    /\ dev.result # None /\ panicked = "no"
    /\ e_result' = dev.result
    /\ dev' = [dev EXCEPT !.result = None]
    /\ e_sem' = e_sem + 1
    /\ UNCHANGED <<device, e_lock, big, vn, pc, loc, fd, got, lost, sofar>>

(* The errors of the device; "fatal" for those that translate_err takes to *)
(* be a mistake of this driver.                                            *)
translate_err(code) ==
    CASE code = "SUCCESS"   -> "ok"
      [] code = "BADPATH"   -> "ENOENT"
      [] code = "EXISTS"    -> "EEXIST"
      [] code = "MEDIA"     -> "EIO"
      [] code = "NOHANDLES" -> "ENFILE"
      [] code = "BADHANDLE" -> "fatal"

-----------------------------------------------------------------------------
(* What threads ask of emufs.                                              *)

(* vfs_lookup holds vfs_biglock over emufs_lookup; a thread that has it    *)
(* open afterwards has a reference to the vnode.                           *)
emufs_lookup(t, f) ==
    /\ Begins(t, "lookup") /\ fd[t] = NoFd /\ BigFree(t)
    /\ big' = Taken(t)
    /\ Goto(t, "regs", [Here EXCEPT !.op = "open", !.name = f, !.of = "lookup"])
    /\ UNCHANGED <<device, dev, e_sem, e_result, e_lock, vn, fd, got, lost>>

(* VOP_CREAT is called without vfs_biglock.                                *)
emufs_creat(t, f, excl) ==
    /\ Begins(t, "creat") /\ fd[t] = NoFd
    /\ Goto(t, "regs", [Here EXCEPT !.op = IF excl THEN "excl" ELSE "creat", !.name = f,
                                    !.of = "creat"])
    /\ UNCHANGED <<device, dev, e_sem, e_result, e_lock, big, vn, fd, got, lost>>

(* Read, write, truncate and stat, by the handle of the vnode.  What a     *)
(* thread writes to a file is the name of that file.                       *)
emufs_io(t, op) ==
    /\ Begins(t, op) /\ fd[t] # NoFd
    /\ Goto(t, "regs", [Here EXCEPT !.op = op, !.h = fd[t].h, !.name = fd[t].f])
    /\ UNCHANGED <<device, dev, e_sem, e_result, e_lock, big, vn, fd, got, lost>>

(* A program starts with the directory of its parent (VOP_INCREF).         *)
vnode_incref(t, u) ==
    /\ Begins(t, "share") /\ fd[t] = NoFd /\ u # t /\ fd[u] # NoFd /\ pc[u] = "idle"
    /\ vn' = [vn EXCEPT ![fd[u].h] = @ + 1]
    /\ fd' = [fd EXCEPT ![t] = fd[u]]
    /\ UNCHANGED <<device, dev, e_sem, e_result, e_lock, big, pc, loc, got, lost>>

vnode_decref(t) ==
    /\ Begins(t, "close") /\ fd[t] # NoFd
    /\ fd' = [fd EXCEPT ![t] = NoFd] /\ got' = [got EXCEPT ![t] = None]
    /\ IF vn[fd[t].h] > 1
       THEN vn' = [vn EXCEPT ![fd[t].h] = @ - 1] /\ UNCHANGED <<pc, loc>>
       ELSE Goto(t, "reclaim", [Here EXCEPT !.h = fd[t].h]) /\ UNCHANGED vn
    /\ UNCHANGED <<device, dev, e_sem, e_result, e_lock, big, lost>>

emufs_reclaim(t) ==
    LET h == loc[t].h
    IN  /\ At(t, "reclaim") /\ BigFree(t) /\ Free(t)
        /\ IF vn[h] > 1
           THEN vn' = [vn EXCEPT ![h] = @ - 1] /\ Done(t) /\ UNCHANGED <<big, e_lock>>
           ELSE /\ big' = Taken(t) /\ e_lock' = t /\ UNCHANGED vn
                /\ Goto(t, "regs", [loc[t] EXCEPT !.op = "close", !.of = "reclaim"])
        /\ UNCHANGED <<device, dev, e_sem, e_result, fd, got, lost, sofar>>

-----------------------------------------------------------------------------
(* One operation of the device: emu_open, emu_close, emu_doread,           *)
(* emu_write, emu_getsize and emu_trunc.                                   *)
Regs(t) ==
    LET l == loc[t]
    IN  /\ At(t, "regs") /\ Free(t)
        /\ e_lock' = t
        /\ dev' = [dev EXCEPT !.handle = l.h,
                              !.buf = IF l.op \in {"open", "creat", "excl", "write"} THEN l.name
                                      ELSE @]
        /\ Goto(t, "oper", l)
        /\ UNCHANGED <<device, e_sem, e_result, big, vn, fd, got, lost, sofar>>

(* emu_write fails to fetch the caller's data.                             *)
NoData(t) ==
    /\ At(t, "oper") /\ loc[t].op = "write" /\ Fault
    /\ e_lock' = None /\ Done(t)
    /\ UNCHANGED <<device, dev, e_sem, e_result, big, vn, fd, got, lost, ops, panicked>>

Oper(t) ==
    /\ At(t, "oper")
    /\ dev' = [dev EXCEPT !.oper = loc[t].op]
    /\ Goto(t, "wait", loc[t])
    /\ UNCHANGED <<device, e_sem, e_result, e_lock, big, vn, fd, got, lost, sofar>>

(* Mistake: the data are fetched after the device was let go.              *)
emu_waitdone_unlocks(t) ==
    /\ At(t, "wait") /\ e_sem > 0
    /\ e_sem' = e_sem - 1 /\ e_lock' = IF loc[t].op = "read" THEN None ELSE e_lock
    /\ Goto(t, "answer", loc[t])
    /\ UNCHANGED <<device, dev, e_result, big, vn, fd, got, lost, sofar>>

emu_waitdone(t) ==
    /\ At(t, "wait") /\ e_sem > 0
    /\ e_sem' = e_sem - 1
    /\ Goto(t, "answer", loc[t])
    /\ UNCHANGED <<device, dev, e_result, e_lock, big, vn, fd, got, lost, sofar>>

Answered(t, op) == At(t, "answer") /\ loc[t].op \in op /\ UNCHANGED <<device, e_sem, e_result, dev>>
Result == translate_err(e_result)

Fatal(t) ==
    /\ panicked' = "fatal result code"
    /\ UNCHANGED <<device, dev, e_sem, e_result, e_lock, big, vn, pc, loc, fd, got, lost, ops,
                   faulty>>

(* Mistake: vfs_lookup returns the error and keeps vfs_biglock.            *)
NotOpened_held(t) ==
    /\ Answered(t, {"open", "creat", "excl"}) /\ Result \notin {"ok", "fatal"}
    /\ e_lock' = None /\ Done(t)
    /\ UNCHANGED <<big, vn, fd, got, lost, sofar>>

NotOpened(t) ==
    /\ Answered(t, {"open", "creat", "excl"}) /\ Result \notin {"ok", "fatal"}
    /\ e_lock' = None /\ Done(t)
    /\ big' = IF loc[t].of = "lookup" THEN GivenBack ELSE big
    /\ UNCHANGED <<vn, fd, got, lost, sofar>>

HandleOpened(t) ==
    /\ Answered(t, {"open", "creat", "excl"}) /\ Result = "ok"
    /\ e_lock' = None
    /\ Goto(t, "load", [loc[t] EXCEPT !.h = dev.handle])
    /\ UNCHANGED <<big, vn, fd, got, lost, sofar>>

(* The data of a read are moved out of the device's buffer.                *)
IoDone(t) ==
    /\ Answered(t, {"read", "write", "trunc", "stat"}) /\ Result # "fatal"
    /\ got' = IF loc[t].op = "read" /\ Result = "ok" THEN [got EXCEPT ![t] = dev.buf] ELSE got
    /\ e_lock' = None /\ Done(t)
    /\ UNCHANGED <<big, vn, fd, lost, sofar>>

CloseAgain(t) ==
    /\ Answered(t, {"close"}) /\ Result = "EIO" /\ loc[t].tries < Retries
    /\ Goto(t, "regs", [loc[t] EXCEPT !.tries = @ + 1])
    /\ UNCHANGED <<e_lock, big, vn, fd, got, lost, sofar>>

(* The handle is closed, or it could not be.  emufs_reclaim then drops the *)
(* vnode, or leaves it where it is; emufs_lookup and emufs_creat come here *)
(* because they got no vnode, and return that error.                       *)
Closed(t) ==
    LET l == loc[t]
        gone == l.of = "reclaim" /\ Result = "ok"
    IN  /\ Answered(t, {"close"}) /\ Result # "fatal" /\ ~(Result = "EIO" /\ l.tries < Retries)
        /\ panicked' = IF gone /\ vn[l.h] = 0 THEN "not in vnode pool" ELSE panicked
        /\ vn' = IF gone THEN [vn EXCEPT ![l.h] = 0] ELSE vn
        /\ lost' = IF Result = "ok" THEN lost ELSE lost \cup {l.h}
        /\ e_lock' = None /\ Done(t)
        /\ big' = IF l.of \in {"lookup", "reclaim"} THEN GivenBack ELSE big
        /\ UNCHANGED <<fd, got, ops, faulty>>

-----------------------------------------------------------------------------
(* emufs_loadvnode: the vnode of the handle is found or made, and          *)
(* vfs_lookup returns.  It takes and releases both locks.                  *)
emufs_loadvnode(t) ==
    LET h == loc[t].h
    IN  /\ At(t, "load") /\ BigFree(t) /\ Free(t)
        /\ vn' = [vn EXCEPT ![h] = @ + 1]
        /\ fd' = [fd EXCEPT ![t] = [h |-> h, f |-> loc[t].name]]
        /\ lost' = IF vn[h] = 0 THEN lost \ {h} ELSE lost
        /\ big' = IF loc[t].of = "lookup" THEN GivenBack ELSE big
        /\ Done(t)
        /\ UNCHANGED <<device, dev, e_sem, e_result, e_lock, got, sofar>>

(* Out of memory: the handle is closed.  If it was for the vnode itself,   *)
(* vfs_biglock is not released.                                            *)
NoVnode(t) ==
    /\ At(t, "load") /\ BigFree(t) /\ Free(t) /\ vn[loc[t].h] = 0 /\ Fault
    /\ \/ big' = Taken(t)
       \/ UNCHANGED big
    /\ Goto(t, "regs", [loc[t] EXCEPT !.op = "close"])
    /\ UNCHANGED <<device, dev, e_sem, e_result, e_lock, vn, fd, got, lost, ops, panicked>>

(* What a thread does with the result of its operation.                    *)
Answer(t) ==
    IF At(t, "answer") /\ Result = "fatal" THEN Fatal(t)
    ELSE NotOpened(t) \/ HandleOpened(t) \/ IoDone(t) \/ CloseAgain(t) \/ Closed(t)

Stopped == (panicked # "no" \/ ops = MaxOps \/ big.depth > 0) /\ UNCHANGED vars

Step(t) ==
    \/ \E f \in File : emufs_lookup(t, f) \/ emufs_creat(t, f, TRUE) \/ emufs_creat(t, f, FALSE)
    \/ \E op \in {"read", "write", "trunc", "stat"} : emufs_io(t, op)
    \/ \E u \in Thread : vnode_incref(t, u)
    \/ vnode_decref(t) \/ emufs_reclaim(t)
    \/ Regs(t) \/ NoData(t) \/ Oper(t) \/ emu_waitdone(t) \/ Answer(t)
    \/ emufs_loadvnode(t) \/ NoVnode(t)

Next ==
    \/ DeviceActs \/ emu_irq
    \/ \E t \in Thread : Step(t)
    \/ Stopped

Spec == Init /\ [][Next]_vars

-----------------------------------------------------------------------------
TypeOK ==
    /\ mode \in Modes /\ opened \in [Handle -> File \cup {Root, None}]
    /\ e_sem \in 0..1 /\ big.depth \in Nat
    /\ vn \in [Handle -> 0..(Cardinality(Thread) + 1)] /\ fd \in [Thread -> [h : 0..MaxHandle, f : File \cup {None}]]

(* Data stay with their file, and a read returns those of the file that is *)
(* open: no operation is done with the registers, the buffer or the answer *)
(* of another (what is written to a file here is its name).                *)
DataOfFile ==
    /\ \A f \in File : content[f] \in {None, f}
    /\ \A t \in Thread : got[t] \in {None, fd[t].f}

(* A vnode counts the threads that have it open, those about to drop the   *)
(* last reference included, unless a close failed and left it behind       *)
(* (emufs_loadvnode, emufs_reclaim, vnode_decref).                         *)
Users(h) == {t \in Thread : (fd[t] # NoFd /\ fd[t].h = h)
                              \/ (loc[t].h = h /\ (pc[t] = "reclaim" \/ loc[t].of = "reclaim"))}
RefsExact ==
    panicked = "no" =>
        \A h \in Handle : vn[h] = Cardinality(Users(h)) + (IF h = 0 \/ (h \in lost /\ vn[h] > 0) THEN 1 ELSE 0)

(* The handles that are open at the device are those of the vnodes, of the *)
(* operations under way, and those that could not be closed: none is used  *)
(* after it was closed, and none is forgotten.                             *)
InFlight(h) == \E t \in Thread : pc[t] # "idle" /\ (loc[t].h = h \/ dev.handle = h)
HandlesKept ==
    \A h \in Handle : ~InFlight(h) => ((opened[h] # None) <=> (vn[h] > 0 \/ h \in lost))

(* The device never reports a mistake of the driver, and a vnode that is   *)
(* reclaimed is in the table (translate_err, emufs_reclaim).               *)
NoPanic == panicked = "no"

(* When nothing is under way the locks are free, unless memory ran out     *)
(* (emufs_loadvnode).                                                      *)
LocksBack ==
    (\A t \in Thread : pc[t] = "idle") => e_lock = None /\ (big.depth = 0 \/ faulty > 0)
=============================================================================
