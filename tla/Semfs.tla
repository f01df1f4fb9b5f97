------------------------------- MODULE Semfs --------------------------------
(***************************************************************************)
(* The semaphore file system (fs/semfs): a directory of named semaphores   *)
(* (semfs_dents), a table of semaphores (semfs_sems) and a table of the    *)
(* vnodes that are loaded (semfs_vnodes).  Reading is P, writing is V.     *)
(*                                                                         *)
(* A thread runs one operation at a time, in the steps between which the   *)
(* tables and the counts are read and written.  Excl says what keeps the   *)
(* steps of two threads apart: "none", since the locks of synch.c are      *)
(* empty; "locks", if they did what semfs uses them for; "serial", if a    *)
(* thread lost the CPU only between operations, while it waits in          *)
(* semfs_read, and between the decision to drop a vnode and its reclaim.   *)
(***************************************************************************)
EXTENDS Integers, Sequences, FiniteSets, FiniteSetsExt, SequencesExt

CONSTANTS
    Thread, Name,
    Excl,        \* "none", "locks" or "serial"
    MaxSems,     \* the length of the table of semaphores (SEMFS_ROOTDIR in the code)
    CountMax,    \* the largest count (UINT_MAX in the code)
    Amount,      \* how much is read, written, and set by truncate
    MaxOps, MaxFaulty

VARIABLES
    sems,        \* semfs_sems: NULL, or [count, hasvnode, linked]
    dents,       \* semfs_dents: NULL, or [name, semnum]
    vn,          \* semfs_vnodes: vn_refcount of the loaded vnodes, 0 for the others
    pc, loc,     \* of every thread: where it is, and its local variables
    fd,          \* the semaphore a thread has open, 0 for none
    bal,         \* ghost: what was written and not yet read, for every semaphore
    ops, faulty, panicked

vars == <<sems, dents, vn, pc, loc, fd, bal, ops, faulty, panicked>>

NULL == [null |-> TRUE]
Num  == 1..MaxSems
Idle == [num |-> 0, new |-> FALSE, at |-> 0, resid |-> 0, take |-> 0, count |-> 0]

Init ==
    /\ sems = << >> /\ dents = << >>
    /\ vn = [i \in Num |-> 0] /\ bal = [i \in Num |-> 0]
    /\ pc = [t \in Thread |-> "idle"] /\ loc = [t \in Thread |-> Idle]
    /\ fd = [t \in Thread |-> 0]
    /\ ops = 0 /\ faulty = 0 /\ panicked = "no"

(* The locks of semfs, and those a thread holds where it is.               *)
dirlock == <<"dir", 0>>
tablelock == <<"table", 0>>
semlock(i) == <<"sem", i>>
HeldBy(u) ==
    CASE pc[u] \in {"getvnode", "opened"} -> {dirlock}
      [] pc[u] = "incref"                 -> {dirlock, tablelock}
      [] pc[u] = "unname"                 -> {dirlock, semlock(loc[u].num)}
      [] pc[u] \in {"untable", "unsem"}   -> {tablelock}
      [] pc[u] \in {"take", "add"}        -> {semlock(fd[u])}
      [] OTHER                            -> {}

Waits(u) == pc[u] = "read" /\ sems[fd[u]] # NULL /\ sems[fd[u]].count = 0

(* Thread t may take a step in which it acquires locks L.                  *)
Cpu(t, L) ==
    /\ panicked = "no"
    /\ Excl = "locks" => \A u \in Thread \ {t} : HeldBy(u) \cap L = {}
    /\ Excl = "serial" => \A u \in Thread \ {t} : pc[u] \in {"idle", "reclaim"} \/ Waits(u)

Begins(t, L) == pc[t] = "idle" /\ Cpu(t, L) /\ ops < MaxOps /\ ops' = ops + 1
At(t, l, L) == pc[t] = l /\ Cpu(t, L) /\ UNCHANGED ops
Goto(t, l, r) == pc' = [pc EXCEPT ![t] = l] /\ loc' = [loc EXCEPT ![t] = r]
Done(t) == Goto(t, "idle", Idle)

NoFault == faulty' = faulty
Fault == faulty < MaxFaulty /\ faulty' = faulty + 1
Fine == panicked' = panicked

-----------------------------------------------------------------------------
(* Open, with or without O_CREAT: find the name, or create semaphore and   *)
(* directory entry; then get the vnode.                                    *)
Slots(s) == {i \in DOMAIN s : s[i] = NULL}
Holds(name) == {i \in DOMAIN dents : dents[i] # NULL /\ dents[i].name = name}
FreeSlot(s) == IF Slots(s) = {} THEN Len(s) + 1 ELSE Min(Slots(s))
Put(s, i, x) == IF i = Len(s) + 1 THEN Append(s, x) ELSE [s EXCEPT ![i] = x]

NewSem == [count |-> 0, hasvnode |-> FALSE, linked |-> FALSE]

semfs_lookup(t, name) ==
    /\ Begins(t, {dirlock}) /\ fd[t] = 0
    /\ \/ Holds(name) = {} /\ Done(t)
       \/ /\ Holds(name) # {}
          /\ Goto(t, "getvnode", [Idle EXCEPT !.num = dents[Min(Holds(name))].semnum])
    /\ NoFault /\ Fine /\ UNCHANGED <<sems, dents, vn, fd, bal>>

CreatFound(t, name, excl) ==
    /\ Begins(t, {dirlock}) /\ fd[t] = 0 /\ Holds(name) # {}
    /\ IF excl THEN Done(t)
       ELSE Goto(t, "getvnode", [Idle EXCEPT !.num = dents[Min(Holds(name))].semnum])
    /\ NoFault /\ Fine /\ UNCHANGED <<sems, dents, vn, fd, bal>>

(* No semaphore number is left; semfs_sem_insert looks at the length of    *)
(* the table only.                                                         *)
CreatFull(t, name) ==
    /\ Begins(t, {dirlock}) /\ fd[t] = 0 /\ Holds(name) = {} /\ Len(sems) = MaxSems
    /\ Done(t) /\ NoFault /\ Fine /\ UNCHANGED <<sems, dents, vn, fd, bal>>

(* The directory entry and the semaphore are both in place.                *)
CreatNew(t, name) ==
    LET i == FreeSlot(sems)
    IN  /\ Begins(t, {dirlock}) /\ fd[t] = 0 /\ Holds(name) = {} /\ Len(sems) < MaxSems
        /\ sems' = Put(sems, i, NewSem)
        /\ dents' = Put(dents, FreeSlot(dents), [name |-> name, semnum |-> i])
        /\ bal' = [bal EXCEPT ![i] = 0]
        /\ Goto(t, "getvnode", [Idle EXCEPT !.num = i, !.new = TRUE, !.at = FreeSlot(dents)])
        /\ NoFault /\ Fine /\ UNCHANGED <<vn, fd>>

(* Out of memory for the semaphore, or for a longer directory: all that    *)
(* was made is taken back.                                                 *)
CreatFails(t, name) ==
    /\ Begins(t, {dirlock}) /\ fd[t] = 0 /\ Holds(name) = {} /\ Len(sems) < MaxSems /\ Fault
    /\ \/ sems' = sems
       \/ /\ FreeSlot(dents) = Len(dents) + 1
          /\ sems' = Put(sems, FreeSlot(sems), NULL)
    /\ Done(t) /\ Fine /\ UNCHANGED <<dents, vn, fd, bal>>

(* Out of memory for the directory entry: the semaphore is taken back, and *)
(* 0 is returned with no vnode, which vfs_open asserts there is.           *)
CreatNoEntry(t, name) ==
    /\ Begins(t, {dirlock}) /\ fd[t] = 0 /\ Holds(name) = {} /\ Len(sems) < MaxSems /\ Fault
    /\ sems' = Put(sems, FreeSlot(sems), NULL)
    /\ panicked' = "vn != NULL"
    /\ Done(t) /\ UNCHANGED <<dents, vn, fd, bal>>

(* semfs_getvnode: the vnode is found in the table, or made.               *)
FindVnode(t) ==
    /\ At(t, "getvnode", {tablelock}) /\ vn[loc[t].num] > 0
    /\ Goto(t, "incref", loc[t])
    /\ NoFault /\ Fine /\ UNCHANGED <<sems, dents, vn, fd, bal>>

IncrefVnode(t) ==
    /\ At(t, "incref", {})
    /\ vn' = [vn EXCEPT ![loc[t].num] = @ + 1]
    /\ Goto(t, "opened", loc[t])
    /\ NoFault /\ Fine /\ UNCHANGED <<sems, dents, fd, bal>>

(* Mistake: the table is not searched.                                     *)
MakeVnode_again(t) ==
    LET i == loc[t].num
    IN  /\ At(t, "getvnode", {tablelock})
        /\ IF sems[i].hasvnode THEN panicked' = "hasvnode == false" /\ UNCHANGED sems
           ELSE sems' = [sems EXCEPT ![i].hasvnode = TRUE] /\ Fine
        /\ vn' = [vn EXCEPT ![i] = 1]
        /\ Goto(t, "opened", loc[t])
        /\ NoFault /\ UNCHANGED <<dents, fd, bal>>

MakeVnode(t) ==
    LET i == loc[t].num
    IN  /\ At(t, "getvnode", {tablelock}) /\ vn[i] = 0
        /\ IF sems[i] = NULL \/ (sems[i] # NULL /\ sems[i].hasvnode)
           THEN panicked' = "hasvnode == false" /\ UNCHANGED sems
           ELSE sems' = [sems EXCEPT ![i].hasvnode = TRUE] /\ Fine
        /\ vn' = [vn EXCEPT ![i] = 1]
        /\ Goto(t, "opened", loc[t])
        /\ NoFault /\ UNCHANGED <<dents, fd, bal>>

(* Out of memory: a semaphore just created goes, with its entry.           *)
NoVnode(t) ==
    LET i == loc[t].num
    IN  /\ At(t, "getvnode", {tablelock}) /\ vn[i] = 0 /\ Fault
        /\ IF loc[t].new
           THEN sems' = [sems EXCEPT ![i] = NULL] /\ dents' = [dents EXCEPT ![loc[t].at] = NULL]
           ELSE UNCHANGED <<sems, dents>>
        /\ Done(t) /\ Fine /\ UNCHANGED <<vn, fd, bal>>

Opened(t) ==
    LET i == loc[t].num
    IN  /\ At(t, "opened", {})
        /\ sems' = IF loc[t].new THEN [sems EXCEPT ![i].linked = TRUE] ELSE sems
        /\ fd' = [fd EXCEPT ![t] = i]
        /\ Done(t) /\ NoFault /\ Fine /\ UNCHANGED <<dents, vn, bal>>

-----------------------------------------------------------------------------
(* Close: drop the reference, and the vnode with the last one.             *)
vnode_decref(t) ==
    /\ Begins(t, {}) /\ fd[t] # 0
    /\ IF vn[fd[t]] > 1
       THEN vn' = [vn EXCEPT ![fd[t]] = @ - 1] /\ fd' = [fd EXCEPT ![t] = 0] /\ Done(t)
       ELSE UNCHANGED <<vn, fd>> /\ Goto(t, "reclaim", [Idle EXCEPT !.num = fd[t]])
    /\ NoFault /\ Fine /\ UNCHANGED <<sems, dents, bal>>

(* Somebody may have found the vnode since: then it stays.                 *)
semfs_reclaim(t) ==
    LET i == loc[t].num
    IN  /\ At(t, "reclaim", {tablelock})
        /\ fd' = [fd EXCEPT ![t] = 0]
        /\ IF vn[i] > 1 THEN vn' = [vn EXCEPT ![i] = @ - 1] /\ Done(t)
           ELSE UNCHANGED vn /\ Goto(t, "untable", loc[t])
        /\ NoFault /\ Fine /\ UNCHANGED <<sems, dents, bal>>

UntableVnode(t) ==
    LET i == loc[t].num
    IN  /\ At(t, "untable", {})
        /\ vn' = [vn EXCEPT ![i] = 0]
        /\ IF sems[i] = NULL \/ (sems[i] # NULL /\ ~sems[i].hasvnode)
           THEN panicked' = "hasvnode" /\ UNCHANGED sems /\ Done(t)
           ELSE /\ sems' = [sems EXCEPT ![i].hasvnode = FALSE] /\ Fine
                /\ Goto(t, "unsem", loc[t])
        /\ NoFault /\ UNCHANGED <<dents, fd, bal>>

(* A semaphore that is in no directory goes with its vnode.                *)
UnlinkedSem(t) ==
    LET i == loc[t].num
    IN  /\ At(t, "unsem", {})
        /\ sems' = IF sems[i] # NULL /\ ~sems[i].linked THEN [sems EXCEPT ![i] = NULL] ELSE sems
        /\ Done(t) /\ NoFault /\ Fine /\ UNCHANGED <<dents, vn, fd, bal>>

(* Remove: the semaphore goes with its name unless its vnode is loaded.    *)
semfs_remove(t, name) ==
    /\ Begins(t, {dirlock, tablelock} \cup {semlock(dents[i].semnum) : i \in Holds(name)})
    /\ \/ Holds(name) = {} /\ Done(t) /\ Fine /\ UNCHANGED sems
       \/ /\ Holds(name) # {}
          /\ LET at == Min(Holds(name))
                 i  == dents[at].semnum
             IN  IF sems[i] = NULL \/ (sems[i] # NULL /\ ~sems[i].linked)
                 THEN panicked' = "sems_linked" /\ Done(t) /\ UNCHANGED sems
                 ELSE /\ sems' = [sems EXCEPT ![i].linked = FALSE] /\ Fine
                      /\ Goto(t, "unname", [Idle EXCEPT !.num = i, !.at = at])
    /\ NoFault /\ UNCHANGED <<dents, vn, fd, bal>>

(* Mistake: the semaphore goes although somebody has it open.              *)
RemoveName_open(t) ==
    /\ At(t, "unname", {})
    /\ sems' = [sems EXCEPT ![loc[t].num] = NULL]
    /\ dents' = [dents EXCEPT ![loc[t].at] = NULL]
    /\ Done(t) /\ NoFault /\ Fine /\ UNCHANGED <<vn, fd, bal>>

RemoveName(t) ==
    LET i == loc[t].num
    IN  /\ At(t, "unname", IF sems[i] # NULL /\ sems[i].hasvnode THEN {} ELSE {tablelock})
        /\ sems' = IF sems[i] # NULL /\ ~sems[i].hasvnode THEN [sems EXCEPT ![i] = NULL] ELSE sems
        /\ dents' = [dents EXCEPT ![loc[t].at] = NULL]
        /\ Done(t) /\ NoFault /\ Fine /\ UNCHANGED <<vn, fd, bal>>

-----------------------------------------------------------------------------
(* P and V.  The count is an unsigned.                                     *)
Width == CountMax + 1
Live(t) == fd[t] # 0 /\ sems[fd[t]] # NULL

semfs_read(t, n) ==
    /\ Begins(t, {tablelock}) /\ Live(t) /\ n <= CountMax
    /\ Goto(t, "read", [Idle EXCEPT !.resid = n])
    /\ NoFault /\ Fine /\ UNCHANGED <<sems, dents, vn, fd, bal>>

(* While the count is 0, cv_wait returns at once and the loop goes round.  *)
ReadSpins(t) == panicked = "no" /\ Waits(t) /\ UNCHANGED vars

ReadTakes(t) ==
    LET c == sems[fd[t]].count
    IN  /\ At(t, "read", {semlock(fd[t])}) /\ Live(t) /\ c > 0
        /\ Goto(t, "take", [loc[t] EXCEPT !.take = Min({loc[t].resid, c}), !.count = c])
        /\ NoFault /\ Fine /\ UNCHANGED <<sems, dents, vn, fd, bal>>

ReadTaken(t) ==
    LET l == loc[t]
    IN  /\ At(t, "take", {}) /\ Live(t)
        /\ sems' = [sems EXCEPT ![fd[t]].count = (l.count - l.take) % Width]
        /\ bal' = [bal EXCEPT ![fd[t]] = @ - l.take]
        /\ IF l.resid = l.take THEN Done(t)
           ELSE Goto(t, "read", [l EXCEPT !.resid = @ - l.take])
        /\ NoFault /\ Fine /\ UNCHANGED <<dents, vn, fd>>

(* A write that would overflow is refused; semfs_wakeup is left with       *)
(* nothing to do by cv_signal and cv_broadcast.                            *)
semfs_write(t, n) ==
    LET c == sems[fd[t]].count
        m == (c + n) % Width
    IN  /\ Begins(t, {tablelock, semlock(fd[t])}) /\ Live(t) /\ n <= CountMax
        /\ IF m < c THEN Done(t) ELSE Goto(t, "add", [Idle EXCEPT !.take = n, !.count = m])
        /\ NoFault /\ Fine /\ UNCHANGED <<sems, dents, vn, fd, bal>>

WriteAdds(t) ==
    /\ At(t, "add", {}) /\ Live(t)
    /\ sems' = [sems EXCEPT ![fd[t]].count = loc[t].count]
    /\ bal' = [bal EXCEPT ![fd[t]] = @ + loc[t].take]
    /\ Done(t) /\ NoFault /\ Fine /\ UNCHANGED <<dents, vn, fd>>

semfs_truncate(t, n) ==
    /\ Begins(t, {tablelock, semlock(fd[t])}) /\ Live(t)
    /\ sems' = IF n > CountMax THEN sems ELSE [sems EXCEPT ![fd[t]].count = n]
    /\ bal' = IF n > CountMax THEN bal ELSE [bal EXCEPT ![fd[t]] = n]
    /\ Done(t) /\ NoFault /\ Fine /\ UNCHANGED <<dents, vn, fd>>

Stopped ==
    /\ panicked # "no" \/ (ops = MaxOps /\ \A t \in Thread : pc[t] = "idle")
    /\ UNCHANGED vars

Step(t) ==
    \/ \E name \in Name :
         \/ semfs_lookup(t, name) \/ CreatFound(t, name, TRUE) \/ CreatFound(t, name, FALSE)
         \/ CreatFull(t, name) \/ CreatNew(t, name) \/ CreatFails(t, name)
         \/ CreatNoEntry(t, name) \/ semfs_remove(t, name)
    \/ FindVnode(t) \/ IncrefVnode(t) \/ MakeVnode(t) \/ NoVnode(t) \/ Opened(t)
    \/ vnode_decref(t) \/ semfs_reclaim(t) \/ UntableVnode(t) \/ UnlinkedSem(t) \/ RemoveName(t)
    \/ \E n \in Amount : semfs_read(t, n) \/ semfs_write(t, n) \/ semfs_truncate(t, n)
    \/ ReadSpins(t) \/ ReadTakes(t) \/ ReadTaken(t) \/ WriteAdds(t)

Next == (\E t \in Thread : Step(t)) \/ Stopped

Spec == Init /\ [][Next]_vars

-----------------------------------------------------------------------------
TypeOK ==
    /\ Len(sems) <= MaxSems
    /\ \A i \in DOMAIN sems : sems[i] = NULL
                               \/ sems[i] \in [count : 0..CountMax, hasvnode : BOOLEAN, linked : BOOLEAN]
    /\ \A i \in DOMAIN dents : dents[i] = NULL \/ dents[i] \in [name : Name, semnum : DOMAIN sems]
    /\ vn \in [Num -> 0..Cardinality(Thread)]
    /\ fd \in [Thread -> 0..MaxSems]

Quiet == panicked = "no" /\ \A t \in Thread : pc[t] \in {"idle", "read", "reclaim"}

(* When no operation is under way, the three tables agree: a semaphore has *)
(* a directory entry exactly if it is linked, and only one; it is marked   *)
(* as having a vnode exactly if that is loaded; and a semaphore with       *)
(* neither has been let go (semfs_remove, semfs_reclaim, semfs_creat and   *)
(* its error paths).                                                       *)
TablesAgree ==
    Quiet => \A i \in DOMAIN sems :
        LET names == {j \in DOMAIN dents : dents[j] # NULL /\ dents[j].semnum = i}
        IN  IF sems[i] = NULL THEN names = {} /\ vn[i] = 0
            ELSE /\ Cardinality(names) = (IF sems[i].linked THEN 1 ELSE 0)
                 /\ sems[i].hasvnode <=> vn[i] > 0
                 /\ sems[i].linked \/ sems[i].hasvnode

(* Nobody is left with a vnode, or a semaphore, that has been freed: not   *)
(* by the last close of somebody else, which reclaims the vnode, nor by a  *)
(* remove, which frees the semaphore if its vnode is not loaded            *)
(* (semfs_getvnode, semfs_reclaim, semfs_remove).                          *)
PointersLive ==
    panicked = "no" =>
        \A t \in Thread : /\ fd[t] # 0 => vn[fd[t]] > 0 /\ sems[fd[t]] # NULL
                          /\ pc[t] = "incref" => vn[loc[t].num] > 0
                          /\ pc[t] \in {"unname", "unsem"} => sems[loc[t].num] # NULL

(* What is in a semaphore is what was written and not yet read: a read     *)
(* takes no more than there is, a write that would overflow adds nothing,  *)
(* and no P or V is lost (semfs_read, semfs_write, semfs_truncate).        *)
CountExact ==
    Quiet => \A i \in DOMAIN sems : sems[i] # NULL /\ vn[i] > 0 => sems[i].count = bal[i]

(* No assertion of semfs fails, and the machine stops only when memory     *)
(* runs out for a directory entry (semfs_creat returns 0 and no vnode).    *)
NoPanic == panicked = "no" \/ (panicked = "vn != NULL" /\ faulty > 0)

(* A semfs_creat that returns 0 has handed back a vnode: vfs_open asserts  *)
(* it.                                                                     *)
CreatHasVnode == panicked # "vn != NULL"
=============================================================================
