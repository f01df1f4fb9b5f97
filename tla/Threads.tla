------------------------------ MODULE Threads -------------------------------
(***************************************************************************)
(* Threads on several cpus (thread.c): run queues, context switches, wait  *)
(* channels, migration and the interrupt that wakes an idle cpu, driven by *)
(* a semaphore (synch.c), the clock (clock.c) and devices whose handlers   *)
(* call V.                                                                 *)
(*                                                                         *)
(* A cpu that holds a spinlock, or is in an interrupt handler, has its     *)
(* interrupts off, so a cpu follows one path at a time, pc[c], and takes   *)
(* an interrupt only where pc[c] is "run", "idle" or (more than one in     *)
(* cpu_idle) "relock".  A step ends where a spinlock is acquired or        *)
(* released, and what runs under a run queue lock is one step, but for     *)
(* migration.                                                              *)
(* c_ipi_lock is held for one access, and is not a variable.  Memory for   *)
(* threads is taken to be there.                                           *)
(***************************************************************************)
EXTENDS Naturals, Sequences, FiniteSets

CONSTANTS
    NCpu,       \* cpus, numbered as in allcpus
    Thread,     \* thread structures
    Boot,       \* by cpu: the thread cpu_create makes for it
    Loads,      \* what the threads may do, see Load
    Shutdown    \* whether the first thread shuts the machine down

Cpus == 1..NCpu
Chan == {"sem", "lbolt"}
Nothing == "none"

(* Bounds on the semaphore, on a clocksleep and on the threads there are   *)
(* at once; and whether forked threads exit.                               *)
Load == [count : Nat, secs : Nat, threads : Nat, exits : BOOLEAN]

ASSUME ThreadsAssumption ==
    /\ NCpu \in Nat \ {0}
    /\ IsFiniteSet(Thread) /\ Nothing \notin Thread
    /\ Boot \in [Cpus -> Thread]
    /\ \A c, d \in Cpus : Boot[c] = Boot[d] => c = d
    /\ Loads \subseteq Load /\ Shutdown \in BOOLEAN

VARIABLES
    load,           \* the one of Loads that is run
    c_curthread, c_isidle, c_runqueue, c_zombies,   \* struct cpu
    c_ipi_pending,  \* inter-processor interrupts noted for a cpu
    ipi,            \* the interrupt line of a cpu
    rq_lock,        \* c_runqueue_lock: the cpu that holds it, or 0
    pc,             \* where a cpu is
    newstate,       \* argument of thread_switch
    chan,           \* the wait channel a cpu works on
    list,           \* threads taken off it, to be made runnable
    mig,            \* thread_consider_migration's variables
    t_state, t_cpu, \* struct thread
    doing,          \* what a thread is in the middle of
    child,          \* newthread of thread_fork
    secs,           \* num_secs of clocksleep
    wc_threads,     \* by wait channel
    wc_lock,        \* its spinlock (sem_lock, lbolt_lock): holder or 0
    sem_count,
    asked           \* cpus ipi_broadcast(IPI_OFFLINE) has been through

cpuvars    == <<load, c_curthread, c_isidle, c_runqueue, c_zombies, rq_lock>>
ipivars    == <<c_ipi_pending, ipi, asked>>
pathvars   == <<pc, newstate, chan, list, mig>>
threadvars == <<t_state, t_cpu, doing, child, secs>>
chanvars   == <<wc_threads, wc_lock, sem_count>>
vars == <<cpuvars, ipivars, pathvars, threadvars, chanvars>>

NoMig == [i |-> 0, total |-> 0, my |-> 0, share |-> 0, send |-> 0, victims |-> <<>>]

Points == {"run", "switch", "idle", "relock", "wake", "clear_ipi", "offline", "halted",
           "count", "take", "give", "back"}

Mig == [i : 0..(NCpu + 1), total : Nat, my : Nat, share : Nat, send : Nat,
        victims : Seq(Thread)]

States == {Nothing, "S_RUN", "S_READY", "S_SLEEP", "S_ZOMBIE"}
Doings == {"hatch", "user", "P", "clocksleep", "fork", "shutdown"}

CpuTypes ==
    /\ load \in Loads
    /\ c_curthread \in [Cpus -> Thread]
    /\ c_isidle \in [Cpus -> BOOLEAN]
    /\ c_runqueue \in [Cpus -> Seq(Thread)]
    /\ c_zombies \in [Cpus -> SUBSET Thread]
    /\ rq_lock \in [Cpus -> 0..NCpu]

IpiTypes ==
    /\ c_ipi_pending \in [Cpus -> SUBSET {"UNIDLE", "OFFLINE"}]
    /\ ipi \in [Cpus -> BOOLEAN]
    /\ asked \in 0..NCpu

PathTypes ==
    /\ pc \in [Cpus -> Points]
    /\ newstate \in [Cpus -> {Nothing, "S_READY", "S_SLEEP", "S_ZOMBIE"}]
    /\ chan \in [Cpus -> Chan \cup {Nothing}]
    /\ list \in [Cpus -> Seq(Thread)]
    /\ mig \in [Cpus -> Mig]

ThreadTypes ==
    /\ t_state \in [Thread -> States]
    /\ t_cpu \in [Thread -> Cpus]
    /\ doing \in [Thread -> Doings]
    /\ child \in [Thread -> Thread \cup {Nothing}]
    /\ secs \in [Thread -> 0..load.secs]

ChanTypes ==
    /\ wc_threads \in [Chan -> Seq(Thread)]
    /\ wc_lock \in [Chan -> 0..NCpu]
    /\ sem_count \in 0..load.count

TypeOK == CpuTypes /\ IpiTypes /\ PathTypes /\ ThreadTypes /\ ChanTypes

(* cpu_create for every cpu: its first thread runs, though thread_create   *)
(* has left it S_READY.  The first thread has returned from                *)
(* thread_start_cpus; the others have come to the end of cpu_hatch.        *)
Init ==
    /\ load \in Loads
    /\ c_curthread = Boot
    /\ c_isidle = [c \in Cpus |-> FALSE]
    /\ c_runqueue = [c \in Cpus |-> <<>>]
    /\ c_zombies = [c \in Cpus |-> {}]
    /\ c_ipi_pending = [c \in Cpus |-> {}]
    /\ ipi = [c \in Cpus |-> FALSE]
    /\ rq_lock = [c \in Cpus |-> 0]
    /\ pc = [c \in Cpus |-> "run"]
    /\ newstate = [c \in Cpus |-> Nothing]
    /\ chan = [c \in Cpus |-> Nothing]
    /\ list = [c \in Cpus |-> <<>>]
    /\ mig = [c \in Cpus |-> NoMig]
    /\ t_state = [t \in Thread |-> IF \E c \in Cpus : Boot[c] = t THEN "S_READY" ELSE Nothing]
    /\ t_cpu = [t \in Thread |-> IF \E c \in Cpus : Boot[c] = t
                                 THEN CHOOSE c \in Cpus : Boot[c] = t ELSE 1]
    /\ doing = [t \in Thread |-> IF t = Boot[1] THEN "user" ELSE "hatch"]
    /\ child = [t \in Thread |-> Nothing]
    /\ secs = [t \in Thread |-> 0]
    /\ wc_threads = [w \in Chan |-> <<>>]
    /\ wc_lock = [w \in Chan |-> 0]
    /\ sem_count = 0
    /\ asked = 0

-----------------------------------------------------------------------------
Goto(c, p) == pc' = [pc EXCEPT ![c] = p]

(* Where a handler returns to: the interrupted thread, or the loop of      *)
(* thread_switch that called cpu_idle.                                     *)
Return(c) == Goto(c, IF c_isidle[c] THEN "relock" ELSE "run")

(* Where interrupts are on.                                                *)
Interruptible(c) == pc[c] \in {"run", "idle", "relock"}

(* The thread that c runs, at a point where it does something by itself.   *)
Runs(c, t, what) == pc[c] = "run" /\ c_curthread[c] = t /\ doing[t] \in what

ipi_send(d, code) ==
    /\ c_ipi_pending' = [c_ipi_pending EXCEPT ![d] = @ \cup {code}]
    /\ ipi' = [ipi EXCEPT ![d] = TRUE]
    /\ UNCHANGED asked

(* Mistake: the other cpu is not interrupted.                              *)
make_runnable_quiet(c, t) ==
    LET d == t_cpu[t] IN
    /\ rq_lock[d] = 0
    /\ t_state' = [t_state EXCEPT ![t] = "S_READY"]
    /\ c_runqueue' = [c_runqueue EXCEPT ![d] = Append(@, t)]
    /\ UNCHANGED ipivars

(* thread_make_runnable(t, false) on cpu c, which takes and releases the   *)
(* run queue lock.                                                         *)
make_runnable(c, t) ==
    LET d == t_cpu[t] IN
    /\ rq_lock[d] = 0
    /\ t_state' = [t_state EXCEPT ![t] = "S_READY"]
    /\ c_runqueue' = [c_runqueue EXCEPT ![d] = Append(@, t)]
    /\ IF c_isidle[d] /\ d # c THEN ipi_send(d, "UNIDLE") ELSE UNCHANGED ipivars

-----------------------------------------------------------------------------
(* Semaphore and clock *)

(* Mistake: the spinlock is released before the thread is on the channel.  *)
wchan_sleep_unlocked(c, w) ==
    /\ chan' = [chan EXCEPT ![c] = w]
    /\ newstate' = [newstate EXCEPT ![c] = "S_SLEEP"]
    /\ Goto(c, "switch")
    /\ UNCHANGED <<list, mig, wc_threads, wc_lock>>

(* wchan_sleep: on to thread_switch, with the channel's spinlock held.     *)
wchan_sleep(c, w) ==
    /\ wc_lock' = [wc_lock EXCEPT ![w] = c]
    /\ chan' = [chan EXCEPT ![c] = w]
    /\ newstate' = [newstate EXCEPT ![c] = "S_SLEEP"]
    /\ Goto(c, "switch")
    /\ UNCHANGED <<list, mig, wc_threads>>

(* P, from the start or from the return of wchan_sleep: both acquire       *)
(* sem_lock and test the count.                                            *)
P(c, t) ==
    /\ load.count > 0 /\ Runs(c, t, {"user", "P"}) /\ wc_lock["sem"] = 0
    /\ IF sem_count = 0
       THEN /\ doing' = [doing EXCEPT ![t] = "P"]
            /\ wchan_sleep(c, "sem")
            /\ UNCHANGED sem_count
       ELSE /\ doing' = [doing EXCEPT ![t] = "user"]
            /\ sem_count' = sem_count - 1
            /\ UNCHANGED <<pathvars, wc_threads, wc_lock>>
    /\ UNCHANGED <<cpuvars, ipivars, t_state, t_cpu, child, secs>>

(* Hold the channel's spinlock and make the threads ts of it runnable.     *)
wake(c, w, ts) ==
    /\ wc_threads' = [wc_threads EXCEPT ![w] = SubSeq(@, Len(ts) + 1, Len(@))]
    /\ IF ts = <<>> THEN Return(c) /\ UNCHANGED <<wc_lock, chan, list>>
       ELSE /\ wc_lock' = [wc_lock EXCEPT ![w] = c]
            /\ chan' = [chan EXCEPT ![c] = w]
            /\ list' = [list EXCEPT ![c] = ts]
            /\ Goto(c, "wake")
    /\ UNCHANGED <<newstate, mig>>

(* V, by the running thread or by a device's interrupt handler:            *)
(* wchan_wakeone takes the first thread off the channel.                   *)
V(c) ==
    /\ Interruptible(c) /\ wc_lock["sem"] = 0 /\ sem_count < load.count
    /\ sem_count' = sem_count + 1
    /\ LET w == wc_threads["sem"] IN wake(c, "sem", SubSeq(w, 1, IF w = <<>> THEN 0 ELSE 1))
    /\ UNCHANGED <<cpuvars, ipivars, threadvars>>

(* timerclock, in the timer's handler: wchan_wakeall takes them all.       *)
timerclock(c) ==
    /\ load.secs > 0 /\ Interruptible(c) /\ wc_lock["lbolt"] = 0
    /\ wake(c, "lbolt", wc_threads["lbolt"])
    /\ UNCHANGED <<cpuvars, ipivars, threadvars, sem_count>>

(* The loops of wchan_wakeone and wchan_wakeall: one thread at a time, and *)
(* the channel's spinlock is released after the last.                      *)
wchan_wake(c) ==
    /\ pc[c] = "wake"
    /\ make_runnable(c, Head(list[c]))
    /\ list' = [list EXCEPT ![c] = Tail(@)]
    /\ IF Len(list[c]) > 1 THEN UNCHANGED <<pc, chan, wc_lock>>
       ELSE /\ wc_lock' = [wc_lock EXCEPT ![chan[c]] = 0]
            /\ chan' = [chan EXCEPT ![c] = Nothing]
            /\ Return(c)
    /\ UNCHANGED <<load, c_curthread, c_isidle, c_zombies, rq_lock, newstate, mig, t_cpu, doing,
                   child, secs, wc_threads, sem_count>>

(* clocksleep: sleeps until num_secs timerclocks have woken it.            *)
clocksleep(c, t) ==
    /\ Runs(c, t, {"user", "clocksleep"}) /\ wc_lock["lbolt"] = 0
    /\ \E n \in IF doing[t] = "user" THEN 1..load.secs ELSE {secs[t] - 1} :
         /\ secs' = [secs EXCEPT ![t] = n]
         /\ IF n > 0
            THEN /\ doing' = [doing EXCEPT ![t] = "clocksleep"]
                 /\ wchan_sleep(c, "lbolt")
            ELSE /\ doing' = [doing EXCEPT ![t] = "user"]
                 /\ UNCHANGED <<pathvars, wc_threads, wc_lock>>
    /\ UNCHANGED <<cpuvars, ipivars, t_state, t_cpu, child, sem_count>>

-----------------------------------------------------------------------------
(* Fork and exit *)

(* thread_fork up to thread_make_runnable; the caller may be preempted and *)
(* migrated before it gets there.                                          *)
thread_fork(c, t, n) ==
    /\ Runs(c, t, {"user"}) /\ t_state[n] = Nothing
    /\ Cardinality({u \in Thread : t_state[u] # Nothing}) < load.threads
    /\ t_state' = [t_state EXCEPT ![n] = "S_READY"]
    /\ t_cpu' = [t_cpu EXCEPT ![n] = t_cpu[t]]
    /\ child' = [child EXCEPT ![t] = n]
    /\ doing' = [doing EXCEPT ![t] = "fork", ![n] = "user"]
    /\ UNCHANGED <<cpuvars, ipivars, pathvars, secs, chanvars>>

fork_runnable(c, t) ==
    /\ Runs(c, t, {"fork"})
    /\ make_runnable(c, child[t])
    /\ child' = [child EXCEPT ![t] = Nothing]
    /\ doing' = [doing EXCEPT ![t] = "user"]
    /\ UNCHANGED <<load, c_curthread, c_isidle, c_zombies, rq_lock, pathvars, t_cpu, secs,
                   chanvars>>

(* thread_exit, at the end of cpu_hatch or of a forked thread; the menu,   *)
(* which the first thread runs, does not return.                           *)
thread_exit(c, t) ==
    /\ Runs(c, t, IF load.exits /\ t # Boot[1] THEN {"hatch", "user"} ELSE {"hatch"})
    /\ newstate' = [newstate EXCEPT ![c] = "S_ZOMBIE"]
    /\ Goto(c, "switch")
    /\ UNCHANGED <<cpuvars, ipivars, chan, list, mig, threadvars, chanvars>>

-----------------------------------------------------------------------------
(* thread_switch *)

(* exorcise destroys the zombies; st are the thread states before.         *)
exorcised(zombies, st) == [t \in Thread |-> IF t \in zombies THEN Nothing ELSE st[t]]

(* Mistake: a zombie is destroyed although the cpu may stay on its stack.  *)
next_exorcise(c, q, st, zombies) ==
    /\ c_zombies' = [c_zombies EXCEPT ![c] = {}]
    /\ IF q = <<>>
       THEN /\ c_runqueue' = [c_runqueue EXCEPT ![c] = q]
            /\ c_isidle' = [c_isidle EXCEPT ![c] = TRUE]
            /\ t_state' = exorcised(zombies, st)
            /\ Goto(c, "idle") /\ UNCHANGED c_curthread
       ELSE /\ c_runqueue' = [c_runqueue EXCEPT ![c] = Tail(q)]
            /\ c_isidle' = [c_isidle EXCEPT ![c] = FALSE]
            /\ c_curthread' = [c_curthread EXCEPT ![c] = Head(q)]
            /\ t_state' = exorcised(zombies, [st EXCEPT ![Head(q)] = "S_RUN"])
            /\ Goto(c, "run")

(* Mistake: the last thread of the run queue is taken.                     *)
next_last(c, q, st, zombies) ==
    IF q = <<>>
    THEN /\ c_runqueue' = [c_runqueue EXCEPT ![c] = q]
         /\ c_isidle' = [c_isidle EXCEPT ![c] = TRUE]
         /\ t_state' = st
         /\ c_zombies' = [c_zombies EXCEPT ![c] = zombies]
         /\ Goto(c, "idle") /\ UNCHANGED c_curthread
    ELSE /\ c_runqueue' = [c_runqueue EXCEPT ![c] = SubSeq(q, 1, Len(q) - 1)]
         /\ c_isidle' = [c_isidle EXCEPT ![c] = FALSE]
         /\ c_curthread' = [c_curthread EXCEPT ![c] = q[Len(q)]]
         /\ t_state' = exorcised(zombies, [st EXCEPT ![q[Len(q)]] = "S_RUN"])
         /\ c_zombies' = [c_zombies EXCEPT ![c] = {}]
         /\ Goto(c, "run")

(* The loop of thread_switch with run queue q: cpu_idle, without the lock  *)
(* and on the stack of the old thread, or on to the first thread, on whose *)
(* stack thread_switch or thread_startup releases the lock and cleans up.  *)
next_thread(c, q, st, zombies) ==
    IF q = <<>>
    THEN /\ c_runqueue' = [c_runqueue EXCEPT ![c] = q]
         /\ c_isidle' = [c_isidle EXCEPT ![c] = TRUE]
         /\ t_state' = st
         /\ c_zombies' = [c_zombies EXCEPT ![c] = zombies]
         /\ Goto(c, "idle") /\ UNCHANGED c_curthread
    ELSE /\ c_runqueue' = [c_runqueue EXCEPT ![c] = Tail(q)]
         /\ c_isidle' = [c_isidle EXCEPT ![c] = FALSE]
         /\ c_curthread' = [c_curthread EXCEPT ![c] = Head(q)]
         /\ t_state' = exorcised(zombies, [st EXCEPT ![Head(q)] = "S_RUN"])
         /\ c_zombies' = [c_zombies EXCEPT ![c] = {}]
         /\ Goto(c, "run")

(* Takes the run queue lock, puts the thread where newstate says and goes  *)
(* on to the next.  The spinlock of the wait channel is released once the  *)
(* thread is on the channel.                                               *)
thread_switch(c) ==
    LET t == c_curthread[c]  w == chan[c]  s == newstate[c]  q == c_runqueue[c]
        st == [t_state EXCEPT ![t] = s]
    IN
    /\ pc[c] = "switch" /\ rq_lock[c] = 0
    /\ newstate' = [newstate EXCEPT ![c] = Nothing]
    /\ chan' = [chan EXCEPT ![c] = Nothing]
    /\ \/ /\ s = "S_READY" /\ q = <<>>
          /\ Goto(c, "run")
          /\ UNCHANGED <<cpuvars, t_state, wc_threads, wc_lock>>
       \/ /\ s = "S_READY" /\ q # <<>>
          /\ next_thread(c, Append(q, t), st, c_zombies[c])
          /\ UNCHANGED <<rq_lock, wc_threads, wc_lock>>
       \/ /\ s = "S_SLEEP"
          /\ wc_threads' = [wc_threads EXCEPT ![w] = Append(@, t)]
          /\ wc_lock' = [wc_lock EXCEPT ![w] = 0]
          /\ next_thread(c, q, st, c_zombies[c])
          /\ UNCHANGED rq_lock
       \/ /\ s = "S_ZOMBIE"
          /\ next_thread(c, q, st, c_zombies[c] \cup {t})
          /\ UNCHANGED <<rq_lock, wc_threads, wc_lock>>
    /\ UNCHANGED <<load, ipivars, list, mig, t_cpu, doing, child, secs, sem_count>>

(* cpu_idle has returned: once more around the loop.                       *)
unidle(c) ==
    /\ pc[c] = "relock" /\ rq_lock[c] = 0
    /\ next_thread(c, c_runqueue[c], t_state, c_zombies[c])
    /\ UNCHANGED <<load, rq_lock, ipivars, newstate, chan, list, mig, t_cpu, doing, child, secs,
                   chanvars>>

-----------------------------------------------------------------------------
(* Clock interrupts and migration *)

(* thread_yield in hardclock, which does nothing on an idle cpu.           *)
Yield(c) ==
    IF c_isidle[c] THEN Goto(c, "relock") /\ UNCHANGED newstate
    ELSE Goto(c, "switch") /\ newstate' = [newstate EXCEPT ![c] = "S_READY"]

(* hardclock; on every MIGRATE_HARDCLOCKS-th call it considers migration.  *)
hardclock(c) ==
    /\ Interruptible(c)
    /\ \/ Yield(c) /\ UNCHANGED mig
       \/ /\ Goto(c, "count") /\ UNCHANGED newstate
          /\ mig' = [mig EXCEPT ![c].i = 1]
    /\ UNCHANGED <<cpuvars, ipivars, chan, list, threadvars, chanvars>>

(* thread_consider_migration counts the threads of one cpu after another,  *)
(* and has nothing to send if its own are fewer than its share.            *)
migration_count(c) ==
    LET m     == mig[c]
        n     == Len(c_runqueue[m.i])
        total == m.total + n
        my    == IF m.i = c THEN n ELSE m.my
        share == (total + NCpu - 1) \div NCpu
    IN /\ pc[c] = "count" /\ rq_lock[m.i] = 0
       /\ \/ /\ m.i < NCpu
             /\ mig' = [mig EXCEPT ![c] = [m EXCEPT !.i = @ + 1, !.total = total, !.my = my]]
             /\ UNCHANGED <<pc, newstate>>
          \/ /\ m.i = NCpu /\ my < share
             /\ mig' = [mig EXCEPT ![c] = NoMig]
             /\ Yield(c)
          \/ /\ m.i = NCpu /\ my >= share
             /\ mig' = [mig EXCEPT ![c] = [NoMig EXCEPT !.share = share, !.send = my - share]]
             /\ Goto(c, "take") /\ UNCHANGED newstate
       /\ UNCHANGED <<cpuvars, ipivars, chan, list, threadvars, chanvars>>

(* The victims, from the tail of its run queue and in their order.         *)
migration_take(c) ==
    LET m == mig[c]  q == c_runqueue[c]  k == Len(q) - m.send IN
    /\ pc[c] = "take" /\ rq_lock[c] = 0
    /\ c_runqueue' = [c_runqueue EXCEPT ![c] = SubSeq(q, 1, k)]
    /\ IF m.send = 0 THEN mig' = [mig EXCEPT ![c] = NoMig] /\ Yield(c)
       ELSE /\ mig' = [mig EXCEPT ![c].victims = SubSeq(q, k + 1, Len(q)), ![c].i = 1]
            /\ Goto(c, "give") /\ UNCHANGED newstate
    /\ UNCHANGED <<load, c_curthread, c_isidle, c_zombies, rq_lock, ipivars, chan, list, threadvars,
                   chanvars>>

(* One victim for cpu d.  The thread that went to sleep on this cpu, was   *)
(* woken, and whose stack the idle loop is still on, stays.                *)
migration_move(c, d) ==
    LET m == mig[c]  t == Head(m.victims) IN
    IF t = c_curthread[c]
    THEN /\ mig' = [mig EXCEPT ![c].victims = Append(Tail(@), t), ![c].send = @ - 1]
         /\ UNCHANGED <<t_cpu, c_runqueue, ipivars>>
    ELSE /\ mig' = [mig EXCEPT ![c].victims = Tail(@), ![c].send = @ - 1]
         /\ t_cpu' = [t_cpu EXCEPT ![t] = d]
         /\ c_runqueue' = [c_runqueue EXCEPT ![d] = Append(@, t)]
         /\ IF c_isidle[d] THEN ipi_send(d, "UNIDLE") ELSE UNCHANGED ipivars

(* The other cpus in turn, each under its lock until it has its share.     *)
migration_give(c) ==
    LET m == mig[c]  d == m.i IN
    /\ pc[c] = "give"
    /\ \/ /\ d <= NCpu /\ m.send > 0 /\ d # c /\ rq_lock[d] \in {0, c}
          /\ IF Len(c_runqueue[d]) < m.share
             THEN migration_move(c, d) /\ rq_lock' = [rq_lock EXCEPT ![d] = c]
             ELSE /\ rq_lock' = [rq_lock EXCEPT ![d] = 0]
                  /\ mig' = [mig EXCEPT ![c].i = d + 1]
                  /\ UNCHANGED <<t_cpu, c_runqueue, ipivars>>
          /\ UNCHANGED pc
       \/ /\ d = c /\ m.send > 0
          /\ mig' = [mig EXCEPT ![c].i = d + 1]
          /\ UNCHANGED <<rq_lock, t_cpu, c_runqueue, ipivars, pc>>
       \/ /\ d > NCpu \/ m.send = 0
          /\ rq_lock' = [e \in Cpus |-> IF e = d /\ rq_lock[e] = c THEN 0 ELSE rq_lock[e]]
          /\ Goto(c, "back")
          /\ UNCHANGED <<mig, t_cpu, c_runqueue, ipivars>>
    /\ UNCHANGED <<load, c_curthread, c_isidle, c_zombies, newstate, chan, list, t_state, doing,
                   child, secs, chanvars>>

(* Mistake: what is left over is dropped.                                  *)
migration_back_drop(c) ==
    /\ pc[c] = "back"
    /\ mig' = [mig EXCEPT ![c] = NoMig]
    /\ Yield(c)
    /\ UNCHANGED <<cpuvars, ipivars, chan, list, threadvars, chanvars>>

(* What is left over goes back on its own run queue.                       *)
migration_back(c) ==
    LET left == mig[c].victims IN
    /\ pc[c] = "back"
    /\ left # <<>> => rq_lock[c] = 0
    /\ c_runqueue' = [c_runqueue EXCEPT ![c] = @ \o left]
    /\ mig' = [mig EXCEPT ![c] = NoMig]
    /\ Yield(c)
    /\ UNCHANGED <<load, c_curthread, c_isidle, c_zombies, rq_lock, ipivars, chan, list, threadvars,
                   chanvars>>

-----------------------------------------------------------------------------
(* Inter-processor interrupts *)

(* Mistake: IPI_OFFLINE is taken inside thread_consider_migration too.     *)
interprocessor_interrupt_migrating(c) ==
    /\ ipi[c]
    /\ Interruptible(c) \/ (pc[c] = "give" /\ "OFFLINE" \in c_ipi_pending[c])
    /\ IF "OFFLINE" \in c_ipi_pending[c]
       THEN Goto(c, "offline") /\ UNCHANGED c_ipi_pending
       ELSE Goto(c, "clear_ipi") /\ c_ipi_pending' = [c_ipi_pending EXCEPT ![c] = {}]
    /\ UNCHANGED <<cpuvars, ipi, asked, newstate, chan, list, mig, threadvars, chanvars>>

(* The pending bits are read and cleared under c_ipi_lock ...              *)
interprocessor_interrupt(c) ==
    /\ Interruptible(c) /\ ipi[c]
    /\ IF "OFFLINE" \in c_ipi_pending[c]
       THEN Goto(c, "offline") /\ UNCHANGED c_ipi_pending
       ELSE Goto(c, "clear_ipi") /\ c_ipi_pending' = [c_ipi_pending EXCEPT ![c] = {}]
    /\ UNCHANGED <<cpuvars, ipi, asked, newstate, chan, list, mig, threadvars, chanvars>>

(* ... and then mainbus_interrupt clears the line.                         *)
lamebus_clear_ipi(c) ==
    /\ pc[c] = "clear_ipi"
    /\ ipi' = [ipi EXCEPT ![c] = FALSE]
    /\ Return(c)
    /\ UNCHANGED <<cpuvars, c_ipi_pending, asked, newstate, chan, list, mig, threadvars, chanvars>>

(* Looks at its run queue, under its lock, for a warning, and halts.       *)
go_offline(c) ==
    /\ pc[c] = "offline" /\ rq_lock[c] = 0
    /\ Goto(c, "halted")
    /\ UNCHANGED <<cpuvars, ipivars, newstate, chan, list, mig, threadvars, chanvars>>

(* One iteration of ipi_broadcast(IPI_OFFLINE), with interrupts on: curcpu *)
(* is the cpu the caller is on now.                                        *)
ipi_broadcast(c) ==
    LET d == asked + 1 IN
    /\ asked < NCpu
    /\ asked' = d
    /\ c_ipi_pending' = IF d = c THEN c_ipi_pending
                        ELSE [c_ipi_pending EXCEPT ![d] = @ \cup {"OFFLINE"}]
    /\ ipi' = [ipi EXCEPT ![d] = @ \/ d # c]

(* thread_shutdown, which the menu calls in the first thread.              *)
thread_shutdown(c, t) ==
    /\ Shutdown /\ t = Boot[1] /\ Runs(c, t, {"user", "shutdown"})
    /\ doing' = [doing EXCEPT ![t] = "shutdown"]
    /\ ipi_broadcast(c)
    /\ UNCHANGED <<cpuvars, pathvars, t_state, t_cpu, child, secs, chanvars>>

(* The end of sys_reboot: the machine is switched off (all cpus) or halted *)
(* (this one).                                                             *)
sys_reboot(c, t) ==
    /\ Runs(c, t, {"shutdown"}) /\ asked = NCpu
    /\ \E S \in {{c}, Cpus} : pc' = [d \in Cpus |-> IF d \in S THEN "halted" ELSE pc[d]]
    /\ UNCHANGED <<cpuvars, ipivars, newstate, chan, list, mig, threadvars, chanvars>>

-----------------------------------------------------------------------------
(* The steps of a cpu that is in the middle of something.                  *)
PathStep(c) ==
    \/ thread_switch(c) \/ unidle(c) \/ wchan_wake(c)
    \/ migration_count(c) \/ migration_take(c) \/ migration_give(c) \/ migration_back(c)
    \/ lamebus_clear_ipi(c) \/ go_offline(c)

ThreadStep(c, t) ==
    \/ P(c, t) \/ clocksleep(c, t)
    \/ \E n \in Thread : thread_fork(c, t, n)
    \/ fork_runnable(c, t) \/ thread_exit(c, t)
    \/ thread_shutdown(c, t) \/ sys_reboot(c, t)

(* Every cpu has stopped.                                                  *)
off == (\A c \in Cpus : pc[c] = "halted") /\ UNCHANGED vars

Next ==
    \/ \E c \in Cpus :
          \/ PathStep(c) \/ hardclock(c) \/ interprocessor_interrupt(c) \/ V(c) \/ timerclock(c)
          \/ \E t \in Thread : ThreadStep(c, t)
    \/ off

Spec == Init /\ [][Next]_vars

(* A cpu gets on, and a spinning one gets the lock some time; interrupts   *)
(* leave cpu_idle time to return; the clock and an inter-processor         *)
(* interrupt stay asserted until they are taken.                           *)
FairSpec ==
    /\ Spec
    /\ \A c \in Cpus : /\ SF_vars(PathStep(c)) /\ SF_vars(unidle(c))
                      /\ SF_vars(hardclock(c)) /\ SF_vars(interprocessor_interrupt(c))

-----------------------------------------------------------------------------
Positions(q, t) == {i \in 1..Len(q) : q[i] = t}

(* Where a thread is: on a cpu, on a run queue or a wait channel, or in    *)
(* the hands of a waker, of thread_consider_migration or of its parent.    *)
Places(t) ==
    UNION {   {<<"cpu", c, 0>> : c \in {c \in Cpus : c_curthread[c] = t /\ ~c_isidle[c]}},
              {<<"zombies", c, 0>> : c \in {c \in Cpus : t \in c_zombies[c]}},
              {<<"child", p, 0>> : p \in {p \in Thread : child[p] = t}},
              UNION {{<<"runqueue", c, i>> : i \in Positions(c_runqueue[c], t)} : c \in Cpus},
              UNION {{<<"list", c, i>> : i \in Positions(list[c], t)} : c \in Cpus},
              UNION {{<<"victims", c, i>> : i \in Positions(mig[c].victims, t)} : c \in Cpus},
              UNION {{<<"wchan", w, i>> : i \in Positions(wc_threads[w], t)} : w \in Chan} }

(* A thread is in exactly one place, and one that was destroyed in none:   *)
(* context switches, wakeups, migration and exorcise, which move threads   *)
(* between the lists of all cpus, neither lose nor copy one.               *)
ThreadOnce ==
    \A t \in Thread : Cardinality(Places(t)) = (IF t_state[t] = Nothing THEN 0 ELSE 1)

(* No two cpus are on the stack of the same thread, and none is on the     *)
(* stack of a thread that exorcise has destroyed: while a cpu idles it     *)
(* stays on the stack of the thread that went to sleep or exited, which    *)
(* may be woken meanwhile and considered for migration (thread.c:890).     *)
StackInUse ==
    \A c \in Cpus :
      /\ t_state[c_curthread[c]] # Nothing
      /\ \A d \in Cpus \ {c} : c_curthread[d] # c_curthread[c]
      /\ \A z \in c_zombies[c] : t_state[z] = "S_ZOMBIE"

(* thread_switch asserts that the current thread belongs to this cpu; so   *)
(* do all threads on its run queue, through every migration.               *)
OwnCpu ==
    \A c \in Cpus :
      /\ t_cpu[c_curthread[c]] = c
      /\ \A i \in 1..Len(c_runqueue[c]) : t_cpu[c_runqueue[c][i]] = c

(* A thread is in one place, running, in one run queue, on one wait        *)
(* channel or on its way; and the queue and processor that have it are     *)
(* those it says it belongs to.                                            *)
ThreadPlaced == ThreadOnce /\ OwnCpu

(* A cpu does not sleep in cpu_idle with threads on its run queue, unless  *)
(* the interrupt that will wake it is already on its line: the queue lock  *)
(* is dropped before cpu_idle (thread.c:630), and lamebus_clear_ipi may    *)
(* clear an interrupt that came after the one handled.                     *)
NoStranded ==
    \A c \in Cpus : pc[c] = "idle" /\ c_runqueue[c] # <<>> => ipi[c]

(* Unless the machine was switched off, a cpu that has gone offline holds  *)
(* no spinlock, and no thread it took off a list, which the others would   *)
(* wait for in vain: IPI_OFFLINE, handled wherever it interrupts           *)
(* (thread.c:1180), halts the cpu in the handler.                          *)
OfflineClean ==
    \A c \in Cpus :
      pc[c] = "halted" /\ (\E d \in Cpus : pc[d] # "halted") =>
        /\ list[c] = <<>> /\ mig[c].victims = <<>>
        /\ \A d \in Cpus : rq_lock[d] # c
        /\ \A w \in Chan : wc_lock[w] # c

(* A thread does not sleep in P while the semaphore has a count that no    *)
(* woken thread is on its way to take: sem_lock is kept until the thread   *)
(* is on the channel (thread.c:607).                                       *)
NoLostWakeup ==
    LET w == wc_threads["sem"]
        onway == {t \in Thread : doing[t] = "P" /\ Positions(w, t) = {}}
    IN  w # <<>> => sem_count <= Cardinality(onway)

(* "If we do nothing, threads will run in round-robin fashion" (schedule,  *)
(* thread.c:825): a thread on a run queue runs some time, whatever forks,  *)
(* preemptions and migrations there are, unless the machine is shut down.  *)
ReadyRuns ==
    \A t \in Thread :
      (\E c \in Cpus : Positions(c_runqueue[c], t) # {})
        ~> (\E c \in Cpus : c_curthread[c] = t /\ ~c_isidle[c]) \/ asked > 0

(* "interprocessor_interrupt is called on the target CPU when an IPI is    *)
(* received" (include/cpu.h:159): a cpu asked to go offline does.          *)
OfflineHonoured ==
    \A c \in Cpus : ("OFFLINE" \in c_ipi_pending[c]) ~> (pc[c] = "halted")

(* "ipi_broadcast sends an IPI to all CPUs except the current one"         *)
(* (include/cpu.h:156): once the first thread has halted its cpu, every    *)
(* other one was asked to go offline.                                      *)
OthersAsked ==
    \A c, d \in Cpus :
      pc[c] = "halted" /\ c_curthread[c] = Boot[1] /\ asked = NCpu /\ ~c_isidle[c] /\ d # c
        => "OFFLINE" \in c_ipi_pending[d] \/ pc[d] = "halted"

=============================================================================
