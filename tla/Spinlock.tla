------------------------------ MODULE Spinlock ------------------------------
(***************************************************************************)
(* Spinlocks (thread/spinlock.c), the interrupt level they manipulate      *)
(* (thread/spl.c and the interrupt branch of mips_trap) and the deadlock   *)
(* detector that watches them (thread/hangman.c, on in conf/GENERIC).      *)
(*                                                                         *)
(* Every CPU runs one thread and, while its interrupts are on, may be      *)
(* interrupted.  Thread code and handler code are arbitrary clients: they  *)
(* acquire locks they do not hold, release locks they do hold, and raise   *)
(* and lower spl, in any order.  One step is the code between two accesses *)
(* to memory another CPU can see.                                          *)
(***************************************************************************)
EXTENDS Naturals, FiniteSets

CONSTANTS
    Cpu,        \* the processors (hangman actors)
    Lock,       \* the spinlocks (hangman lockables)
    None        \* NULL

ASSUME ConstAssumption ==
    /\ IsFiniteSet(Cpu)
    /\ IsFiniteSet(Lock)
    /\ None \notin Cpu
    /\ None \notin Lock

VARIABLES
    splk_lock,          \* the locks whose word splk_lock is 1
    splk_holder,        \* struct spinlock: the cpu that holds it
    l_holding,          \* hangman_lockable: the actor holding it
    a_waiting,          \* hangman_actor: the lockable it waits for
    c_spinlocks,        \* struct cpu: number of spinlocks held
    t_iplhigh_count,    \* struct thread: times IPL_HIGH has been raised
    t_curspl,           \* struct thread: 0 (IPL_NONE) or 1 (IPL_HIGH)
    irqon,              \* the cpus with interrupts enabled (CST_IEc)
    in_interrupt,       \* the cpus inside an interrupt handler
    pc, lk,             \* where the cpu is in a spinlock call, and on which lock
    held,               \* the locks the running context has acquired
    saved,              \* the locks of the context an interrupt suspended
    panicked            \* "no", or why the kernel called panic

spinvars == <<splk_lock, splk_holder, l_holding, a_waiting>>
splvars  == <<c_spinlocks, t_iplhigh_count, t_curspl, irqon>>
ctxvars  == <<in_interrupt, pc, lk, held, saved>>
vars     == <<spinvars, splvars, ctxvars, panicked>>

Points  == {"run", "wait", "spin", "got", "released", "clear"}
Reasons == {"no", "self", "assert", "hangman", "Deadlock"}

TypeOK ==
    /\ splk_lock \in SUBSET Lock
    /\ splk_holder \in [Lock -> Cpu \cup {None}]
    /\ l_holding \in [Lock -> Cpu \cup {None}]
    /\ a_waiting \in [Cpu -> Lock \cup {None}]
    /\ c_spinlocks \in [Cpu -> Nat]
    /\ t_iplhigh_count \in [Cpu -> Nat]
    /\ t_curspl \in [Cpu -> {0, 1}]
    /\ irqon \in SUBSET Cpu
    /\ in_interrupt \in SUBSET Cpu
    /\ pc \in [Cpu -> Points]
    /\ lk \in [Cpu -> Lock \cup {None}]
    /\ held \in [Cpu -> SUBSET Lock]
    /\ saved \in [Cpu -> SUBSET Lock]
    /\ panicked \in Reasons

-----------------------------------------------------------------------------
(* After boot: no lock is held and every thread runs with interrupts on.   *)

Init ==
    /\ splk_lock = {}
    /\ splk_holder = [l \in Lock |-> None]
    /\ l_holding = [l \in Lock |-> None]
    /\ a_waiting = [c \in Cpu |-> None]
    /\ c_spinlocks = [c \in Cpu |-> 0]
    /\ t_iplhigh_count = [c \in Cpu |-> 0]
    /\ t_curspl = [c \in Cpu |-> 0]
    /\ irqon = Cpu
    /\ in_interrupt = {}
    /\ pc = [c \in Cpu |-> "run"]
    /\ lk = [c \in Cpu |-> None]
    /\ held = [c \in Cpu |-> {}]
    /\ saved = [c \in Cpu |-> {}]
    /\ panicked = "no"

-----------------------------------------------------------------------------
(* Interrupt level *)

splraise(c) ==
    /\ irqon' = IF t_iplhigh_count[c] = 0 THEN irqon \ {c} ELSE irqon
    /\ t_iplhigh_count' = [t_iplhigh_count EXCEPT ![c] = @ + 1]

(* Mistake: every lower turns interrupts back on.                          *)
spllower_always(c) ==
    /\ t_iplhigh_count' = [t_iplhigh_count EXCEPT ![c] = @ - 1]
    /\ irqon' = irqon \cup {c}

spllower(c) ==
    /\ t_iplhigh_count' = [t_iplhigh_count EXCEPT ![c] = @ - 1]
    /\ irqon' = IF t_iplhigh_count[c] - 1 = 0 THEN irqon \cup {c} ELSE irqon

(* Mistake: splx to the current level lowers it.                           *)
splx_off_by_one(c, spl) ==
    /\ panicked = "no" /\ pc[c] = "run" /\ c \notin in_interrupt
    /\ \/ t_curspl[c] < spl /\ splraise(c)
       \/ t_curspl[c] >= spl /\ spllower(c)
    /\ t_curspl' = [t_curspl EXCEPT ![c] = spl]
    /\ UNCHANGED <<spinvars, c_spinlocks, ctxvars, panicked>>

(* splx in thread context: s = splhigh() and the splx(s) that undoes it.   *)
splx(c, spl) ==
    /\ panicked = "no" /\ pc[c] = "run" /\ c \notin in_interrupt
    /\ \/ t_curspl[c] < spl /\ splraise(c)
       \/ t_curspl[c] > spl /\ spllower(c)
    /\ t_curspl' = [t_curspl EXCEPT ![c] = spl]
    /\ UNCHANGED <<spinvars, c_spinlocks, ctxvars, panicked>>

(* mips_trap, EX_IRQ: the processor has turned interrupts off; record it.  *)
irq_enter(c) ==
    /\ panicked = "no" /\ pc[c] = "run" /\ c \in irqon
    /\ IF t_curspl[c] = 0 /\ t_iplhigh_count[c] # 0
         THEN panicked' = "assert" /\ UNCHANGED <<splvars, ctxvars>>
         ELSE /\ irqon' = irqon \ {c}
              /\ t_curspl' = [t_curspl EXCEPT ![c] = 1]
              /\ t_iplhigh_count' = [t_iplhigh_count EXCEPT ![c] = @ + 1]
              /\ in_interrupt' = in_interrupt \cup {c}
              /\ saved' = [saved EXCEPT ![c] = held[c]]
              /\ held' = [held EXCEPT ![c] = {}]
              /\ UNCHANGED <<c_spinlocks, pc, lk, panicked>>
    /\ UNCHANGED spinvars

(* ... and the way back, once the handler has released what it took.       *)
irq_return(c) ==
    /\ panicked = "no" /\ pc[c] = "run" /\ c \in in_interrupt /\ held[c] = {}
    /\ IF ~(t_curspl[c] = 1 /\ t_iplhigh_count[c] = 1)
         THEN panicked' = "assert" /\ UNCHANGED <<splvars, ctxvars>>
         ELSE /\ irqon' = irqon \cup {c}
              /\ t_curspl' = [t_curspl EXCEPT ![c] = 0]
              /\ t_iplhigh_count' = [t_iplhigh_count EXCEPT ![c] = @ - 1]
              /\ in_interrupt' = in_interrupt \ {c}
              /\ held' = [held EXCEPT ![c] = saved[c]]
              /\ saved' = [saved EXCEPT ![c] = {}]
              /\ UNCHANGED <<c_spinlocks, pc, lk, panicked>>
    /\ UNCHANGED spinvars

-----------------------------------------------------------------------------
(* hangman.  Each call runs under hangman_lock, so it is one step.         *)

(* The walk of hangman_check visits l_holding of the lockable the current  *)
(* actor waits for; Closed(S) says that the walk cannot leave S.           *)
Closed(S) ==
    \A a \in S : a_waiting[a] # None /\ l_holding[a_waiting[a]] # None
                    => l_holding[a_waiting[a]] \in S

(* Mistakes: the walk stops after one hop; any waiting holder is a cycle.  *)
hangman_check_one_hop(start, target) ==
    LET h == l_holding[start] IN
      h # None /\ a_waiting[h] # None /\ l_holding[a_waiting[h]] = target

hangman_check_waiting(start, target) ==
    l_holding[start] # None /\ a_waiting[l_holding[start]] # None

(* hangman_check(start, target) reaches "found".                           *)
hangman_check(start, target) ==
    /\ l_holding[start] # None
    /\ \A S \in SUBSET Cpu : l_holding[start] \in S /\ Closed(S) => target \in S

hangman_wait(c) ==
    /\ panicked = "no" /\ pc[c] = "wait"
    /\ IF a_waiting[c] # None
         THEN panicked' = "hangman" /\ UNCHANGED <<a_waiting, pc>>
         ELSE IF hangman_check(lk[c], c)
         THEN panicked' = "Deadlock" /\ UNCHANGED <<a_waiting, pc>>
         ELSE /\ a_waiting' = [a_waiting EXCEPT ![c] = lk[c]]
              /\ pc' = [pc EXCEPT ![c] = "spin"]
              /\ UNCHANGED panicked
    /\ UNCHANGED <<splk_lock, splk_holder, l_holding, splvars,
                   in_interrupt, lk, held, saved>>

-----------------------------------------------------------------------------
(* spinlock_acquire *)

(* Up to HANGMAN_WAIT: interrupts off, the check against acquiring twice.  *)
spinlock_acquire(c, l) ==
    /\ panicked = "no" /\ pc[c] = "run" /\ l \notin held[c]
    /\ splraise(c)
    /\ IF splk_holder[l] = c
         THEN panicked' = "self" /\ UNCHANGED <<c_spinlocks, pc, lk>>
         ELSE /\ c_spinlocks' = [c_spinlocks EXCEPT ![c] = @ + 1]
              /\ pc' = [pc EXCEPT ![c] = "wait"]
              /\ lk' = [lk EXCEPT ![c] = l]
              /\ UNCHANGED panicked
    /\ UNCHANGED <<spinvars, t_curspl, in_interrupt, held, saved>>

(* Mistake: the word is written without looking at what it was.            *)
testandset_blind(c) ==
    /\ panicked = "no" /\ pc[c] = "spin"
    /\ splk_lock' = splk_lock \cup {lk[c]}
    /\ pc' = [pc EXCEPT ![c] = "got"]
    /\ UNCHANGED <<splk_holder, l_holding, a_waiting, splvars,
                   in_interrupt, lk, held, saved, panicked>>

(* spinlock_data_testandset on a word that was 0; while it is 1 the cpu    *)
(* spins, which changes nothing.                                           *)
testandset(c) ==
    /\ panicked = "no" /\ pc[c] = "spin"
    /\ lk[c] \notin splk_lock
    /\ splk_lock' = splk_lock \cup {lk[c]}
    /\ pc' = [pc EXCEPT ![c] = "got"]
    /\ UNCHANGED <<splk_holder, l_holding, a_waiting, splvars,
                   in_interrupt, lk, held, saved, panicked>>

(* The tail of spinlock_acquire: splk_holder, then hangman_acquire.        *)
hangman_acquire(c) ==
    /\ panicked = "no" /\ pc[c] = "got"
    /\ splk_holder' = [splk_holder EXCEPT ![lk[c]] = c]
    /\ IF a_waiting[c] # lk[c] \/ l_holding[lk[c]] # None
         THEN panicked' = "hangman" /\ UNCHANGED <<l_holding, a_waiting, pc, lk, held>>
         ELSE /\ l_holding' = [l_holding EXCEPT ![lk[c]] = c]
              /\ a_waiting' = [a_waiting EXCEPT ![c] = None]
              /\ held' = [held EXCEPT ![c] = @ \cup {lk[c]}]
              /\ pc' = [pc EXCEPT ![c] = "run"]
              /\ lk' = [lk EXCEPT ![c] = None]
              /\ UNCHANGED panicked
    /\ UNCHANGED <<splk_lock, splvars, in_interrupt, saved>>

-----------------------------------------------------------------------------
(* spinlock_release *)

(* Mistake: the word is cleared before the holder.                         *)
spinlock_release_early(c, l) ==
    /\ panicked = "no" /\ pc[c] = "run" /\ l \in held[c]
    /\ IF splk_holder[l] # c
         THEN panicked' = "assert" /\ UNCHANGED <<splk_lock, c_spinlocks, l_holding, pc, lk, held>>
         ELSE /\ splk_lock' = splk_lock \ {l}
              /\ c_spinlocks' = [c_spinlocks EXCEPT ![c] = @ - 1]
              /\ l_holding' = [l_holding EXCEPT ![l] = None]
              /\ held' = [held EXCEPT ![c] = @ \ {l}]
              /\ pc' = [pc EXCEPT ![c] = "released"]
              /\ lk' = [lk EXCEPT ![c] = l]
              /\ UNCHANGED panicked
    /\ UNCHANGED <<splk_holder, a_waiting, t_iplhigh_count, t_curspl,
                   irqon, in_interrupt, saved>>

(* Up to HANGMAN_RELEASE.                                                  *)
spinlock_release(c, l) ==
    /\ panicked = "no" /\ pc[c] = "run" /\ l \in held[c]
    /\ IF splk_holder[l] # c \/ c_spinlocks[c] = 0
         THEN panicked' = "assert" /\ UNCHANGED <<c_spinlocks, l_holding, pc, lk, held>>
         ELSE IF a_waiting[c] # None \/ l_holding[l] # c
         THEN panicked' = "hangman" /\ UNCHANGED <<c_spinlocks, l_holding, pc, lk, held>>
         ELSE /\ c_spinlocks' = [c_spinlocks EXCEPT ![c] = @ - 1]
              /\ l_holding' = [l_holding EXCEPT ![l] = None]
              /\ held' = [held EXCEPT ![c] = @ \ {l}]
              /\ pc' = [pc EXCEPT ![c] = "released"]
              /\ lk' = [lk EXCEPT ![c] = l]
              /\ UNCHANGED panicked
    /\ UNCHANGED <<splk_lock, splk_holder, a_waiting, t_iplhigh_count, t_curspl,
                   irqon, in_interrupt, saved>>

clear_holder(c) ==
    /\ panicked = "no" /\ pc[c] = "released"
    /\ splk_holder' = [splk_holder EXCEPT ![lk[c]] = None]
    /\ pc' = [pc EXCEPT ![c] = "clear"]
    /\ UNCHANGED <<splk_lock, l_holding, a_waiting, splvars,
                   in_interrupt, lk, held, saved, panicked>>

clear_word(c) ==
    /\ panicked = "no" /\ pc[c] = "clear"
    /\ splk_lock' = splk_lock \ {lk[c]}
    /\ spllower(c)
    /\ pc' = [pc EXCEPT ![c] = "run"]
    /\ lk' = [lk EXCEPT ![c] = None]
    /\ UNCHANGED <<splk_holder, l_holding, a_waiting, c_spinlocks, t_curspl,
                   in_interrupt, held, saved, panicked>>

-----------------------------------------------------------------------------
(* panic: the machine stops.                                               *)
halted == panicked # "no" /\ UNCHANGED vars

Next ==
    \/ \E c \in Cpu :
          \/ splx(c, 0)
          \/ splx(c, 1)
          \/ irq_enter(c)
          \/ irq_return(c)
          \/ \E l \in Lock : spinlock_acquire(c, l) \/ spinlock_release(c, l)
          \/ hangman_wait(c)
          \/ testandset(c)
          \/ hangman_acquire(c)
          \/ clear_holder(c)
          \/ clear_word(c)
    \/ halted

Spec == Init /\ [][Next]_vars

-----------------------------------------------------------------------------
(* Properties *)

(* The locks cpu c owns: those its thread and its handler hold, and the    *)
(* one whose word it has just set.                                         *)
Owned(c) ==
    held[c] \cup saved[c] \cup (IF pc[c] = "got" THEN {lk[c]} ELSE {})

(* A lock has one owner from the moment spinlock_acquire leaves its loop   *)
(* until spinlock_release: never two processors, never a thread and the    *)
(* handler that interrupted it.                                            *)
MutualExclusion ==
    /\ \A c, d \in Cpu : c # d => Owned(c) \cap Owned(d) = {}
    /\ \A c \in Cpu : held[c] \cap saved[c] = {}

(* None of the assertions of spinlock_acquire, spinlock_release, mips_trap *)
(* and hangman fires, whatever the clients do: not "Deadlock on spinlock"  *)
(* (a handler finding the lock its own cpu holds), not a release by a      *)
(* non-holder, not a leaked spl, not an inconsistent waits-for graph.  The *)
(* only panic is the detector reporting a cycle.                           *)
OnlyDeadlockPanics == panicked \in {"no", "Deadlock"}

(* Interrupts go off on the first raise and on again only on the last      *)
(* lower (comment in spl.c), although acquisitions, releases and spl calls *)
(* need not nest: the count is one per spinlock being acquired, held or    *)
(* released plus one for spl, and interrupts are on exactly when it is 0.  *)
InRelease(c) == IF pc[c] \in {"released", "clear"} THEN 1 ELSE 0

IplBalanced ==
    \A c \in Cpu :
      /\ t_iplhigh_count[c] = c_spinlocks[c] + t_curspl[c] + InRelease(c)
      /\ c \in irqon <=> t_iplhigh_count[c] = 0

(* The processors of S are deadlocked: each spins on a lock that belongs   *)
(* to a processor of S.                                                    *)
Deadlocked(S) ==
    /\ S # {}
    /\ \A c \in S : pc[c] = "spin" /\ \E d \in S : lk[c] \in held[d] \cup saved[d]

(* The detector misses no deadlock: spinning processors that wait for each *)
(* other in a circle have always made hangman_wait panic before.           *)
HangmanComplete ==
    panicked = "no" => \A S \in SUBSET Cpu : ~Deadlocked(S)

(* The detector reports no false cycle: when it panics, some processors    *)
(* wait for each other (one of them is the caller, about to spin).         *)
HangmanSound ==
    panicked = "Deadlock" =>
      \E S \in SUBSET Cpu :
        /\ \E c \in S : pc[c] = "wait"
        /\ \A c \in S : /\ pc[c] \in {"wait", "spin"}
                        /\ \E d \in S : lk[c] \in held[d] \cup saved[d]

=============================================================================
