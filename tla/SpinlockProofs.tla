--------------------------- MODULE SpinlockProofs ---------------------------
(***************************************************************************)
(* Proofs about Spinlock for every set of processors and locks.            *)
(*                                                                         *)
(* The inductive invariant IInv says who possesses each lock word, and     *)
(* that splk_holder, l_holding, a_waiting, c_spinlocks and the interrupt   *)
(* level all agree with it.                                                *)
(***************************************************************************)
EXTENDS Spinlock, FiniteSetTheorems, TLAPS

(* c has set the word of l and not yet cleared it.                         *)
Possess(c, l) ==
    \/ l \in held[c]
    \/ pc[c] \in {"got", "released", "clear"} /\ lk[c] = l

Acquiring(c) == pc[c] \in {"wait", "spin", "got"}

WordInv == \A l \in Lock : l \in splk_lock <=> \E c \in Cpu : Possess(c, l)

UniqueInv ==
    \A c, d \in Cpu, l \in Lock : Possess(c, l) /\ Possess(d, l) => c = d

LkInv ==
    \A c \in Cpu : IF pc[c] = "run" THEN lk[c] = None
                                    ELSE lk[c] \in Lock /\ lk[c] \notin held[c]

SavedInv ==
    \A c \in Cpu : saved[c] = {} /\ (c \in in_interrupt => t_curspl[c] = 1)

WaitInv ==
    \A c \in Cpu : a_waiting[c] = IF pc[c] \in {"spin", "got"} THEN lk[c] ELSE None

HoldingInv == \A l \in Lock, c \in Cpu : l_holding[l] = c <=> l \in held[c]

HolderInv ==
    \A l \in Lock, c \in Cpu :
       splk_holder[l] = c <=> l \in held[c] \/ (pc[c] = "released" /\ lk[c] = l)

CountInv ==
    \A c \in Cpu : c_spinlocks[c] = Cardinality(held[c]) + IF Acquiring(c) THEN 1 ELSE 0

LockInv == WordInv /\ UniqueInv /\ LkInv /\ WaitInv /\ HoldingInv /\ HolderInv
IntInv  == SavedInv /\ CountInv /\ IplBalanced
IInv    == TypeOK /\ OnlyDeadlockPanics /\ LockInv /\ IntInv

-----------------------------------------------------------------------------
(* A set of locks is finite, so that its cardinality counts it.            *)
LEMMA HeldFinite ==
    ASSUME NEW S \in SUBSET Lock
    PROVE  /\ IsFiniteSet(S)
           /\ Cardinality(S) \in Nat
           /\ Cardinality(S) = 0 <=> S = {}
           /\ \A l \in Lock \ S : Cardinality(S \cup {l}) = Cardinality(S) + 1
           /\ \A l \in S : Cardinality(S \ {l}) = Cardinality(S) - 1
<1>1. IsFiniteSet(S)
  BY ConstAssumption, FS_Subset
<1>2. Cardinality(S) \in Nat
  BY <1>1, FS_CardinalityType
<1>3. Cardinality(S) = 0 <=> S = {}
  BY <1>1, FS_EmptySet
<1>4. \A l \in Lock \ S : Cardinality(S \cup {l}) = Cardinality(S) + 1
  BY <1>1, FS_AddElement
<1>5. \A l \in S : Cardinality(S \ {l}) = Cardinality(S) - 1
  BY <1>1, FS_RemoveElement
<1> QED
  BY <1>1, <1>2, <1>3, <1>4, <1>5

(* With interrupts on, the thread holds no lock and is in no spinlock call. *)
LEMMA IrqOnIdle ==
    ASSUME IInv, NEW c \in Cpu, c \in irqon
    PROVE  held[c] = {} /\ t_curspl[c] = 0 /\ t_iplhigh_count[c] = 0
<1>1. t_iplhigh_count[c] = 0 /\ c_spinlocks[c] = 0 /\ t_curspl[c] = 0
  BY DEF IInv, IntInv, IplBalanced, TypeOK, InRelease
<1>2. Cardinality(held[c]) \in Nat /\ (Cardinality(held[c]) = 0 <=> held[c] = {})
  BY HeldFinite DEF IInv, TypeOK
<1>3. Cardinality(held[c]) = 0
  BY <1>1, <1>2 DEF IInv, IntInv, CountInv
<1> QED
  BY <1>1, <1>2, <1>3

(* Initially every part of the invariant holds.                            *)
LEMMA InitIInv == Init => IInv
<1> SUFFICES ASSUME Init PROVE IInv
  OBVIOUS
<1>1. TypeOK /\ OnlyDeadlockPanics
  BY DEF Init, TypeOK, OnlyDeadlockPanics, Points, Reasons
<1>2. LockInv
  BY ConstAssumption DEF Init, LockInv, WordInv, UniqueInv, LkInv, WaitInv, HoldingInv,
                         HolderInv, Possess
<1>3. Cardinality({}) = 0
  BY FS_EmptySet
<1>4. IntInv
  BY <1>3 DEF Init, IntInv, SavedInv, CountInv, IplBalanced, InRelease, Acquiring
<1> QED
  BY <1>1, <1>2, <1>4 DEF IInv

-----------------------------------------------------------------------------
(* One lemma per group of actions.                                         *)

(* splx changes only the interrupt level.                                  *)
LEMMA SplxStep ==
    ASSUME IInv, NEW c \in Cpu, NEW spl \in {0, 1}, splx(c, spl)
    PROVE  IInv'
<1> USE DEF splx, splraise, spllower
<1>0. t_iplhigh_count' \in [Cpu -> Nat]
  BY DEF IInv, TypeOK, IntInv, IplBalanced, InRelease
<1>1. TypeOK' /\ OnlyDeadlockPanics'
  BY <1>0 DEF IInv, TypeOK, OnlyDeadlockPanics, ctxvars, spinvars
<1>2. LockInv'
  BY DEF IInv, LockInv, WordInv, UniqueInv, LkInv, WaitInv, HoldingInv, HolderInv,
         Possess, ctxvars, spinvars
<1>3. SavedInv' /\ CountInv'
  BY DEF IInv, TypeOK, IntInv, SavedInv, CountInv, Acquiring, ctxvars
<1>4. IplBalanced'
  BY DEF IInv, TypeOK, IntInv, IplBalanced, InRelease, ctxvars
<1> QED
  BY <1>1, <1>2, <1>3, <1>4 DEF IInv, IntInv

(* Taking an interrupt and returning from it: IrqOnIdle rules out both     *)
(* assertions and a suspended context that holds locks.                    *)
LEMMA IrqStep ==
    ASSUME IInv, NEW c \in Cpu, irq_enter(c) \/ irq_return(c)
    PROVE  IInv'
<1>1. CASE irq_enter(c)
  <2>1. held[c] = {} /\ t_curspl[c] = 0 /\ t_iplhigh_count[c] = 0
    BY <1>1, IrqOnIdle DEF irq_enter
  <2> USE <1>1, <2>1 DEF irq_enter
  <2>2. TypeOK' /\ OnlyDeadlockPanics'
    BY DEF IInv, TypeOK, OnlyDeadlockPanics, spinvars
  <2>3. UNCHANGED <<spinvars, pc, lk, held>>
    <3>1. held \in [Cpu -> SUBSET Lock] /\ held' = [held EXCEPT ![c] = {}]
      BY DEF IInv, TypeOK
    <3>2. held' = held
      BY <3>1, <2>1
    <3> QED
      BY <3>2 DEF spinvars
  <2>4. LockInv'
    BY <2>3 DEF IInv, LockInv, WordInv, UniqueInv, LkInv, WaitInv, HoldingInv, HolderInv,
           Possess, spinvars
  <2>5. IntInv'
    BY <2>3 DEF IInv, TypeOK, IntInv, SavedInv, CountInv, IplBalanced, InRelease, Acquiring
  <2> QED
    BY <2>2, <2>4, <2>5 DEF IInv
<1>2. CASE irq_return(c)
  <2>1. Cardinality({}) = 0
    BY FS_EmptySet
  <2>2. t_curspl[c] = 1 /\ t_iplhigh_count[c] = 1
    <3>1. c_spinlocks[c] = 0
      BY <1>2, <2>1 DEF irq_return, IInv, IntInv, CountInv, Acquiring
    <3>2. t_curspl[c] = 1
      BY <1>2 DEF irq_return, IInv, IntInv, SavedInv
    <3> QED
      BY <1>2, <3>1, <3>2 DEF irq_return, IInv, TypeOK, IntInv, IplBalanced, InRelease
  <2> USE <1>2, <2>2 DEF irq_return
  <2>3. UNCHANGED <<spinvars, pc, lk, held, saved, c_spinlocks>>
    <3>1. /\ held \in [Cpu -> SUBSET Lock] /\ held' = [held EXCEPT ![c] = {}]
          /\ saved \in [Cpu -> SUBSET Lock] /\ saved' = [saved EXCEPT ![c] = {}]
          /\ held[c] = {} /\ saved[c] = {}
      BY DEF IInv, TypeOK, IntInv, SavedInv
    <3>2. held' = held /\ saved' = saved
      BY <3>1
    <3> QED
      BY <3>2 DEF spinvars
  <2>4. TypeOK' /\ OnlyDeadlockPanics'
    BY <2>3 DEF IInv, TypeOK, OnlyDeadlockPanics, spinvars
  <2>5. LockInv'
    BY <2>3 DEF IInv, LockInv, WordInv, UniqueInv, LkInv, WaitInv, HoldingInv, HolderInv,
           Possess, spinvars
  <2>6. IntInv'
    BY <2>3 DEF IInv, TypeOK, IntInv, SavedInv, CountInv, IplBalanced, InRelease, Acquiring
  <2> QED
    BY <2>4, <2>5, <2>6 DEF IInv
<1> QED
  BY <1>1, <1>2

(* Starting to acquire: the lock is not held by this cpu, so the check     *)
(* against acquiring it twice passes.                                      *)
LEMMA AcquireStep ==
    ASSUME IInv, NEW c \in Cpu, NEW l \in Lock, spinlock_acquire(c, l)
    PROVE  IInv'
<1>1. splk_holder[l] # c
  BY DEF spinlock_acquire, IInv, LockInv, HolderInv
<1> USE <1>1 DEF spinlock_acquire, splraise
<1>2. TypeOK' /\ OnlyDeadlockPanics'
  BY DEF IInv, TypeOK, OnlyDeadlockPanics, spinvars, Points
<1>3. LockInv'
  <2>1. \A d \in Cpu, k \in Lock : Possess(d, k)' <=> Possess(d, k)
    BY DEF IInv, TypeOK, Possess
  <2>2. WordInv' /\ UniqueInv'
    BY <2>1 DEF IInv, LockInv, WordInv, UniqueInv, spinvars
  <2>3. LkInv' /\ WaitInv' /\ HoldingInv' /\ HolderInv'
    BY DEF IInv, TypeOK, LockInv, LkInv, WaitInv, HoldingInv, HolderInv, spinvars
  <2> QED
    BY <2>2, <2>3 DEF LockInv
<1>4. SavedInv' /\ CountInv'
  <2>1. \A d \in Cpu : Cardinality(held[d]) \in Nat
    BY HeldFinite DEF IInv, TypeOK
  <2> QED
    BY <2>1 DEF IInv, TypeOK, IntInv, SavedInv, CountInv, Acquiring
<1>5. IplBalanced'
  BY DEF IInv, TypeOK, IntInv, IplBalanced, InRelease
<1> QED
  BY <1>2, <1>3, <1>4, <1>5 DEF IInv, IntInv

(* hangman_wait only records the wait; it finds no earlier one.            *)
LEMMA WaitStep ==
    ASSUME IInv, NEW c \in Cpu, hangman_wait(c)
    PROVE  IInv'
<1>1. a_waiting[c] = None /\ lk[c] \in Lock
  BY DEF hangman_wait, IInv, LockInv, WaitInv, LkInv
<1> USE <1>1 DEF hangman_wait
<1>2. TypeOK' /\ OnlyDeadlockPanics'
  BY DEF IInv, TypeOK, OnlyDeadlockPanics, splvars, Points, Reasons
<1>3. LockInv'
  <2>1. \A d \in Cpu, k \in Lock : Possess(d, k)' <=> Possess(d, k)
    BY DEF IInv, TypeOK, Possess
  <2>2. WordInv' /\ UniqueInv'
    BY <2>1 DEF IInv, LockInv, WordInv, UniqueInv
  <2>3. LkInv' /\ WaitInv' /\ HoldingInv' /\ HolderInv'
    BY DEF IInv, TypeOK, LockInv, LkInv, WaitInv, HoldingInv, HolderInv
  <2> QED
    BY <2>2, <2>3 DEF LockInv
<1>4. SavedInv' /\ CountInv'
  BY DEF IInv, TypeOK, IntInv, SavedInv, CountInv, Acquiring, splvars
<1>5. IplBalanced'
  BY DEF IInv, TypeOK, IntInv, IplBalanced, InRelease, splvars
<1> QED
  BY <1>2, <1>3, <1>4, <1>5 DEF IInv, IntInv

(* A word that is clear belongs to nobody, so setting it gives it to c     *)
(* alone.                                                                  *)
LEMMA TestAndSetStep ==
    ASSUME IInv, NEW c \in Cpu, testandset(c)
    PROVE  IInv'
<1> USE DEF testandset
<1>1. lk[c] \in Lock
  BY DEF IInv, LockInv, LkInv
<1>2. TypeOK' /\ OnlyDeadlockPanics'
  BY <1>1 DEF IInv, TypeOK, OnlyDeadlockPanics, splvars, Points
<1>3. LockInv'
  <2>1. \A d \in Cpu : ~Possess(d, lk[c])
    BY <1>1 DEF IInv, LockInv, WordInv
  <2>2. \A d \in Cpu, k \in Lock :
           Possess(d, k)' <=> Possess(d, k) \/ (d = c /\ k = lk[c])
    BY DEF IInv, TypeOK, Possess
  <2>3. WordInv' /\ UniqueInv'
    BY <1>1, <2>1, <2>2 DEF IInv, LockInv, WordInv, UniqueInv
  <2>4. LkInv' /\ WaitInv' /\ HoldingInv' /\ HolderInv'
    BY DEF IInv, TypeOK, LockInv, LkInv, WaitInv, HoldingInv, HolderInv
  <2> QED
    BY <2>3, <2>4 DEF LockInv
<1>4. SavedInv' /\ CountInv'
  BY DEF IInv, TypeOK, IntInv, SavedInv, CountInv, Acquiring, splvars
<1>5. IplBalanced'
  BY DEF IInv, TypeOK, IntInv, IplBalanced, InRelease, splvars
<1> QED
  BY <1>2, <1>3, <1>4, <1>5 DEF IInv, IntInv

(* The tail of spinlock_acquire: c alone possesses the word, so nobody is  *)
(* recorded as holding the lock.                                           *)
LEMMA HangmanAcquireStep ==
    ASSUME IInv, NEW c \in Cpu, hangman_acquire(c)
    PROVE  IInv'
<1>1. lk[c] \in Lock \ held[c] /\ a_waiting[c] = lk[c]
  BY DEF hangman_acquire, IInv, LockInv, LkInv, WaitInv
<1>2. \A d \in Cpu : Possess(d, lk[c]) => d = c
  BY <1>1 DEF hangman_acquire, IInv, LockInv, UniqueInv, Possess
<1>3. l_holding[lk[c]] = None
  BY <1>1, <1>2 DEF IInv, TypeOK, LockInv, HoldingInv, Possess
<1> USE <1>1, <1>3 DEF hangman_acquire
<1>4. TypeOK' /\ OnlyDeadlockPanics'
  BY DEF IInv, TypeOK, OnlyDeadlockPanics, splvars, Points
<1>5. LockInv'
  <2>1. \A d \in Cpu, k \in Lock : Possess(d, k)' <=> Possess(d, k)
    BY DEF IInv, TypeOK, Possess
  <2>2. WordInv' /\ UniqueInv'
    BY <2>1 DEF IInv, LockInv, WordInv, UniqueInv
  <2>3. LkInv' /\ WaitInv'
    BY DEF IInv, TypeOK, LockInv, LkInv, WaitInv
  <2>4. HoldingInv'
    BY <1>2 DEF IInv, TypeOK, LockInv, HoldingInv, Possess
  <2>5. HolderInv'
    BY <1>2 DEF IInv, TypeOK, LockInv, HolderInv, Possess
  <2> QED
    BY <2>2, <2>3, <2>4, <2>5 DEF LockInv
<1>6. SavedInv'
  BY DEF IInv, IntInv, SavedInv, splvars
<1>7. CountInv'
  <2>1. Cardinality(held[c] \cup {lk[c]}) = Cardinality(held[c]) + 1
    BY HeldFinite DEF IInv, TypeOK
  <2>2. Cardinality(held[c]) \in Nat
    BY HeldFinite DEF IInv, TypeOK
  <2>3. held'[c] = held[c] \cup {lk[c]} /\ pc'[c] = "run" /\ c_spinlocks' = c_spinlocks
    BY DEF IInv, TypeOK, splvars
  <2>4. \A d \in Cpu : d # c => held'[d] = held[d] /\ pc'[d] = pc[d]
    BY DEF IInv, TypeOK
  <2>5. c_spinlocks[c] = Cardinality(held[c]) + 1
    BY DEF IInv, IntInv, CountInv, Acquiring
  <2>6. c_spinlocks'[c] = Cardinality(held'[c]) + 0
    BY <2>1, <2>2, <2>3, <2>5
  <2> QED
    BY <2>3, <2>4, <2>6 DEF IInv, IntInv, CountInv, Acquiring
<1>8. IplBalanced'
  BY DEF IInv, TypeOK, IntInv, IplBalanced, InRelease, splvars
<1> QED
  BY <1>4, <1>5, <1>6, <1>7, <1>8 DEF IInv, IntInv

(* spinlock_release by the holder passes its assertions and hangman's.     *)
LEMMA ReleaseStep ==
    ASSUME IInv, NEW c \in Cpu, NEW l \in Lock, spinlock_release(c, l)
    PROVE  IInv'
<1>1. splk_holder[l] = c /\ l_holding[l] = c /\ a_waiting[c] = None /\ l \in held[c]
  BY DEF spinlock_release, IInv, LockInv, HolderInv, HoldingInv, WaitInv
<1>2. /\ Cardinality(held[c] \ {l}) = Cardinality(held[c]) - 1
      /\ \A d \in Cpu : Cardinality(held[d]) \in Nat
      /\ Cardinality(held[c]) # 0
  BY <1>1, HeldFinite DEF IInv, TypeOK
<1>3. c_spinlocks[c] = Cardinality(held[c]) /\ c_spinlocks[c] # 0
  BY <1>2 DEF spinlock_release, IInv, IntInv, CountInv, Acquiring
<1>4. /\ c_spinlocks' = [c_spinlocks EXCEPT ![c] = @ - 1]
      /\ l_holding' = [l_holding EXCEPT ![l] = None]
      /\ held' = [held EXCEPT ![c] = @ \ {l}]
      /\ pc' = [pc EXCEPT ![c] = "released"] /\ pc[c] = "run"
      /\ lk' = [lk EXCEPT ![c] = l]
      /\ UNCHANGED <<splk_lock, splk_holder, a_waiting, t_iplhigh_count, t_curspl,
                     irqon, in_interrupt, saved, panicked>>
  BY <1>1, <1>3 DEF spinlock_release
<1>5. c_spinlocks[c] - 1 \in Nat
  BY <1>2, <1>3
<1>6. TypeOK' /\ OnlyDeadlockPanics'
  BY <1>4, <1>5 DEF IInv, TypeOK, OnlyDeadlockPanics, Points
<1>7. LockInv'
  <2>1. \A d \in Cpu, k \in Lock : Possess(d, k)' <=> Possess(d, k)
    BY <1>1, <1>4 DEF IInv, TypeOK, Possess
  <2>2. WordInv' /\ UniqueInv'
    BY <1>4, <2>1 DEF IInv, LockInv, WordInv, UniqueInv
  <2>3. LkInv' /\ WaitInv'
    BY <1>4 DEF IInv, TypeOK, LockInv, LkInv, WaitInv
  <2>4. \A d \in Cpu, k \in Lock : k \in held'[d] <=> k \in held[d] /\ ~(d = c /\ k = l)
    BY <1>4 DEF IInv, TypeOK
  <2>5. \A d \in Cpu : l \in held[d] => d = c
    BY <1>1 DEF IInv, LockInv, HoldingInv
  <2>6. HoldingInv'
    BY <1>4, <2>4, <2>5, ConstAssumption DEF IInv, TypeOK, LockInv, HoldingInv
  <2>7. \A d \in Cpu, k \in Lock : (pc[d] = "released" /\ lk[d] = k)' <=>
            (pc[d] = "released" /\ lk[d] = k) \/ (d = c /\ k = l)
    BY <1>4 DEF IInv, TypeOK
  <2>8. HolderInv'
    BY <1>1, <1>4, <2>4, <2>7 DEF IInv, LockInv, HolderInv
  <2> QED
    BY <2>2, <2>3, <2>6, <2>8 DEF LockInv
<1>8. SavedInv'
  BY <1>4 DEF IInv, IntInv, SavedInv
<1>9. CountInv'
  <2>1. held'[c] = held[c] \ {l} /\ pc'[c] = "released" /\ c_spinlocks'[c] = c_spinlocks[c] - 1
    BY <1>4 DEF IInv, TypeOK
  <2>2. \A d \in Cpu : d # c => held'[d] = held[d] /\ pc'[d] = pc[d] /\ c_spinlocks'[d] = c_spinlocks[d]
    BY <1>4 DEF IInv, TypeOK
  <2>3. c_spinlocks'[c] = Cardinality(held'[c]) + 0
    BY <1>2, <1>3, <2>1
  <2> QED
    BY <2>1, <2>2, <2>3 DEF IInv, IntInv, CountInv, Acquiring
<1>10. IplBalanced'
  BY <1>2, <1>3, <1>4 DEF IInv, TypeOK, IntInv, IplBalanced, InRelease
<1> QED
  BY <1>6, <1>7, <1>8, <1>9, <1>10 DEF IInv, IntInv

(* The end of spinlock_release: the holder first, then the word.           *)
LEMMA ClearStep ==
    ASSUME IInv, NEW c \in Cpu, clear_holder(c) \/ clear_word(c)
    PROVE  IInv'
<1>1. lk[c] \in Lock \ held[c]
  BY DEF clear_holder, clear_word, IInv, LockInv, LkInv
<1>2. \A d \in Cpu : Possess(d, lk[c]) => d = c
  BY <1>1 DEF clear_holder, clear_word, IInv, LockInv, UniqueInv, Possess
<1>3. CASE clear_holder(c)
  <2> USE <1>1, <1>3 DEF clear_holder
  <2>1. TypeOK' /\ OnlyDeadlockPanics'
    BY DEF IInv, TypeOK, OnlyDeadlockPanics, splvars, Points
  <2>2. \A d \in Cpu, k \in Lock : Possess(d, k)' <=> Possess(d, k)
    BY DEF IInv, TypeOK, Possess
  <2>3. WordInv' /\ UniqueInv'
    BY <2>2 DEF IInv, LockInv, WordInv, UniqueInv
  <2>4. LkInv' /\ WaitInv' /\ HoldingInv'
    BY DEF IInv, TypeOK, LockInv, LkInv, WaitInv, HoldingInv
  <2>5. HolderInv'
    BY <1>2, ConstAssumption DEF IInv, TypeOK, LockInv, HolderInv, Possess
  <2>6. IntInv'
    BY DEF IInv, TypeOK, IntInv, SavedInv, CountInv, IplBalanced, InRelease, Acquiring, splvars
  <2> QED
    BY <2>1, <2>3, <2>4, <2>5, <2>6 DEF IInv, LockInv
<1>4. CASE clear_word(c)
  <2> USE <1>1, <1>4 DEF clear_word, spllower
  <2>0. t_iplhigh_count[c] - 1 \in Nat
    BY DEF IInv, TypeOK, IntInv, IplBalanced, InRelease
  <2>1. TypeOK' /\ OnlyDeadlockPanics'
    BY <2>0 DEF IInv, TypeOK, OnlyDeadlockPanics, Points
  <2>2. \A d \in Cpu, k \in Lock : Possess(d, k)' <=> Possess(d, k) /\ k # lk[c]
    BY <1>2 DEF IInv, TypeOK, Possess
  <2>3. WordInv' /\ UniqueInv'
    BY <2>2 DEF IInv, LockInv, WordInv, UniqueInv
  <2>4. LkInv' /\ WaitInv' /\ HoldingInv' /\ HolderInv'
    BY DEF IInv, TypeOK, LockInv, LkInv, WaitInv, HoldingInv, HolderInv
  <2>5. SavedInv' /\ CountInv'
    BY DEF IInv, TypeOK, IntInv, SavedInv, CountInv, Acquiring
  <2>6. IplBalanced'
    BY DEF IInv, TypeOK, IntInv, IplBalanced, InRelease
  <2> QED
    BY <2>1, <2>3, <2>4, <2>5, <2>6 DEF IInv, LockInv, IntInv
<1> QED
  BY <1>3, <1>4

-----------------------------------------------------------------------------
LEMMA NextIInv == IInv /\ [Next]_vars => IInv'
<1> SUFFICES ASSUME IInv, [Next]_vars PROVE IInv'
  OBVIOUS
<1>1. CASE UNCHANGED vars
  BY <1>1 DEF vars, spinvars, splvars, ctxvars, IInv, TypeOK, OnlyDeadlockPanics, LockInv,
     WordInv, UniqueInv, LkInv, WaitInv, HoldingInv, HolderInv, Possess, IntInv, SavedInv,
     CountInv, IplBalanced, InRelease, Acquiring
<1>2. ASSUME NEW c \in Cpu, splx(c, 0) \/ splx(c, 1)
      PROVE  IInv'
  BY <1>2, SplxStep
<1>3. ASSUME NEW c \in Cpu, irq_enter(c) \/ irq_return(c)
      PROVE  IInv'
  BY <1>3, IrqStep
<1>4. ASSUME NEW c \in Cpu, NEW l \in Lock, spinlock_acquire(c, l) \/ spinlock_release(c, l)
      PROVE  IInv'
  BY <1>4, AcquireStep, ReleaseStep
<1>5. ASSUME NEW c \in Cpu,
             \/ hangman_wait(c) \/ testandset(c) \/ hangman_acquire(c)
             \/ clear_holder(c) \/ clear_word(c)
      PROVE  IInv'
  BY <1>5, WaitStep, TestAndSetStep, HangmanAcquireStep, ClearStep
<1> QED
  BY <1>1, <1>2, <1>3, <1>4, <1>5 DEF Next, halted

(* Every reachable state satisfies the inductive invariant.                *)
THEOREM Invariance == Spec => []IInv
  BY InitIInv, NextIInv, PTL DEF Spec

(* Type correctness of the spinlock model.                                 *)
THEOREM SpinlockType == Spec => []TypeOK
<1>1. IInv => TypeOK
  BY DEF IInv
<1> QED
  BY <1>1, Invariance, PTL

(* At most one context holds a spinlock, for any number of processors.     *)
THEOREM SpinlockMutex == Spec => []MutualExclusion
<1>1. IInv => MutualExclusion
  <2> SUFFICES ASSUME IInv PROVE MutualExclusion
    OBVIOUS
  <2>1. \A c \in Cpu : \A l \in Owned(c) : l \in Lock /\ Possess(c, l)
    BY DEF IInv, TypeOK, LockInv, LkInv, Possess, IntInv, SavedInv, Owned
  <2>2. \A c, d \in Cpu : c # d => Owned(c) \cap Owned(d) = {}
    BY <2>1 DEF IInv, LockInv, UniqueInv
  <2> QED
    BY <2>2 DEF IInv, IntInv, SavedInv, MutualExclusion
<1> QED
  BY <1>1, Invariance, PTL

(* No assertion of the spinlock, spl, trap or hangman code ever fires.     *)
THEOREM NoAssertionFires == Spec => []OnlyDeadlockPanics
<1>1. IInv => OnlyDeadlockPanics
  BY DEF IInv
<1> QED
  BY <1>1, Invariance, PTL

(* Interrupts are on exactly when no raise is outstanding.                 *)
THEOREM InterruptLevel == Spec => []IplBalanced
<1>1. IInv => IplBalanced
  BY DEF IInv, IntInv
<1> QED
  BY <1>1, Invariance, PTL

-----------------------------------------------------------------------------
(* A cpu that spins after a step other than its own hangman_wait was       *)
(* spinning before it, on the same lock and holding the same locks.        *)
LEMMA SpinStable ==
    ASSUME IInv, Next, panicked' = "no", NEW d \in Cpu, pc'[d] = "spin", ~hangman_wait(d)
    PROVE  pc[d] = "spin" /\ lk'[d] = lk[d] /\ held'[d] = held[d]
<1>1. ASSUME NEW c \in Cpu, NEW spl \in {0, 1}, splx(c, spl)
      PROVE  pc[d] = "spin" /\ lk'[d] = lk[d] /\ held'[d] = held[d]
  BY <1>1 DEF splx, ctxvars
<1>2. ASSUME NEW c \in Cpu, irq_enter(c) \/ irq_return(c)
      PROVE  pc[d] = "spin" /\ lk'[d] = lk[d] /\ held'[d] = held[d]
  BY <1>2 DEF irq_enter, irq_return, IInv, TypeOK
<1>3. ASSUME NEW c \in Cpu, NEW l \in Lock, spinlock_acquire(c, l) \/ spinlock_release(c, l)
      PROVE  pc[d] = "spin" /\ lk'[d] = lk[d] /\ held'[d] = held[d]
  BY <1>3 DEF spinlock_acquire, spinlock_release, IInv, TypeOK
<1>4. ASSUME NEW c \in Cpu, hangman_wait(c) \/ testandset(c) \/ hangman_acquire(c)
      PROVE  pc[d] = "spin" /\ lk'[d] = lk[d] /\ held'[d] = held[d]
  BY <1>4 DEF hangman_wait, testandset, hangman_acquire, IInv, TypeOK
<1>5. ASSUME NEW c \in Cpu, clear_holder(c) \/ clear_word(c)
      PROVE  pc[d] = "spin" /\ lk'[d] = lk[d] /\ held'[d] = held[d]
  BY <1>5 DEF clear_holder, clear_word, IInv, TypeOK
<1>6. ~halted
  BY DEF halted, vars
<1> QED
  BY <1>1, <1>2, <1>3, <1>4, <1>5, <1>6 DEF Next

(* If c closes a circle S by starting to wait, the walk of hangman_check   *)
(* finds c: a closed set T that the walk could stay in without meeting c   *)
(* would have left S \cap T deadlocked already.                            *)
LEMMA NextComplete == IInv /\ HangmanComplete /\ [Next]_vars => HangmanComplete'
<1> SUFFICES ASSUME IInv, HangmanComplete, [Next]_vars, panicked' = "no",
                    NEW S \in SUBSET Cpu, Deadlocked(S)'
             PROVE  FALSE
  BY DEF HangmanComplete
<1>1. CASE UNCHANGED vars
  BY <1>1 DEF vars, ctxvars, HangmanComplete, Deadlocked
<1>2. CASE Next
  <2>1. IInv'
    BY NextIInv
  <2>2. panicked = "no"
    BY <1>2 DEF Next, halted, vars, splx, irq_enter, irq_return, spinlock_acquire,
       spinlock_release, hangman_wait, testandset, hangman_acquire, clear_holder, clear_word
  <2>3. \A e \in Cpu : saved[e] = {} /\ saved'[e] = {}
    BY <2>1 DEF IInv, IntInv, SavedInv
  <2>4. CASE \A d \in S : ~hangman_wait(d)
    <3>1. \A d \in S : pc[d] = "spin" /\ lk'[d] = lk[d] /\ held'[d] = held[d]
      BY <1>2, <2>4, SpinStable DEF Deadlocked
    <3>2. Deadlocked(S)
      BY <2>3, <3>1 DEF Deadlocked
    <3> QED
      BY <2>2, <3>2 DEF HangmanComplete
  <2>5. ASSUME NEW c \in S, hangman_wait(c)
        PROVE  FALSE
    <3>1. /\ ~hangman_check(lk[c], c)
          /\ lk' = lk /\ held' = held
          /\ \A d \in Cpu : d # c => pc'[d] = pc[d]
      BY <2>2, <2>5 DEF hangman_wait, IInv, TypeOK
    <3>2. lk[c] \in Lock
      BY <2>5 DEF hangman_wait, IInv, LockInv, LkInv
    <3>3. PICK h \in S : lk[c] \in held[h]
      BY <2>3, <3>1 DEF Deadlocked
    <3>4. l_holding[lk[c]] = h /\ h # None
      BY <3>2, <3>3, ConstAssumption DEF IInv, LockInv, HoldingInv
    <3>5. PICK T \in SUBSET Cpu : h \in T /\ Closed(T) /\ c \notin T
      BY <3>1, <3>4 DEF hangman_check
    <3>6. ASSUME NEW e \in S \cap T
          PROVE  pc[e] = "spin" /\ \E f \in S \cap T : lk[e] \in held[f]
      <4>1. e # c /\ pc[e] = "spin"
        BY <3>1, <3>5, <3>6 DEF Deadlocked
      <4>2. lk[e] \in Lock /\ a_waiting[e] = lk[e] /\ a_waiting[e] # None
        BY <4>1, ConstAssumption DEF IInv, LockInv, LkInv, WaitInv
      <4>3. PICK f \in S : lk[e] \in held[f]
        BY <2>3, <3>1, <3>6 DEF Deadlocked
      <4>4. l_holding[lk[e]] = f /\ f # None
        BY <4>2, <4>3, ConstAssumption DEF IInv, LockInv, HoldingInv
      <4>5. f \in T
        BY <3>5, <3>6, <4>2, <4>4 DEF Closed
      <4> QED
        BY <4>1, <4>3, <4>5
    <3>7. Deadlocked(S \cap T)
      BY <2>3, <3>3, <3>5, <3>6 DEF Deadlocked
    <3> QED
      BY <2>2, <3>7 DEF HangmanComplete
  <2> QED
    BY <2>4, <2>5
<1> QED
  BY <1>1, <1>2

(* Spinning processors never wait for each other in a circle unnoticed:    *)
(* whenever a deadlock has formed, hangman_wait has already panicked.      *)
THEOREM NoMissedDeadlock == Spec => []HangmanComplete
<1>1. Init => HangmanComplete
  BY DEF Init, HangmanComplete, Deadlocked
<1> QED
  BY <1>1, Invariance, NextComplete, PTL DEF Spec

-----------------------------------------------------------------------------
(* The cpus from which the walk of hangman_check ends up at c.             *)
Leads(c) == {e \in Cpu : \A T \in SUBSET Cpu : e \in T /\ Closed(T) => c \in T}

(* When hangman_wait(c) reports a cycle, the processors that lead to c     *)
(* wait for each other.                                                    *)
LEMMA CheckSound ==
    ASSUME IInv, NEW c \in Cpu, pc[c] = "wait", hangman_check(lk[c], c)
    PROVE  \A e \in Leads(c) : /\ pc[e] \in {"wait", "spin"}
                               /\ \E d \in Leads(c) : lk[e] \in held[d]
<1>1. lk[c] \in Lock /\ l_holding[lk[c]] \in Cpu /\ l_holding[lk[c]] \in Leads(c)
  BY DEF IInv, TypeOK, LockInv, LkInv, hangman_check, Leads
<1>2. lk[c] \in held[l_holding[lk[c]]]
  BY <1>1 DEF IInv, LockInv, HoldingInv
<1>3. ASSUME NEW e \in Leads(c), e # c
      PROVE  /\ pc[e] \in {"wait", "spin"}
             /\ \E d \in Leads(c) : lk[e] \in held[d]
  <2>1. e \in Cpu
    BY DEF Leads
  <2> DEFINE f == l_holding[a_waiting[e]]
  <2>2. a_waiting[e] # None /\ f # None
    <3>1. ~Closed({e})
      BY <1>3, <2>1 DEF Leads
    <3> QED
      BY <3>1 DEF Closed
  <2>3. a_waiting[e] = lk[e] /\ lk[e] \in Lock /\ pc[e] \in {"spin", "got"} /\ lk[e] \notin held[e]
    BY <2>1, <2>2 DEF IInv, TypeOK, LockInv, WaitInv, LkInv
  <2>4. f \in Cpu /\ lk[e] \in held[f]
    BY <2>2, <2>3 DEF IInv, TypeOK, LockInv, HoldingInv
  <2>5. pc[e] = "spin"
    BY <2>1, <2>3, <2>4 DEF IInv, LockInv, UniqueInv, Possess
  <2>6. f \in Leads(c)
    <3> SUFFICES ASSUME NEW T \in SUBSET Cpu, f \in T, Closed(T)
                 PROVE  c \in T
      BY <2>4 DEF Leads
    <3>1. Closed(T \cup {e})
      BY DEF Closed
    <3>2. T \cup {e} \in SUBSET Cpu /\ e \in T \cup {e}
      BY <2>1
    <3> QED
      BY <1>3, <3>1, <3>2 DEF Leads
  <2> QED
    BY <2>4, <2>5, <2>6
<1> QED
  BY <1>1, <1>2, <1>3

(* A report of the detector is never a false alarm.                        *)
THEOREM NoFalseDeadlock == Spec => []HangmanSound
<1>1. Init => HangmanSound
  BY DEF Init, HangmanSound
<1>2. IInv /\ HangmanSound /\ [Next]_vars => HangmanSound'
  <2> SUFFICES ASSUME IInv, HangmanSound, [Next]_vars, panicked' = "Deadlock"
               PROVE  HangmanSound'
    BY DEF HangmanSound
  <2>1. CASE UNCHANGED vars
    BY <2>1 DEF vars, ctxvars, HangmanSound
  <2>2. ASSUME NEW c \in Cpu, hangman_wait(c)
        PROVE  HangmanSound'
    <3>1. /\ pc[c] = "wait" /\ hangman_check(lk[c], c)
          /\ pc' = pc /\ lk' = lk /\ held' = held /\ saved' = saved
      BY <2>2 DEF hangman_wait
    <3>2. Leads(c) \in SUBSET Cpu /\ c \in Leads(c)
      BY DEF Leads
    <3> QED
      BY <3>1, <3>2, CheckSound DEF HangmanSound
  <2>3. CASE Next /\ ~\E c \in Cpu : hangman_wait(c)
    BY <2>1, <2>3 DEF Next, halted, splx, irq_enter, irq_return, spinlock_acquire,
       spinlock_release, testandset, hangman_acquire, clear_holder, clear_word
  <2> QED
    BY <2>1, <2>2, <2>3
<1> QED
  BY <1>1, <1>2, Invariance, PTL DEF Spec

=============================================================================
