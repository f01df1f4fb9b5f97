---------------------------- MODULE ThreadsSteps ----------------------------
(***************************************************************************)
(* Lists of threads, and the steps of Threads that keep IInv: what a       *)
(* thread does, waking, forking, and taking the next thread.               *)
(***************************************************************************)
EXTENDS ThreadsInv, TLAPS

-----------------------------------------------------------------------------
(* Lists of threads *)

(* The elements of a list are threads, and only the empty one has none.    *)
LEMMA ListElems ==
    ASSUME NEW q \in Seq(Thread)
    PROVE  /\ Elems(q) \subseteq Thread
           /\ q = <<>> <=> Elems(q) = {}
           /\ q # <<>> => Head(q) \in Elems(q)
<1>1. \A i \in 1..Len(q) : q[i] \in Thread
  OBVIOUS
<1>2. q # <<>> => 1 \in 1..Len(q) /\ Head(q) = q[1]
  OBVIOUS
<1>3. Len(<<>>) = 0
  BY Zenon
<1> QED
  BY <1>1, <1>2, <1>3 DEF Elems

(* Adding a thread at the end.                                             *)
LEMMA AppendElems ==
    ASSUME NEW q \in Seq(Thread), NEW t \in Thread
    PROVE  /\ Append(q, t) \in Seq(Thread)
           /\ Len(Append(q, t)) = Len(q) + 1
           /\ Elems(Append(q, t)) = Elems(q) \cup {t}
           /\ NoDup(q) /\ t \notin Elems(q) => NoDup(Append(q, t))
<1> DEFINE r == Append(q, t)
<1>1. /\ r \in Seq(Thread) /\ Len(r) = Len(q) + 1
      /\ \A i \in 1..Len(q) : r[i] = q[i]
      /\ r[Len(q) + 1] = t
  OBVIOUS
<1>2. Len(q) \in Nat
  OBVIOUS
<1> HIDE DEF r
<1>3. Elems(r) = Elems(q) \cup {t}
  BY <1>1, <1>2 DEF Elems
<1>4. NoDup(q) /\ t \notin Elems(q) => NoDup(r)
  BY <1>1, <1>2 DEF Elems, NoDup
<1> QED
  BY Zenon, <1>1, <1>3, <1>4 DEF r

(* Splitting a list in two.                                                *)
LEMMA SplitElems ==
    ASSUME NEW q \in Seq(Thread), NEW k \in 0..Len(q)
    PROVE  LET a == SubSeq(q, 1, k)  b == SubSeq(q, k + 1, Len(q)) IN
           /\ a \in Seq(Thread) /\ Len(a) = k
           /\ b \in Seq(Thread) /\ Len(b) = Len(q) - k
           /\ Elems(a) \cup Elems(b) = Elems(q)
           /\ NoDup(q) => NoDup(a) /\ NoDup(b) /\ Elems(a) \cap Elems(b) = {}
<1> DEFINE a == SubSeq(q, 1, k)  b == SubSeq(q, k + 1, Len(q))
<1>1. Len(q) \in Nat /\ \A i \in 1..Len(q) : q[i] \in Thread
  OBVIOUS
<1>2. /\ a \in Seq(Thread) /\ Len(a) = k
      /\ \A i \in 1..k : a[i] = q[i]
  BY <1>1
<1>3. /\ b \in Seq(Thread) /\ Len(b) = Len(q) - k
      /\ \A i \in 1..(Len(q) - k) : b[i] = q[k + i]
  <2>1. \A i \in (k + 1)..Len(q) : q[i] \in Thread
    BY <1>1
  <2>2. /\ b \in Seq(Thread)
        /\ Len(b) = IF k + 1 <= Len(q) THEN Len(q) - (k + 1) + 1 ELSE 0
        /\ \A i \in 1..(Len(q) - (k + 1) + 1) : b[i] = q[(k + 1) + i - 1]
    BY <1>1, <2>1
  <2> HIDE DEF b
  <2> QED
    BY <1>1, <2>2
<1> HIDE DEF a, b
<1>4. Elems(a) \cup Elems(b) = Elems(q)
  <2>1. ASSUME NEW i \in 1..Len(q) PROVE q[i] \in Elems(a) \cup Elems(b)
    <3>1. CASE i <= k
      BY <3>1, <1>2 DEF Elems
    <3>2. CASE i > k
      <4>1. i - k \in 1..(Len(q) - k) /\ b[i - k] = q[i]
        BY <1>1, <1>3, <3>2
      <4> QED BY Zenon, <4>1, <1>3 DEF Elems
    <3> QED BY <3>1, <3>2, <1>1
  <2>2. ASSUME NEW i \in 1..Len(a) PROVE a[i] \in Elems(q)
    BY <1>1, <1>2 DEF Elems
  <2>3. ASSUME NEW i \in 1..Len(b) PROVE b[i] \in Elems(q)
    <3>1. k + i \in 1..Len(q) /\ b[i] = q[k + i]
      BY <1>1, <1>3
    <3> QED BY Zenon, <3>1 DEF Elems
  <2> QED
    BY Zenon, <2>1, <2>2, <2>3 DEF Elems
<1>5. ASSUME NoDup(q) PROVE NoDup(a) /\ NoDup(b) /\ Elems(a) \cap Elems(b) = {}
  <2>1. NoDup(a)
    BY <1>1, <1>2, <1>5 DEF NoDup
  <2>2. NoDup(b)
    BY <1>1, <1>3, <1>5 DEF NoDup
  <2>3. ASSUME NEW i \in 1..Len(a), NEW j \in 1..Len(b) PROVE a[i] # b[j]
    <3>1. k + j \in 1..Len(q) /\ b[j] = q[k + j] /\ i \in 1..Len(q) /\ i # k + j
      BY <1>1, <1>2, <1>3
    <3> QED BY Zenon, <3>1, <1>2, <1>5 DEF NoDup
  <2> QED
    BY Zenon, <2>1, <2>2, <2>3 DEF Elems
<1> QED
  BY Zenon, <1>2, <1>3, <1>4, <1>5 DEF a, b

(* Taking the first thread off.                                            *)
LEMMA TailElems ==
    ASSUME NEW q \in Seq(Thread), q # <<>>
    PROVE  /\ Head(q) \in Thread
           /\ Tail(q) \in Seq(Thread)
           /\ Len(q) > 0 /\ Len(Tail(q)) = Len(q) - 1
           /\ Elems(q) = Elems(Tail(q)) \cup {Head(q)}
           /\ NoDup(q) => NoDup(Tail(q)) /\ Head(q) \notin Elems(Tail(q))
<1> DEFINE r == Tail(q)
<1>1. /\ Head(q) \in Thread /\ r \in Seq(Thread) /\ Len(r) = Len(q) - 1
      /\ \A i \in 1..Len(r) : r[i] = q[i + 1]
      /\ Head(q) = q[1]
  OBVIOUS
<1>2. Len(q) \in Nat /\ Len(q) > 0
  OBVIOUS
<1> HIDE DEF r
<1>3. Elems(q) = Elems(r) \cup {Head(q)}
  <2>1. ASSUME NEW i \in 1..Len(q) PROVE q[i] \in Elems(r) \cup {Head(q)}
    <3>1. CASE i = 1
      BY Zenon, <3>1, <1>1
    <3>2. CASE i # 1
      <4>1. i - 1 \in 1..Len(r) /\ r[i - 1] = q[i]
        BY <1>1, <1>2, <3>2
      <4> QED BY Zenon, <4>1 DEF Elems
    <3> QED BY Zenon, <3>1, <3>2
  <2>2. ASSUME NEW i \in 1..Len(r) PROVE r[i] \in Elems(q)
    BY <1>1, <1>2 DEF Elems
  <2>3. Head(q) \in Elems(q)
    BY <1>1, <1>2 DEF Elems
  <2> QED
    BY Zenon, <2>1, <2>2, <2>3 DEF Elems
<1>4. NoDup(q) => NoDup(r) /\ Head(q) \notin Elems(r)
  BY <1>1, <1>2 DEF Elems, NoDup
<1> QED
  BY Zenon, <1>1, <1>2, <1>3, <1>4 DEF r

(* Joining two lists.                                                      *)
LEMMA ConcatElems ==
    ASSUME NEW a \in Seq(Thread), NEW b \in Seq(Thread)
    PROVE  /\ a \o b \in Seq(Thread)
           /\ Len(a \o b) = Len(a) + Len(b)
           /\ Elems(a \o b) = Elems(a) \cup Elems(b)
           /\ NoDup(a) /\ NoDup(b) /\ Elems(a) \cap Elems(b) = {} => NoDup(a \o b)
<1> DEFINE r == a \o b
<1>1. /\ r \in Seq(Thread) /\ Len(r) = Len(a) + Len(b)
      /\ \A i \in 1..(Len(a) + Len(b)) : r[i] = IF i <= Len(a) THEN a[i] ELSE b[i - Len(a)]
  OBVIOUS
<1>2. Len(a) \in Nat /\ Len(b) \in Nat
  OBVIOUS
<1> HIDE DEF r
<1>3. ASSUME NEW i \in 1..Len(r)
      PROVE  \/ i \in 1..Len(a) /\ r[i] = a[i]
             \/ i - Len(a) \in 1..Len(b) /\ r[i] = b[i - Len(a)]
  BY <1>1, <1>2
<1>4. Elems(r) = Elems(a) \cup Elems(b)
  <2>1. ASSUME NEW i \in 1..Len(a) PROVE a[i] \in Elems(r)
    <3>1. i \in 1..(Len(a) + Len(b)) /\ i <= Len(a)
      BY <1>2
    <3>2. i \in 1..Len(r) /\ r[i] = a[i]
      BY Zenon, <1>1, <3>1
    <3> QED BY Zenon, <3>2 DEF Elems
  <2>2. ASSUME NEW i \in 1..Len(b) PROVE b[i] \in Elems(r)
    <3>1. /\ Len(a) + i \in 1..(Len(a) + Len(b))
          /\ ~(Len(a) + i <= Len(a)) /\ Len(a) + i - Len(a) = i
      BY <1>2
    <3>2. Len(a) + i \in 1..Len(r) /\ r[Len(a) + i] = b[i]
      BY <1>1, <3>1
    <3> QED BY Zenon, <3>2 DEF Elems
  <2> QED
    BY Zenon, <1>3, <2>1, <2>2 DEF Elems
<1>5. ASSUME NoDup(a), NoDup(b), Elems(a) \cap Elems(b) = {} PROVE NoDup(r)
  <2> SUFFICES ASSUME NEW i \in 1..Len(r), NEW j \in 1..Len(r), r[i] = r[j] PROVE i = j
    BY Zenon DEF NoDup
  <2>1. \A k \in 1..Len(a), l \in 1..Len(b) : a[k] # b[l]
    BY Zenon, <1>5 DEF Elems
  <2> QED
    BY <1>2, <1>3, <1>5, <2>1 DEF NoDup
<1> QED
  BY Zenon, <1>1, <1>4, <1>5 DEF r

-----------------------------------------------------------------------------
(* Types *)

(* How cpus are numbered: 0 stands for none.                               *)
LEMMA CpuFacts == 0 \notin Cpus /\ 1 \in Cpus /\ \A c \in Cpus : c \in Nat /\ c \in 0..NCpu
BY ThreadsAssumption DEF Cpus

(* What loads are.                                                         *)
LEMMA LoadFacts ==
    ASSUME TypeOK
    PROVE  load.count \in Nat /\ load.secs \in Nat /\ load.threads \in Nat
BY Zenon, ThreadsAssumption DEF TypeOK, CpuTypes, Load

(* thread_consider_migration's variables.                                  *)
LEMMA MigFacts ==
    /\ NoMig \in Mig
    /\ \A m \in Mig :
         /\ m.i \in 0..(NCpu + 1) /\ m.victims \in Seq(Thread)
         /\ m.send \in Nat /\ m.share \in Nat /\ m.my \in Nat /\ m.total \in Nat
<1>1. <<>> \in Seq(Thread)
  OBVIOUS
<1>2. NoMig \in Mig
  BY <1>1, ThreadsAssumption DEF Mig, NoMig
<1> QED
  BY Zenon, <1>2 DEF Mig

(* thread_make_runnable keeps the types of what it changes.                *)
LEMMA RunnableType ==
    ASSUME TypeOK, NEW c \in Cpus, NEW t \in Thread, make_runnable(c, t)
    PROVE  /\ c_runqueue' \in [Cpus -> Seq(Thread)]
           /\ t_state' \in [Thread -> States]
           /\ IpiTypes'
<1> DEFINE d == t_cpu[t]
<1>1. d \in Cpus
  BY Zenon DEF TypeOK, ThreadTypes
<1>2. Append(c_runqueue[d], t) \in Seq(Thread)
  BY Zenon, <1>1, AppendElems DEF TypeOK, CpuTypes
<1>3. c_runqueue' \in [Cpus -> Seq(Thread)]
  BY Zenon, <1>1, <1>2 DEF TypeOK, CpuTypes, make_runnable
<1>4. t_state' \in [Thread -> States]
  BY Zenon DEF TypeOK, ThreadTypes, make_runnable, States
<1>5. c_ipi_pending[d] \cup {"UNIDLE"} \in SUBSET {"UNIDLE", "OFFLINE"}
  BY Zenon, <1>1 DEF TypeOK, IpiTypes
<1>6. IpiTypes'
  BY Zenon, <1>1, <1>5 DEF TypeOK, IpiTypes, make_runnable, ipi_send, ipivars
<1> QED
  BY Zenon, <1>3, <1>4, <1>6

(* So does the loop of thread_switch.                                      *)
LEMMA NextThreadType ==
    ASSUME TypeOK, NEW c \in Cpus, NEW q \in Seq(Thread), NEW zombies \in SUBSET Thread,
           NEW st \in [Thread -> States], next_thread(c, q, st, zombies),
           UNCHANGED <<load, rq_lock>>
    PROVE  CpuTypes' /\ t_state' \in [Thread -> States] /\ pc' \in [Cpus -> Points]
<1>1. CASE q = <<>>
  <2>1. CpuTypes'
    BY Zenon, <1>1 DEF TypeOK, CpuTypes, next_thread
  <2>2. t_state' \in [Thread -> States] /\ pc' \in [Cpus -> Points]
    BY Zenon, <1>1 DEF TypeOK, PathTypes, next_thread, Goto, Points
  <2> QED BY Zenon, <2>1, <2>2
<1>2. CASE q # <<>>
  <2>1. Head(q) \in Thread /\ Tail(q) \in Seq(Thread)
    BY Zenon, <1>2, TailElems
  <2>2. CpuTypes'
    BY Zenon, <1>2, <2>1 DEF TypeOK, CpuTypes, next_thread
  <2>3. pc' \in [Cpus -> Points]
    BY Zenon, <1>2 DEF TypeOK, PathTypes, next_thread, Goto, Points
  <2>4. t_state' \in [Thread -> States]
    BY Zenon, <1>2, <2>1 DEF next_thread, exorcised, States
  <2> QED BY Zenon, <2>2, <2>3, <2>4
<1> QED
  BY Zenon, <1>1, <1>2

(* What a step leaves alone keeps its types.                               *)
LEMMA SameTypes ==
    ASSUME TypeOK
    PROVE  /\ UNCHANGED cpuvars => CpuTypes'
           /\ UNCHANGED ipivars => IpiTypes'
           /\ UNCHANGED pathvars => PathTypes'
           /\ UNCHANGED <<load, threadvars>> => ThreadTypes'
           /\ UNCHANGED <<load, chanvars>> => ChanTypes'
<1> USE DEF TypeOK
<1>1. UNCHANGED cpuvars => CpuTypes'
  BY Zenon DEF cpuvars, CpuTypes
<1>2. UNCHANGED ipivars => IpiTypes'
  BY Zenon DEF ipivars, IpiTypes
<1>3. UNCHANGED pathvars => PathTypes'
  BY Zenon DEF pathvars, PathTypes
<1>4. UNCHANGED <<load, threadvars>> => ThreadTypes'
  BY Zenon DEF threadvars, ThreadTypes
<1>5. UNCHANGED <<load, chanvars>> => ChanTypes'
  BY Zenon DEF chanvars, ChanTypes
<1> QED
  BY Zenon, <1>1, <1>2, <1>3, <1>4, <1>5

(* A wait channel is split into the threads that are woken and the rest.   *)
LEMMA WakeType ==
    ASSUME TypeOK, NEW c \in Cpus, NEW w \in Chan, NEW k \in 0..Len(wc_threads[w]),
           wake(c, w, SubSeq(wc_threads[w], 1, k)), UNCHANGED load, sem_count' \in 0..load.count
    PROVE  PathTypes' /\ ChanTypes'
<1> DEFINE ts == SubSeq(wc_threads[w], 1, k)
<1>1. wc_threads[w] \in Seq(Thread)
  BY Zenon DEF TypeOK, ChanTypes
<1>2. ts \in Seq(Thread) /\ SubSeq(wc_threads[w], Len(ts) + 1, Len(wc_threads[w])) \in Seq(Thread)
  BY Zenon, <1>1, SplitElems
<1> HIDE DEF ts
<1>3. wake(c, w, ts)
  BY Zenon DEF ts
<1>4. PathTypes'
  BY Zenon, <1>2, <1>3 DEF TypeOK, PathTypes, wake, Goto, Return, Points
<1>5. wc_threads' \in [Chan -> Seq(Thread)]
  BY Zenon, <1>2, <1>3 DEF TypeOK, ChanTypes, wake
<1>6. c \in 0..NCpu
  BY ThreadsAssumption DEF Cpus
<1>7. wc_lock' \in [Chan -> 0..NCpu]
  BY Zenon, <1>3, <1>6 DEF TypeOK, ChanTypes, wake
<1> QED
  BY Zenon, <1>4, <1>5, <1>7 DEF ChanTypes

(* What V and timerclock take off a channel is the beginning of it.        *)
LEMMA WakeCases ==
    ASSUME TypeOK, NEW c \in Cpus, V(c) \/ timerclock(c)
    PROVE  \E w \in Chan : \E k \in 0..Len(wc_threads[w]) :
             /\ wake(c, w, SubSeq(wc_threads[w], 1, k))
             /\ wc_lock[w] = 0
             /\ V(c) => w = "sem" /\ k = IF wc_threads[w] = <<>> THEN 0 ELSE 1
             /\ timerclock(c) => w = "lbolt"
<1> USE DEF TypeOK, ChanTypes
<1>1. CASE V(c)
  <2>1. "sem" \in Chan /\ wc_threads["sem"] \in Seq(Thread)
    BY Zenon DEF Chan
  <2>2. (IF wc_threads["sem"] = <<>> THEN 0 ELSE 1) \in 0..Len(wc_threads["sem"])
    BY <2>1, TailElems
  <2>3. ~timerclock(c)
    BY <1>1, LoadFacts DEF V, timerclock, chanvars
  <2> QED
    BY Zenon, <1>1, <2>1, <2>2, <2>3 DEF V
<1>2. CASE timerclock(c) /\ ~V(c)
  <2>1. "lbolt" \in Chan /\ wc_threads["lbolt"] \in Seq(Thread)
    BY Zenon DEF Chan
  <2>2. Len(wc_threads["lbolt"]) \in 0..Len(wc_threads["lbolt"])
    BY <2>1
  <2>3. SubSeq(wc_threads["lbolt"], 1, Len(wc_threads["lbolt"])) = wc_threads["lbolt"]
    BY <2>1
  <2> QED
    BY Zenon, <1>2, <2>1, <2>2, <2>3 DEF timerclock
<1> QED
  BY Zenon, <1>1, <1>2

(* migration_count's numbers.                                              *)
LEMMA CountFacts ==
    ASSUME TypeOK, MigInv, NEW c \in Cpus, pc[c] = "count"
    PROVE  LET m     == mig[c]
               n     == Len(c_runqueue[m.i])
               total == m.total + n
               my    == IF m.i = c THEN n ELSE m.my
               share == (total + NCpu - 1) \div NCpu
           IN  /\ m \in Mig /\ m.i \in Cpus
               /\ n \in Nat /\ total \in Nat /\ my \in Nat /\ share \in Nat
<1>1. mig[c] \in Mig /\ mig[c].i \in Cpus
  BY Zenon DEF TypeOK, PathTypes, MigInv
<1>2. Len(c_runqueue[mig[c].i]) \in Nat
  BY <1>1 DEF TypeOK, CpuTypes
<1>3. mig[c].total \in Nat /\ mig[c].my \in Nat
  BY Zenon, <1>1, MigFacts
<1>4. mig[c].total + Len(c_runqueue[mig[c].i]) \in Nat
  BY <1>2, <1>3
<1>5. \A x \in Nat : (x + NCpu - 1) \div NCpu \in Nat
  BY ThreadsAssumption
<1>6. (mig[c].total + Len(c_runqueue[mig[c].i]) + NCpu - 1) \div NCpu \in Nat
  BY Zenon, <1>4, <1>5
<1> QED
  BY Zenon, <1>1, <1>2, <1>3, <1>4, <1>6

(* migration_give's cpu, and the victim it moves.                          *)
LEMMA GiveFacts ==
    ASSUME TypeOK, MigInv, NEW c \in Cpus, pc[c] = "give"
    PROVE  LET m == mig[c]  t == Head(m.victims) IN
           /\ m \in Mig /\ m.i \in Nat /\ (m.i <= NCpu => m.i \in Cpus)
           /\ m.send > 0 => /\ m.victims \in Seq(Thread) /\ m.victims # <<>>
                            /\ t \in Thread /\ Tail(m.victims) \in Seq(Thread)
                            /\ Append(Tail(m.victims), t) \in Seq(Thread)
<1>1. mig[c] \in Mig /\ mig[c].i > 0 /\ mig[c].send <= Len(mig[c].victims)
  BY Zenon DEF TypeOK, PathTypes, MigInv
<1>2. mig[c].i \in 0..(NCpu + 1) /\ mig[c].victims \in Seq(Thread) /\ mig[c].send \in Nat
  BY Zenon, <1>1, MigFacts
<1>3. mig[c].i \in Nat /\ (mig[c].i <= NCpu => mig[c].i \in Cpus)
  BY <1>1, <1>2, ThreadsAssumption DEF Cpus
<1>4. mig[c].send > 0 => mig[c].victims # <<>>
  BY <1>1, <1>2
<1> QED
  BY Zenon, <1>1, <1>2, <1>3, <1>4, TailElems, AppendElems

-----------------------------------------------------------------------------
(* What a step leaves alone *)

(* The place of a thread does not depend on how far a cpu has got.         *)
LEMMA SamePlaces ==
    ASSUME PlaceInv,
           UNCHANGED <<t_state, c_curthread, c_isidle, c_zombies, c_runqueue, list, child, wc_threads>>,
           \A c \in Cpus : mig'[c].victims = mig[c].victims
    PROVE  PlaceInv'
<1>1. ASSUME NEW loc PROVE Located(loc) => Located(loc)'
  BY DEF Located
<1>2. QueuesInv'
  BY Zenon DEF PlaceInv, QueuesInv
<1> QED
  BY Zenon, <1>1, <1>2 DEF PlaceInv

(* Nor does ownership.                                                     *)
LEMMA SameOwners ==
    ASSUME OwnInv,
           UNCHANGED <<t_cpu, t_state, c_curthread, c_isidle, c_zombies, c_runqueue>>,
           \A c \in Cpus : mig'[c].victims = mig[c].victims
    PROVE  OwnInv'
BY DEF OwnInv

(* A running thread is on no list, and it is not a zombie.                 *)
LEMMA RunningPlace ==
    ASSUME PlaceInv, OwnInv, TypeOK, NEW c \in Cpus, ~c_isidle[c]
    PROVE  LET t == c_curthread[c] IN
           /\ t \in Thread /\ t_state[t] \in {"S_RUN", "S_READY"} /\ t_cpu[t] = c
           /\ \A w \in Chan : t \notin Elems(wc_threads[w])
           /\ \A d \in Cpus :
                /\ t \notin Elems(c_runqueue[d]) /\ t \notin Elems(list[d])
                /\ t \notin Elems(mig[d].victims) /\ t \notin c_zombies[d]
                /\ d # c => c_curthread[d] # t
           /\ \A p \in Thread : child[p] # t
<1>1. PICK loc \in [Thread -> Place \cup {NoPlace}] : Located(loc)
  BY Zenon DEF PlaceInv
<1>2. c_curthread[c] \in Thread
  BY Zenon DEF TypeOK, CpuTypes
<1>3. loc[c_curthread[c]] = <<"cpu", c>>
  BY Zenon, <1>1, <1>2 DEF Located
<1> QED
  BY <1>1, <1>2, <1>3 DEF Located, OwnInv

-----------------------------------------------------------------------------
(* Steps of the running thread *)

(* wchan_sleep in P or clocksleep: the thread keeps its place, and its cpu *)
(* goes on to thread_switch with the spinlock of the channel.              *)
LEMMA SleepStep ==
    ASSUME IInv, NEW c \in Cpus, NEW t \in Thread, NEW w \in Chan, Runs(c, t, Doings \ {"fork"}),
           wc_lock[w] = 0, wchan_sleep(c, w),
           doing' = [doing EXCEPT ![t] = IF w = "sem" THEN "P" ELSE "clocksleep"],
           secs' \in [Thread -> 0..load.secs], w = "lbolt" => secs'[t] > 0,
           w = "sem" => sem_count = 0 /\ UNCHANGED secs,
           \A u \in Thread \ {t} : secs'[u] = secs[u],
           UNCHANGED <<cpuvars, ipivars, t_state, t_cpu, child, sem_count>>
    PROVE  IInv'
<1> USE DEF IInv
<1>1. /\ pc[c] = "run" /\ c_curthread[c] = t /\ doing[t] # "fork" /\ doing[t] \in Doings
      /\ ~Stopped /\ ~Stopped' /\ c \in 0..NCpu /\ 0 \notin Cpus
  BY ThreadsAssumption DEF Runs, Stopped, Cpus, wchan_sleep, Goto, TypeOK, PathTypes
<1>2. ~c_isidle[c]
  BY Zenon, <1>1 DEF PathInv
<1>3. CpuTypes' /\ IpiTypes'
  BY Zenon, SameTypes
<1>4. PathTypes'
  BY Zenon DEF TypeOK, PathTypes, wchan_sleep, Goto, Points
<1>5. ThreadTypes' /\ ChanTypes'
  BY Zenon, <1>1 DEF TypeOK, ThreadTypes, ChanTypes, Doings, wchan_sleep, cpuvars
<1>6. PathInv'
  <2> SUFFICES ASSUME NEW d \in Cpus PROVE PathInv!(d)'
    BY Zenon DEF PathInv
  <2>1. CASE d = c
    BY <2>1, <1>1, <1>2 DEF PathInv, Nothing, Sleeping, wchan_sleep, Goto, cpuvars, TypeOK, PathTypes, ChanTypes
  <2>2. CASE d # c
    BY <2>2, <1>1 DEF PathInv, Sleeping, wchan_sleep, Goto, cpuvars, TypeOK, PathTypes, ChanTypes
  <2> QED BY Zenon, <2>1, <2>2
<1>7. MigInv'
  BY <1>1 DEF MigInv, wchan_sleep, Goto, cpuvars, TypeOK, PathTypes
<1>8. PlaceInv' /\ OwnInv'
  BY Zenon, SamePlaces, SameOwners DEF wchan_sleep, cpuvars
<1>9. /\ t_state[t] \in {"S_RUN", "S_READY"} /\ \A v \in Chan : t \notin Elems(wc_threads[v])
      /\ \A d \in Cpus \ {c} : c_curthread[d] # t
  BY Zenon, <1>1, <1>2, RunningPlace
<1>10. DoingInv'
  BY <1>1, <1>9 DEF DoingInv, Nothing, wchan_sleep, Goto, cpuvars, TypeOK, PathTypes, ThreadTypes, Chan
<1>11. SemInv'
  BY <1>1, <1>9
  DEF SemInv, Sleeping, wchan_sleep, Goto, cpuvars, TypeOK, PathTypes, ThreadTypes, ChanTypes, Chan
<1> QED
  BY Zenon, <1>3, <1>4, <1>5, <1>6, <1>7, <1>8, <1>10, <1>11 DEF TypeOK

(* P with a count to take, clocksleep at its end: the thread goes on.      *)
LEMMA GoOnStep ==
    ASSUME IInv, NEW c \in Cpus, NEW t \in Thread, Runs(c, t, Doings \ {"fork"}),
           doing' = [doing EXCEPT ![t] = "user"],
           secs' \in [Thread -> 0..load.secs], \A u \in Thread \ {t} : secs'[u] = secs[u],
           sem_count' \in 0..load.count, sem_count' = sem_count \/ wc_lock["sem"] = 0,
           UNCHANGED <<cpuvars, ipivars, pathvars, t_state, t_cpu, child, wc_threads, wc_lock>>
    PROVE  IInv'
<1> USE DEF IInv
<1>1. pc[c] = "run" /\ c_curthread[c] = t /\ doing[t] # "fork" /\ ~c_isidle[c]
  BY Zenon DEF Runs, PathInv
<1>2. CpuTypes' /\ IpiTypes' /\ PathTypes'
  BY Zenon, SameTypes
<1>3. ThreadTypes' /\ ChanTypes'
  BY Zenon, <1>1 DEF TypeOK, ThreadTypes, ChanTypes, Doings, cpuvars
<1>4. PathInv' /\ MigInv'
  BY DEF PathInv, MigInv, Sleeping, Stopped, cpuvars, pathvars
<1>5. PlaceInv' /\ OwnInv'
  BY Zenon, SamePlaces, SameOwners DEF cpuvars, pathvars
<1>6. /\ t_state[t] \in {"S_RUN", "S_READY"} /\ \A v \in Chan : t \notin Elems(wc_threads[v])
      /\ \A d \in Cpus \ {c} : c_curthread[d] # t
  BY Zenon, <1>1, RunningPlace
<1>7. DoingInv'
  BY <1>1, <1>6 DEF DoingInv, Nothing, cpuvars, pathvars, TypeOK, ThreadTypes
<1>8. SemInv'
  <2>1. ASSUME NEW u \in Elems(wc_threads["sem"]) PROVE doing'[u] = "P"
    BY <1>6, ListElems DEF SemInv, TypeOK, ThreadTypes, ChanTypes, Chan
  <2>2. ASSUME NEW d \in Cpus, Sleeping(d) PROVE doing'[c_curthread[d]] = doing[c_curthread[d]]
    BY Zenon, <1>1, <1>6, <2>2 DEF Sleeping, TypeOK, CpuTypes, ThreadTypes
  <2>3. ASSUME NEW d \in Cpus, Sleeping(d), chan[d] = "sem" PROVE sem_count' = sem_count
    BY <2>3, CpuFacts DEF PathInv
  <2> QED
    BY <2>1, <2>2, <2>3 DEF SemInv, Sleeping, cpuvars, pathvars
<1> QED
  BY Zenon, <1>2, <1>3, <1>4, <1>5, <1>7, <1>8 DEF TypeOK

(* P and clocksleep are one or the other.                                  *)
LEMMA WaitStep ==
    ASSUME IInv, NEW c \in Cpus, NEW t \in Thread, P(c, t) \/ clocksleep(c, t)
    PROVE  IInv'
<1>1. TypeOK /\ DoingInv
  BY Zenon DEF IInv
<1>2. "sem" \in Chan /\ "lbolt" \in Chan
  BY Zenon DEF Chan
<1>3. CASE P(c, t) /\ sem_count = 0
  <2>1. secs' \in [Thread -> 0..load.secs]
    BY Zenon, <1>1, <1>3 DEF P, TypeOK, ThreadTypes
  <2> QED
    BY Zenon, <1>2, <1>3, <2>1, SleepStep DEF P, Runs, Doings
<1>4. CASE P(c, t) /\ sem_count # 0
  <2>1. secs' \in [Thread -> 0..load.secs] /\ sem_count' \in 0..load.count
    BY <1>1, <1>4, LoadFacts DEF P, TypeOK, ThreadTypes, ChanTypes
  <2> QED
    BY Zenon, <1>4, <2>1, GoOnStep DEF P, Runs, Doings
<1>5. CASE clocksleep(c, t)
  <2>1. PICK n \in IF doing[t] = "user" THEN 1..load.secs ELSE {secs[t] - 1} :
               /\ secs' = [secs EXCEPT ![t] = n]
               /\ IF n > 0
                  THEN /\ doing' = [doing EXCEPT ![t] = "clocksleep"]
                       /\ wchan_sleep(c, "lbolt")
                  ELSE /\ doing' = [doing EXCEPT ![t] = "user"]
                       /\ UNCHANGED <<pathvars, wc_threads, wc_lock>>
    BY Zenon, <1>5 DEF clocksleep
  <2>2. secs[t] \in 0..load.secs /\ load.secs \in Nat
    BY Zenon, <1>1, LoadFacts DEF TypeOK, ThreadTypes
  <2>3. n \in 0..load.secs
    BY <1>1, <1>5, <2>2 DEF clocksleep, Runs, DoingInv
  <2>4. secs' \in [Thread -> 0..load.secs] /\ secs'[t] = n /\ \A u \in Thread \ {t} : secs'[u] = secs[u]
    BY Zenon, <1>1, <2>1, <2>3 DEF TypeOK, ThreadTypes
  <2>5. sem_count' \in 0..load.count
    BY Zenon, <1>1, <1>5 DEF clocksleep, TypeOK, ChanTypes
  <2>6. CASE n > 0
    BY Zenon, <1>2, <1>5, <2>1, <2>4, <2>6, SleepStep DEF clocksleep, Runs, Doings
  <2>7. CASE ~(n > 0)
    BY Zenon, <1>5, <2>1, <2>4, <2>5, <2>7, GoOnStep DEF clocksleep, Runs, Doings
  <2> QED BY Zenon, <2>6, <2>7
<1> QED
  BY Zenon, <1>3, <1>4, <1>5

(* A cpu that holds no spinlock and no thread in its hands.                *)
Calm(c) == pc[c] \in {"run", "idle", "relock", "clear_ipi", "offline", "count", "take"}

(* It has nothing in hand.                                                 *)
LEMMA CalmFacts ==
    ASSUME IInv, NEW c \in Cpus, Calm(c)
    PROVE  /\ ~Stopped /\ list[c] = <<>> /\ mig[c].victims = <<>>
           /\ \A d \in Cpus : rq_lock[d] # c
           /\ \A w \in Chan : wc_lock[w] # c
BY DEF IInv, PathInv, MigInv, Calm, Stopped, Sleeping

(* A calm cpu goes somewhere else: interrupts and the return from them,    *)
(* thread_exit, the end of thread_consider_migration.                      *)
LEMMA CalmMove ==
    ASSUME IInv, NEW c \in Cpus, Calm(c), NEW p \in Points, Goto(c, p),
           p \in {"run", "switch"} => ~c_isidle[c],
           p = "relock" => c_isidle[c],
           p \notin {"idle", "wake", "give", "back"},
           NEW s \in {"S_READY", "S_ZOMBIE"},
           newstate' = IF p = "switch" THEN [newstate EXCEPT ![c] = s] ELSE newstate,
           p = "switch" /\ s = "S_ZOMBIE" => doing[c_curthread[c]] \in {"hatch", "user"},
           NEW m \in Mig, mig' = [mig EXCEPT ![c] = m], m.victims = <<>>,
           p = "count" => m.i \in Cpus /\ (m.i > c => m.my <= Len(c_runqueue[c])),
           p = "take" => m.send <= Len(c_runqueue[c]),
           IpiTypes', UNCHANGED <<cpuvars, chan, list, threadvars, chanvars>>
    PROVE  IInv'
<1> USE DEF IInv
<1>1. /\ ~Stopped /\ list[c] = <<>> /\ mig[c].victims = <<>>
      /\ \A d \in Cpus : rq_lock[d] # c
      /\ \A w \in Chan : wc_lock[w] # c
  BY Zenon, CalmFacts
<1>2. /\ pc[c] \notin {"switch", "wake", "give", "back"}
      /\ pc' \in [Cpus -> Points] /\ pc'[c] = p /\ \A d \in Cpus \ {c} : pc'[d] = pc[d]
      /\ mig' \in [Cpus -> Mig] /\ mig'[c] = m /\ \A d \in Cpus \ {c} : mig'[d] = mig[d]
      /\ newstate' \in [Cpus -> {Nothing, "S_READY", "S_SLEEP", "S_ZOMBIE"}]
      /\ \A d \in Cpus \ {c} : newstate'[d] = newstate[d]
      /\ p = "switch" => newstate'[c] = s
  BY Zenon DEF Calm, TypeOK, PathTypes, Goto
<1>3. CpuTypes' /\ IpiTypes' /\ ThreadTypes' /\ ChanTypes'
  BY Zenon, SameTypes DEF cpuvars
<1>4. PathTypes'
  BY Zenon, <1>2 DEF TypeOK, PathTypes
<1>5. PathInv'
  BY <1>1, <1>2 DEF PathInv, Nothing, Sleeping, cpuvars, chanvars
<1>6. MigInv'
  BY <1>1, <1>2 DEF MigInv, cpuvars
<1>7. PlaceInv' /\ OwnInv'
  BY Zenon, <1>1, <1>2, SamePlaces, SameOwners DEF cpuvars, threadvars, chanvars
<1>8. DoingInv'
  BY <1>2 DEF DoingInv, cpuvars, threadvars
<1>9. SemInv'
  BY <1>2 DEF SemInv, Sleeping, cpuvars, threadvars, chanvars
<1> QED
  BY Zenon, <1>3, <1>4, <1>5, <1>6, <1>7, <1>8, <1>9 DEF TypeOK

(* thread_yield on a calm cpu, as CalmMove has it.                         *)
LEMMA YieldMove ==
    ASSUME IInv, NEW c \in Cpus, Calm(c), Yield(c), NEW m \in Mig, mig' = [mig EXCEPT ![c] = m],
           m.victims = <<>>, UNCHANGED <<cpuvars, ipivars, chan, list, threadvars, chanvars>>
    PROVE  IInv'
<1>1. IpiTypes'
  BY Zenon, SameTypes DEF IInv
<1>2. CASE c_isidle[c]
  <2>1. Goto(c, "relock") /\ UNCHANGED newstate /\ "relock" \in Points
    BY Zenon, <1>2 DEF Yield, Points
  <2> QED BY Zenon, <1>1, <1>2, <2>1, CalmMove
<1>3. CASE ~c_isidle[c]
  <2>1. /\ Goto(c, "switch") /\ newstate' = [newstate EXCEPT ![c] = "S_READY"]
        /\ "switch" \in Points
    BY Zenon, <1>3 DEF Yield, Points
  <2> QED BY Zenon, <1>1, <1>3, <2>1, CalmMove
<1> QED BY Zenon, <1>2, <1>3

(* Interrupts, and the ends of thread_exit and of the machine.             *)
LEMMA InterruptStep ==
    ASSUME IInv, NEW c \in Cpus,
           \/ hardclock(c) \/ interprocessor_interrupt(c) \/ lamebus_clear_ipi(c) \/ go_offline(c)
    PROVE  IInv'
<1>1. Calm(c)
  BY Zenon DEF hardclock, interprocessor_interrupt, lamebus_clear_ipi, go_offline, Interruptible, Calm
<1>2. mig[c].victims = <<>> /\ mig[c] \in Mig /\ mig \in [Cpus -> Mig]
  BY Zenon, <1>1, CalmFacts DEF IInv, TypeOK, PathTypes
<1>3. UNCHANGED mig => mig' = [mig EXCEPT ![c] = mig[c]]
  BY Zenon, <1>2
<1>4. {"run", "relock", "clear_ipi", "offline", "halted", "count"} \subseteq Points
  BY Zenon DEF Points
<1>5. CASE hardclock(c)
  <2>1. CASE Yield(c) /\ UNCHANGED mig
    BY Zenon, <1>1, <1>2, <1>3, <1>5, <2>1, YieldMove DEF hardclock
  <2>2. CASE Goto(c, "count") /\ UNCHANGED newstate /\ mig' = [mig EXCEPT ![c].i = 1]
    <3> DEFINE m == [mig[c] EXCEPT !.i = 1]
    <3>1. 1 \in 0..(NCpu + 1)
      BY ThreadsAssumption
    <3>2. m \in Mig /\ m.i = 1 /\ m.victims = <<>>
      BY Zenon, <1>2, <3>1 DEF Mig
    <3>3. mig' = [mig EXCEPT ![c] = m]
      BY Zenon, <2>2
    <3>4. IpiTypes'
      BY Zenon, <1>5, SameTypes DEF IInv, hardclock
    <3>5. UNCHANGED <<cpuvars, chan, list, threadvars, chanvars>>
      BY Zenon, <1>5 DEF hardclock
    <3>6. "count" \in Points /\ Goto(c, "count") /\ UNCHANGED newstate
      BY Zenon, <2>2 DEF Points
    <3> HIDE DEF m
    <3>7. m.i \in Cpus /\ (m.i > c => m.my <= Len(c_runqueue[c]))
      BY <3>2, ThreadsAssumption DEF Cpus
    <3> QED
      BY Zenon, <1>1, <3>2, <3>3, <3>4, <3>5, <3>6, <3>7, CalmMove
  <2> QED BY Zenon, <1>5, <2>1, <2>2 DEF hardclock
<1>6. CASE interprocessor_interrupt(c)
  <2>1. IpiTypes'
    BY Zenon, <1>6 DEF IInv, TypeOK, IpiTypes, interprocessor_interrupt
  <2> QED
    BY Zenon, <1>1, <1>2, <1>3, <1>4, <1>6, <2>1, CalmMove DEF interprocessor_interrupt
<1>7. CASE lamebus_clear_ipi(c)
  <2>1. IpiTypes'
    BY Zenon, <1>7 DEF IInv, TypeOK, IpiTypes, lamebus_clear_ipi
  <2>2. CASE c_isidle[c]
    BY Zenon, <1>1, <1>2, <1>3, <1>4, <1>7, <2>1, <2>2, CalmMove DEF lamebus_clear_ipi, Return
  <2>3. CASE ~c_isidle[c]
    BY <1>1, <1>2, <1>3, <1>4, <1>7, <2>1, <2>3, CalmMove DEF lamebus_clear_ipi, Return
  <2> QED BY Zenon, <2>2, <2>3
<1>8. CASE go_offline(c)
  <2>1. IpiTypes'
    BY Zenon, <1>8, SameTypes DEF IInv, go_offline
  <2> QED
    BY <1>1, <1>2, <1>3, <1>4, <1>8, <2>1, CalmMove DEF go_offline
<1> QED
  BY Zenon, <1>5, <1>6, <1>7, <1>8

(* thread_exit, up to thread_switch.                                       *)
LEMMA ExitStep ==
    ASSUME IInv, NEW c \in Cpus, NEW t \in Thread, thread_exit(c, t)
    PROVE  IInv'
<1>1. Calm(c) /\ ~c_isidle[c] /\ doing[c_curthread[c]] \in {"hatch", "user"} /\ "switch" \in Points
  BY Zenon DEF thread_exit, Runs, Calm, IInv, PathInv, Points
<1>2. mig[c].victims = <<>> /\ mig[c] \in Mig /\ mig' = [mig EXCEPT ![c] = mig[c]]
  BY Zenon, <1>1, CalmFacts DEF IInv, TypeOK, PathTypes, thread_exit
<1>3. IpiTypes'
  BY Zenon, SameTypes DEF IInv, thread_exit
<1> QED
  BY ZenonT(30), <1>1, <1>2, <1>3, CalmMove DEF thread_exit

(* The machine is halted or switched off.  Then some cpu may have stopped  *)
(* with a spinlock, and none goes on.                                      *)
LEMMA RebootStep ==
    ASSUME IInv, NEW c \in Cpus, NEW t \in Thread, sys_reboot(c, t)
    PROVE  IInv'
<1>1. PICK S \in {{c}, Cpus} : pc' = [d \in Cpus |-> IF d \in S THEN "halted" ELSE pc[d]]
  BY Zenon DEF sys_reboot
<1>2. CASE S = {c}
  <2>1. Calm(c) /\ "halted" \in Points
    BY Zenon DEF sys_reboot, Runs, Calm, Points
  <2>2. mig[c].victims = <<>> /\ mig[c] \in Mig /\ mig' = [mig EXCEPT ![c] = mig[c]]
    BY Zenon, <2>1, CalmFacts DEF IInv, TypeOK, PathTypes, sys_reboot
  <2>3. IpiTypes'
    BY Zenon, SameTypes DEF IInv, sys_reboot
  <2>4. Goto(c, "halted")
    BY Zenon, <1>1, <1>2 DEF Goto, IInv, TypeOK, PathTypes
  <2> QED
    BY Zenon, <2>1, <2>2, <2>3, <2>4, CalmMove DEF sys_reboot
<1>3. CASE S = Cpus
  <2> USE DEF IInv, sys_reboot
  <2>1. \A d \in Cpus : pc'[d] = "halted"
    BY Zenon, <1>1, <1>3
  <2>2. CpuTypes' /\ IpiTypes' /\ ThreadTypes' /\ ChanTypes'
    BY Zenon, SameTypes DEF cpuvars
  <2>3. PathTypes'
    BY Zenon, <1>1, <1>3 DEF TypeOK, PathTypes, Points
  <2>4. PathInv' /\ MigInv'
    BY Zenon, <2>1 DEF PathInv, MigInv, Stopped, Sleeping
  <2>5. PlaceInv' /\ OwnInv'
    BY Zenon, SamePlaces, SameOwners DEF cpuvars, threadvars, chanvars
  <2>6. DoingInv' /\ SemInv'
    BY Zenon, <2>1 DEF DoingInv, SemInv, Sleeping, threadvars, chanvars
  <2> QED
    BY Zenon, <2>2, <2>3, <2>4, <2>5, <2>6 DEF TypeOK
<1> QED
  BY Zenon, <1>2, <1>3

(* thread_shutdown: the first thread asks the next cpu to go offline.      *)
LEMMA ShutdownStep ==
    ASSUME IInv, NEW c \in Cpus, NEW t \in Thread, thread_shutdown(c, t)
    PROVE  IInv'
<1> USE DEF IInv
<1>1. pc[c] = "run" /\ c_curthread[c] = t /\ doing[t] \in {"user", "shutdown"} /\ ~c_isidle[c]
  BY Zenon DEF Runs, PathInv, thread_shutdown
<1>2. CpuTypes' /\ PathTypes' /\ ChanTypes'
  BY Zenon, SameTypes DEF thread_shutdown, cpuvars
<1>3. ThreadTypes'
  BY Zenon DEF TypeOK, ThreadTypes, Doings, cpuvars, thread_shutdown
<1>4. IpiTypes'
  <2>1. asked' \in 0..NCpu /\ asked + 1 \in Cpus
    BY ThreadsAssumption DEF TypeOK, IpiTypes, thread_shutdown, ipi_broadcast, Cpus
  <2>2. c_ipi_pending[asked + 1] \cup {"OFFLINE"} \in SUBSET {"UNIDLE", "OFFLINE"}
    BY Zenon, <2>1 DEF TypeOK, IpiTypes
  <2> QED
    BY Zenon, <2>1, <2>2 DEF TypeOK, IpiTypes, thread_shutdown, ipi_broadcast
<1>5. PathInv' /\ MigInv'
  BY ZenonT(30) DEF PathInv, MigInv, Sleeping, Stopped, cpuvars, pathvars, chanvars, thread_shutdown
<1>6. PlaceInv' /\ OwnInv'
  BY Zenon, SamePlaces, SameOwners DEF cpuvars, pathvars, chanvars, thread_shutdown
<1>7. /\ t_state[t] \in {"S_RUN", "S_READY"} /\ \A v \in Chan : t \notin Elems(wc_threads[v])
      /\ \A d \in Cpus \ {c} : c_curthread[d] # t
  BY Zenon, <1>1, RunningPlace
<1>8. DoingInv'
  BY <1>1, <1>7 DEF DoingInv, Nothing, cpuvars, pathvars, TypeOK, ThreadTypes, thread_shutdown
<1>9. SemInv'
  <2>1. ASSUME NEW u \in Elems(wc_threads["sem"]) PROVE doing'[u] = "P"
    BY Zenon, <1>7, ListElems DEF SemInv, TypeOK, ThreadTypes, ChanTypes, Chan, thread_shutdown
  <2>2. ASSUME NEW d \in Cpus, Sleeping(d) PROVE doing'[c_curthread[d]] = doing[c_curthread[d]]
    BY Zenon, <1>1, <1>7, <2>2 DEF Sleeping, TypeOK, CpuTypes, ThreadTypes, thread_shutdown
  <2> QED
    BY ZenonT(30), <2>1, <2>2 DEF SemInv, Sleeping, cpuvars, pathvars, chanvars, thread_shutdown
<1> QED
  BY Zenon, <1>2, <1>3, <1>4, <1>5, <1>6, <1>8, <1>9 DEF TypeOK

(* thread_fork, up to thread_make_runnable: the new thread is in the hands *)
(* of its parent.                                                          *)
LEMMA ForkStep ==
    ASSUME IInv, NEW c \in Cpus, NEW t \in Thread, NEW n \in Thread, thread_fork(c, t, n)
    PROVE  IInv'
<1> USE DEF IInv
<1>1. /\ pc[c] = "run" /\ c_curthread[c] = t /\ doing[t] = "user" /\ ~c_isidle[c]
      /\ t_state[n] = Nothing
  BY Zenon DEF Runs, PathInv, thread_fork
<1>2. child[t] = Nothing /\ child[n] = Nothing /\ doing[n] \in {"hatch", "user"}
  BY Zenon, <1>1 DEF DoingInv
<1>3. /\ t_state[t] \in {"S_RUN", "S_READY"} /\ \A v \in Chan : t \notin Elems(wc_threads[v])
      /\ \A d \in Cpus \ {c} : c_curthread[d] # t
  BY Zenon, <1>1, RunningPlace
<1>4. t # n /\ \A d \in Cpus : c_curthread[d] # n
  BY <1>1, <1>3 DEF OwnInv, Nothing
<1>5. PICK loc \in [Thread -> Place \cup {NoPlace}] : Located(loc)
  BY Zenon DEF PlaceInv
<1>6. loc[n] = NoPlace
  BY Zenon, <1>1, <1>5 DEF Located
<1>7. \A p \in Thread : child[p] # n
  BY <1>5, <1>6 DEF Located, NoPlace
<1>8. /\ \A d \in Cpus : /\ n \notin Elems(c_runqueue[d]) /\ n \notin Elems(list[d])
                         /\ n \notin Elems(mig[d].victims) /\ n \notin c_zombies[d]
      /\ \A w \in Chan : n \notin Elems(wc_threads[w])
  BY <1>5, <1>6 DEF Located, NoPlace
<1>9. TypeOK'
  <2>1. CpuTypes' /\ IpiTypes' /\ PathTypes' /\ ChanTypes'
    BY Zenon, SameTypes DEF thread_fork, cpuvars
  <2>2. ThreadTypes'
    BY Zenon DEF TypeOK, ThreadTypes, thread_fork, cpuvars, States, Doings
  <2> QED BY Zenon, <2>1, <2>2 DEF TypeOK
<1>10. PathInv' /\ MigInv'
  BY DEF PathInv, MigInv, Sleeping, Stopped, cpuvars, pathvars, chanvars, thread_fork
<1>11. PlaceInv'
  <2> DEFINE new == [loc EXCEPT ![n] = <<"child", t>>]
  <2>1. new \in [Thread -> Place \cup {NoPlace}]
    BY Zenon DEF Place
  <2>2. Located(new)'
    <3> SUFFICES ASSUME NEW u \in Thread PROVE Located(new)!(u)'
      BY Zenon DEF Located
    <3>1. CASE u = n
      <4>1. t_state'[n] # Nothing /\ \A p \in Thread : child'[p] = n <=> p = t
        BY Zenon, <1>7 DEF thread_fork, TypeOK, ThreadTypes, Nothing
      <4> QED
        BY Zenon, <3>1, <4>1, <1>4, <1>8 DEF NoPlace, thread_fork, cpuvars, pathvars, chanvars
    <3>2. CASE u # n
      <4>1. new[u] = loc[u] /\ t_state'[u] = t_state[u]
        BY Zenon, <3>2 DEF thread_fork, TypeOK, ThreadTypes
      <4>2. \A p \in Thread : child'[p] = u <=> child[p] = u
        BY Zenon, <1>2, <3>2, ThreadsAssumption DEF thread_fork, TypeOK, ThreadTypes
      <4> QED
        BY <1>5, <4>1, <4>2 DEF Located, thread_fork, cpuvars, pathvars, chanvars
    <3> QED BY Zenon, <3>1, <3>2
  <2>3. QueuesInv'
    BY Zenon DEF PlaceInv, QueuesInv, thread_fork, cpuvars, pathvars, chanvars
  <2> QED BY Zenon, <2>1, <2>2, <2>3 DEF PlaceInv
<1>12. OwnInv'
  <2>1. \A u \in Thread \ {n} : t_state'[u] = t_state[u] /\ t_cpu'[u] = t_cpu[u]
    BY Zenon DEF thread_fork, TypeOK, ThreadTypes
  <2>2. \A d \in Cpus : /\ c_curthread[d] \in Thread /\ Elems(c_runqueue[d]) \subseteq Thread
                        /\ Elems(mig[d].victims) \subseteq Thread /\ c_zombies[d] \subseteq Thread
    BY Zenon, ListElems, MigFacts DEF TypeOK, CpuTypes, PathTypes
  <2> QED
    BY <1>4, <1>8, <2>1, <2>2 DEF OwnInv, thread_fork, cpuvars, pathvars
<1>13. DoingInv'
  BY Zenon, <1>1, <1>2, <1>3, <1>4, ThreadsAssumption
  DEF DoingInv, thread_fork, TypeOK, CpuTypes, ThreadTypes, Nothing, cpuvars, pathvars
<1>14. SemInv'
  <2>1. ASSUME NEW u \in Elems(wc_threads["sem"]) PROVE doing'[u] = "P"
    BY Zenon, <1>3, <1>8, ListElems DEF SemInv, TypeOK, ThreadTypes, ChanTypes, Chan, thread_fork
  <2>2. ASSUME NEW d \in Cpus, Sleeping(d) PROVE doing'[c_curthread[d]] = doing[c_curthread[d]]
    BY Zenon, <1>1, <1>3, <1>4, <2>2 DEF Sleeping, TypeOK, CpuTypes, ThreadTypes, thread_fork
  <2>3. UNCHANGED <<pc, newstate, chan, c_curthread, wc_threads, wc_lock, sem_count>>
    BY Zenon DEF cpuvars, pathvars, chanvars, thread_fork
  <2> QED
    BY Zenon, <2>1, <2>2, <2>3 DEF SemInv, Sleeping
<1> QED
  BY Zenon, <1>9, <1>10, <1>11, <1>12, <1>13, <1>14

-----------------------------------------------------------------------------
(* thread_make_runnable *)

(* It puts a thread that was in no queue into the run queue of its cpu.    *)
LEMMA RunnableOwn ==
    ASSUME IInv, NEW c \in Cpus, NEW t \in Thread, make_runnable(c, t), t_state[t] # Nothing,
           \A d \in Cpus : t \notin c_zombies[d],
           UNCHANGED <<t_cpu, c_curthread, c_isidle, c_zombies, mig>>
    PROVE  OwnInv'
<1>1. \A d \in Cpus : /\ c_curthread[d] \in Thread /\ c_runqueue[d] \in Seq(Thread)
                      /\ c_zombies[d] \subseteq Thread
  BY Zenon DEF IInv, TypeOK, CpuTypes
<1>2. /\ t_cpu[t] \in Cpus /\ t_state'[t] = "S_READY"
      /\ \A u \in Thread \ {t} : t_state'[u] = t_state[u]
  BY Zenon DEF IInv, TypeOK, ThreadTypes, make_runnable
<1>3. \A d \in Cpus :
        Elems(c_runqueue'[d]) = IF d = t_cpu[t] THEN Elems(c_runqueue[d]) \cup {t}
                                                ELSE Elems(c_runqueue[d])
  BY Zenon, <1>1, <1>2, AppendElems DEF IInv, TypeOK, CpuTypes, make_runnable
<1>4. OwnInv
  BY Zenon DEF IInv
<1>5. ASSUME NEW d \in Cpus PROVE OwnInv!(d)'
  <2>1. /\ t_cpu[c_curthread[d]] = d /\ t_state'[c_curthread[d]] # Nothing
        /\ ~c_isidle[d] => t_state'[c_curthread[d]] \in {"S_RUN", "S_READY"}
    BY Zenon, <1>1, <1>2, <1>4 DEF OwnInv, Nothing
  <2>2. \A u \in Elems(c_runqueue'[d]) : t_cpu[u] = d
    <3>1. \A u \in Elems(c_runqueue[d]) : t_cpu[u] = d
      BY Zenon, <1>4 DEF OwnInv
    <3> QED BY Zenon, <1>3, <3>1
  <2>3. \A u \in c_zombies[d] : t_cpu[u] = d /\ t_state'[u] = "S_ZOMBIE"
    BY <1>1, <1>2, <1>4 DEF OwnInv
  <2> QED
    BY Zenon, <1>4, <2>1, <2>2, <2>3 DEF OwnInv
<1> QED
  BY Zenon, <1>5 DEF OwnInv

(* The queues that are counted only grow.                                  *)
LEMMA RunnableMig ==
    ASSUME IInv, NEW c \in Cpus, NEW t \in Thread, make_runnable(c, t),
           UNCHANGED <<mig, rq_lock>>,
           \A d \in Cpus : pc'[d] = pc[d] \/ pc'[d] \in {"run", "relock"}, 
           \A d \in Cpus : pc[d] \in {"give", "back", "halted"} => pc'[d] = pc[d],
           ~Stopped
    PROVE  MigInv'
<1>1. t_cpu[t] \in Cpus /\ \A d \in Cpus : c_runqueue[d] \in Seq(Thread)
  BY Zenon DEF IInv, TypeOK, CpuTypes, ThreadTypes
<1>2. \A d \in Cpus : Len(c_runqueue[d]) \in Nat /\ Len(c_runqueue'[d]) \in Nat
                      /\ Len(c_runqueue[d]) <= Len(c_runqueue'[d])
  BY <1>1, AppendElems DEF IInv, TypeOK, CpuTypes, make_runnable
<1>3. \A d \in Cpus : mig[d].my \in Nat /\ mig[d].send \in Nat
  BY Zenon, MigFacts DEF IInv, TypeOK, PathTypes
<1>4. ASSUME NEW e \in Cpus PROVE MigInv!(e)'
  BY <1>2, <1>3 DEF IInv, MigInv
<1> QED
  BY Zenon, <1>4 DEF MigInv

(* thread_fork puts the child into the run queue of its cpu.               *)
LEMMA ForkRunnableStep ==
    ASSUME IInv, NEW c \in Cpus, NEW t \in Thread, fork_runnable(c, t)
    PROVE  IInv'
<1> USE DEF IInv
<1>1. pc[c] = "run" /\ c_curthread[c] = t /\ doing[t] = "fork" /\ ~c_isidle[c] /\ ~Stopped
  BY Zenon DEF Runs, PathInv, Stopped, fork_runnable
<1>2. PICK n \in Thread, d \in Cpus : n = child[t] /\ d = t_cpu[n] /\ make_runnable(c, n)
  BY Zenon, <1>1 DEF DoingInv, TypeOK, ThreadTypes, fork_runnable
<1>3. /\ t_state[t] \in {"S_RUN", "S_READY"} /\ \A v \in Chan : t \notin Elems(wc_threads[v])
      /\ \A e \in Cpus \ {c} : c_curthread[e] # t
  BY Zenon, <1>1, RunningPlace
<1>4. PICK loc \in [Thread -> Place \cup {NoPlace}] : Located(loc)
  BY Zenon DEF PlaceInv
<1>5. loc[n] = <<"child", t>> /\ t_state[n] # Nothing
  <2>1. loc[n] = <<"child", t>>
    BY Zenon, <1>2, <1>4 DEF Located
  <2> QED BY <1>2, <1>4, <2>1 DEF Located, NoPlace
<1>6. /\ \A e \in Cpus : /\ n \notin Elems(c_runqueue[e]) /\ n \notin Elems(list[e])
                         /\ n \notin Elems(mig[e].victims) /\ n \notin c_zombies[e]
                         /\ ~(c_curthread[e] = n /\ ~c_isidle[e])
      /\ \A w \in Chan : n \notin Elems(wc_threads[w])
      /\ \A p \in Thread : child[p] = n => p = t
  BY <1>2, <1>4, <1>5 DEF Located
<1>7. TypeOK'
  <2>1. PathTypes' /\ ChanTypes'
    BY Zenon, SameTypes DEF fork_runnable
  <2>2. IpiTypes' /\ CpuTypes'
    BY Zenon, <1>2, RunnableType DEF TypeOK, CpuTypes, fork_runnable
  <2>3. ThreadTypes'
    BY Zenon, <1>2, RunnableType DEF TypeOK, ThreadTypes, fork_runnable, Doings
  <2> QED BY Zenon, <2>1, <2>2, <2>3 DEF TypeOK
<1>8. PathInv'
  BY DEF PathInv, Sleeping, Stopped, pathvars, chanvars, fork_runnable
<1>9. MigInv'
  BY Zenon, <1>1, <1>2, RunnableMig DEF fork_runnable, pathvars
<1>10. OwnInv'
  BY Zenon, <1>2, <1>5, <1>6, RunnableOwn DEF fork_runnable, pathvars
<1>11. /\ c_runqueue[d] \in Seq(Thread)
       /\ c_runqueue' = [c_runqueue EXCEPT ![d] = Append(c_runqueue[d], n)]
       /\ t_state' = [t_state EXCEPT ![n] = "S_READY"]
       /\ UNCHANGED <<c_curthread, c_isidle, c_zombies, list, mig, wc_threads>>
  BY Zenon, <1>2 DEF make_runnable, fork_runnable, pathvars, chanvars, TypeOK, CpuTypes
<1>12. PlaceInv'
  <2> DEFINE new == [loc EXCEPT ![n] = <<"runqueue", d>>]
  <2>1. new \in [Thread -> Place \cup {NoPlace}]
    BY Zenon, <1>2 DEF Place
  <2>2. Located(new)'
    <3> SUFFICES ASSUME NEW u \in Thread PROVE Located(new)!(u)'
      BY Zenon DEF Located
    <3>1. \A e \in Cpus : u \in Elems(c_runqueue'[e]) <=> u \in Elems(c_runqueue[e]) \/ (u = n /\ e = d)
      BY SMTT(30), <1>2, <1>11, AppendElems DEF TypeOK, CpuTypes
    <3>2. \A p \in Thread : child'[p] = u <=> child[p] = u /\ u # n
      BY Zenon, <1>2, <1>6, ThreadsAssumption DEF fork_runnable, TypeOK, ThreadTypes
    <3>3. t_state'[u] = Nothing <=> t_state[u] = Nothing
      BY Zenon, <1>5, <1>11 DEF TypeOK, ThreadTypes, Nothing
    <3>4. CASE u = n
      BY Zenon, <3>1, <3>2, <3>3, <3>4, <1>5, <1>6, <1>11 DEF NoPlace
    <3>5. CASE u # n
      BY SMTT(30), <3>1, <3>2, <3>3, <3>5, <1>4, <1>11 DEF Located
    <3> QED BY Zenon, <3>4, <3>5
  <2>3. QueuesInv'
    BY Zenon, <1>2, <1>6, <1>11, AppendElems DEF PlaceInv, QueuesInv, TypeOK, CpuTypes
  <2> QED BY Zenon, <2>1, <2>2, <2>3 DEF PlaceInv
<1>13. DoingInv'
  BY ZenonT(30), <1>1, <1>2, <1>3, <1>5, <1>11, ThreadsAssumption
  DEF DoingInv, fork_runnable, TypeOK, CpuTypes, ThreadTypes, Nothing, pathvars
<1>14. SemInv'
  <2>1. ASSUME NEW u \in Elems(wc_threads["sem"]) PROVE doing'[u] = "P"
    BY Zenon, <1>3, ListElems DEF SemInv, TypeOK, ThreadTypes, ChanTypes, Chan, fork_runnable
  <2>2. ASSUME NEW e \in Cpus, Sleeping(e) PROVE doing'[c_curthread[e]] = doing[c_curthread[e]]
    BY Zenon, <1>1, <1>3, <2>2 DEF Sleeping, TypeOK, CpuTypes, ThreadTypes, fork_runnable
  <2>3. UNCHANGED <<pc, newstate, chan, c_curthread, wc_threads, wc_lock, sem_count>>
    BY Zenon DEF pathvars, chanvars, fork_runnable
  <2> QED
    BY Zenon, <2>1, <2>2, <2>3 DEF SemInv, Sleeping
<1> QED
  BY Zenon, <1>7, <1>8, <1>9, <1>10, <1>12, <1>13, <1>14

(* A waker puts the first thread of its list into the run queue of that    *)
(* thread's cpu.                                                           *)
LEMMA WakeOneStep ==
    ASSUME IInv, NEW c \in Cpus, wchan_wake(c)
    PROVE  IInv'
<1> USE DEF IInv
<1> DEFINE l == list[c]
<1>1. /\ pc[c] = "wake" /\ l \in Seq(Thread) /\ l # <<>> /\ NoDup(l)
      /\ chan[c] \in Chan /\ wc_lock[chan[c]] = c /\ ~Stopped
  BY Zenon DEF PathInv, Stopped, wchan_wake, TypeOK, PathTypes, PlaceInv, QueuesInv
<1>2. PICK n \in Thread, d \in Cpus :
         /\ n = Head(l) /\ d = t_cpu[n] /\ make_runnable(c, n)
         /\ Tail(l) \in Seq(Thread) /\ NoDup(Tail(l)) /\ n \notin Elems(Tail(l))
         /\ Elems(l) = Elems(Tail(l)) \cup {n}
  BY Zenon, <1>1, TailElems DEF TypeOK, ThreadTypes, wchan_wake
<1>3. list' = [list EXCEPT ![c] = Tail(l)]
  BY Zenon DEF wchan_wake
<1>4. PICK loc \in [Thread -> Place \cup {NoPlace}] : Located(loc)
  BY Zenon DEF PlaceInv
<1>5. loc[n] = <<"list", c>> /\ t_state[n] # Nothing
  <2>1. loc[n] = <<"list", c>>
    BY <1>2, <1>4 DEF Located
  <2> QED BY <1>2, <1>4, <2>1 DEF Located, NoPlace
<1>6. /\ \A e \in Cpus : /\ n \notin Elems(c_runqueue[e]) /\ (n \in Elems(list[e]) => e = c)
                         /\ n \notin Elems(mig[e].victims) /\ n \notin c_zombies[e]
                         /\ ~(c_curthread[e] = n /\ ~c_isidle[e])
      /\ \A w \in Chan : n \notin Elems(wc_threads[w])
      /\ \A p \in Thread : child[p] # n
  BY <1>2, <1>4, <1>5 DEF Located
<1>7. Tail(l) = <<>> <=> ~(Len(l) > 1)
  <2>1. Len(l) \in Nat /\ Len(l) > 0 /\ Len(Tail(l)) = Len(l) - 1
    BY <1>1, TailElems
  <2>2. Tail(l) = <<>> <=> Len(Tail(l)) = 0
    <3>1. \A x \in Seq(Thread) : x = <<>> <=> Len(x) = 0
      OBVIOUS
    <3> QED BY Zenon, <1>2, <3>1
  <2>3. \A k \in Nat : k > 0 => (k - 1 = 0 <=> ~(k > 1))
    OBVIOUS
  <2> HIDE DEF l
  <2> QED BY Zenon, <2>1, <2>2, <2>3
<1>8. \/ pc' = pc /\ chan' = chan /\ wc_lock' = wc_lock /\ Tail(l) # <<>>
      \/ /\ Tail(l) = <<>> /\ wc_lock' = [wc_lock EXCEPT ![chan[c]] = 0]
         /\ chan' = [chan EXCEPT ![c] = Nothing]
         /\ pc' = [pc EXCEPT ![c] = IF c_isidle[c] THEN "relock" ELSE "run"]
  BY Zenon, <1>7 DEF wchan_wake, Return, Goto
<1>9. /\ c_runqueue[d] \in Seq(Thread)
      /\ c_runqueue' = [c_runqueue EXCEPT ![d] = Append(c_runqueue[d], n)]
      /\ t_state' = [t_state EXCEPT ![n] = "S_READY"]
      /\ UNCHANGED <<load, c_curthread, c_isidle, c_zombies, rq_lock, newstate, mig, t_cpu, doing,
                     child, secs, wc_threads, sem_count>>
  BY Zenon, <1>2 DEF make_runnable, wchan_wake, TypeOK, CpuTypes
<1> HIDE DEF l
<1>10. TypeOK'
  <2>1. IpiTypes' /\ CpuTypes'
    BY Zenon, <1>2, <1>9, RunnableType DEF TypeOK, CpuTypes
  <2>2. ThreadTypes'
    BY Zenon, <1>2, <1>9, RunnableType DEF TypeOK, ThreadTypes
  <2>3. PathTypes'
    <3>1. pc' \in [Cpus -> Points] /\ chan' \in [Cpus -> Chan \cup {Nothing}]
      BY Zenon, <1>8 DEF TypeOK, PathTypes, Points
    <3>2. list' \in [Cpus -> Seq(Thread)]
      BY Zenon, <1>2, <1>3 DEF TypeOK, PathTypes
    <3> QED BY Zenon, <1>9, <3>1, <3>2 DEF TypeOK, PathTypes
  <2>4. wc_lock' \in [Chan -> 0..NCpu]
    <3>1. 0 \in 0..NCpu
      BY ThreadsAssumption
    <3> QED BY Zenon, <1>8, <3>1 DEF TypeOK, ChanTypes
  <2>5. ChanTypes'
    BY Zenon, <1>9, <2>4 DEF TypeOK, ChanTypes
  <2> QED BY Zenon, <2>1, <2>2, <2>3, <2>5 DEF TypeOK
<1>11. PathInv'
  <2>1. \A e \in Cpus \ {c} : pc'[e] = pc[e] /\ chan'[e] = chan[e] /\ list'[e] = list[e]
    BY Zenon, <1>3, <1>8 DEF TypeOK, PathTypes
  <2>2. \A w \in Chan : wc_lock'[w] = wc_lock[w] \/ (wc_lock'[w] = 0 /\ w = chan[c])
    BY Zenon, <1>8 DEF TypeOK, ChanTypes
  <2>3. ASSUME NEW e \in Cpus, e # c PROVE PathInv!(e)'
    BY SMTT(30), <1>1, <1>9, <2>1, <2>2, <2>3, CpuFacts DEF PathInv, Sleeping
  <2>4. PathInv!(c)'
    <3>1. CASE Tail(l) # <<>>
      BY <1>1, <1>3, <1>8, <1>9, <3>1 DEF PathInv, Sleeping, TypeOK, PathTypes
    <3>2. CASE Tail(l) = <<>>
      <4>1. pc'[c] \in {"relock", "run"} /\ (pc'[c] = "relock" <=> c_isidle[c]) /\ list'[c] = <<>>
        BY Zenon, <1>3, <1>8, <3>2 DEF TypeOK, PathTypes
      <4>2. \A w \in Chan : wc_lock'[w] # c
        BY <1>1, <1>8, <3>2, CpuFacts DEF PathInv, TypeOK, ChanTypes
      <4> QED
        BY Zenon, <1>9, <4>1, <4>2 DEF PathInv, Sleeping
    <3> QED BY Zenon, <3>1, <3>2
  <2>5. ASSUME NEW e \in Cpus PROVE PathInv!(e)'
    <3>1. CASE e = c BY <2>4, <3>1
    <3>2. CASE e # c BY Zenon, <2>3, <3>2
    <3> QED BY Zenon, <3>1, <3>2
  <2> QED BY Zenon, <2>5 DEF PathInv
<1>12. MigInv'
  BY Zenon, <1>1, <1>2, <1>8, <1>9, RunnableMig DEF TypeOK, PathTypes
<1>13. OwnInv'
  BY Zenon, <1>2, <1>5, <1>6, <1>9, RunnableOwn
<1>14. PlaceInv'
  <2> DEFINE new == [loc EXCEPT ![n] = <<"runqueue", d>>]
  <2>1. new \in [Thread -> Place \cup {NoPlace}]
    BY Zenon, <1>2 DEF Place
  <2>2. Located(new)'
    <3> SUFFICES ASSUME NEW u \in Thread PROVE Located(new)!(u)'
      BY Zenon DEF Located
    <3>1. \A e \in Cpus : u \in Elems(c_runqueue'[e]) <=> u \in Elems(c_runqueue[e]) \/ (u = n /\ e = d)
      BY <1>2, <1>9, AppendElems DEF TypeOK, CpuTypes
    <3>2. \A e \in Cpus : u \in Elems(list'[e]) <=> u \in Elems(list[e]) /\ u # n
      BY ZenonT(30), <1>2, <1>3, <1>6 DEF TypeOK, PathTypes, l
    <3>3. t_state'[u] = Nothing <=> t_state[u] = Nothing
      BY Zenon, <1>5, <1>9 DEF TypeOK, ThreadTypes, Nothing
    <3>4. CASE u = n
      BY Zenon, <3>1, <3>2, <3>3, <3>4, <1>5, <1>6, <1>9 DEF NoPlace
    <3>5. CASE u # n
      BY SMTT(30), <3>1, <3>2, <3>3, <3>5, <1>4, <1>9 DEF Located
    <3> QED BY Zenon, <3>4, <3>5
  <2>3. QueuesInv'
    BY Zenon, <1>2, <1>3, <1>6, <1>9, AppendElems DEF PlaceInv, QueuesInv, TypeOK, CpuTypes, PathTypes
  <2> QED BY Zenon, <2>1, <2>2, <2>3 DEF PlaceInv
<1>15. DoingInv'
  <2>1. ASSUME NEW e \in Cpus, pc'[e] = "switch" PROVE pc[e] = "switch"
    BY ZenonT(30), <1>8, <2>1 DEF TypeOK, PathTypes
  <2> QED
    BY Zenon, <1>2, <1>5, <1>9, <2>1 DEF DoingInv, TypeOK, ThreadTypes, Nothing
<1>16. SemInv'
  <2>1. ASSUME NEW e \in Cpus, Sleeping(e)'
        PROVE Sleeping(e) /\ chan'[e] = chan[e] /\ wc_lock'[chan[e]] = wc_lock[chan[e]]
    <3>1. pc'[e] = "switch" /\ newstate[e] = "S_SLEEP"
      BY Zenon, <1>9, <2>1 DEF Sleeping
    <3>2. e # c /\ pc[e] = "switch"
      BY Zenon, <1>1, <1>8, <3>1 DEF TypeOK, PathTypes
    <3>3. Sleeping(e) /\ wc_lock[chan[e]] = e /\ chan[e] \in Chan
      BY Zenon, <3>1, <3>2 DEF Sleeping, PathInv
    <3>4. chan[e] # chan[c]
      BY Zenon, <1>1, <3>2, <3>3
    <3> QED
      BY Zenon, <1>8, <3>2, <3>3, <3>4 DEF TypeOK, PathTypes, ChanTypes
  <2>2. ASSUME NEW e \in Cpus, Sleeping(e)'
        PROVE  IF chan'[e] = "sem" THEN sem_count' = 0 /\ doing'[c_curthread'[e]] = "P"
                                   ELSE doing'[c_curthread'[e]] = "clocksleep"
    BY Zenon, <1>9, <2>1, <2>2 DEF SemInv
  <2>3. \A u \in Elems(wc_threads'["sem"]) : doing'[u] = "P"
    BY Zenon, <1>9 DEF SemInv
  <2> QED
    BY Zenon, <2>2, <2>3 DEF SemInv
<1> QED
  BY Zenon, <1>10, <1>11, <1>12, <1>13, <1>14, <1>15, <1>16

(* V and timerclock take threads off a channel, if there are any, and hold *)
(* its spinlock for as long as they have them in hand.                     *)
LEMMA WakeStep ==
    ASSUME IInv, NEW c \in Cpus, V(c) \/ timerclock(c)
    PROVE  IInv'
<1> USE DEF IInv
<1>1. PICK w \in Chan, k \in Nat :
        /\ k \in 0..Len(wc_threads[w])
        /\ wake(c, w, SubSeq(wc_threads[w], 1, k))
        /\ wc_lock[w] = 0
        /\ V(c) => w = "sem"
        /\ timerclock(c) => w = "lbolt"
  BY WakeCases DEF TypeOK, ChanTypes
<1>2. PICK q \in Seq(Thread) : q = wc_threads[w] /\ NoDup(q)
  BY Zenon DEF TypeOK, ChanTypes, PlaceInv, QueuesInv
<1> DEFINE ts == SubSeq(q, 1, k)  rest == SubSeq(q, k + 1, Len(q))
<1>3. /\ ts \in Seq(Thread) /\ rest \in Seq(Thread) /\ NoDup(ts) /\ NoDup(rest) /\ Len(ts) = k
      /\ Elems(ts) \cap Elems(rest) = {} /\ Elems(ts) \cup Elems(rest) = Elems(q)
  BY <1>1, <1>2, SplitElems
<1> HIDE DEF ts, rest
<1>4. Calm(c) /\ ~Stopped /\ list[c] = <<>> /\ (\A v \in Chan : wc_lock[v] # c)
  <2>1. Calm(c)
    BY Zenon DEF V, timerclock, Interruptible, Calm
  <2> QED BY Zenon, <2>1, CalmFacts
<1>5. wc_threads' = [wc_threads EXCEPT ![w] = rest]
  BY Zenon, <1>1, <1>2, <1>3 DEF wake, ts, rest
<1>6. list' = [list EXCEPT ![c] = ts]
  BY Zenon, <1>1, <1>2, <1>4 DEF wake, ts, TypeOK, PathTypes
<1>7. /\ ts = <<>> => /\ UNCHANGED <<wc_lock, chan>>
                      /\ pc' = [pc EXCEPT ![c] = IF c_isidle[c] THEN "relock" ELSE "run"]
      /\ ts # <<>> => /\ wc_lock' = [wc_lock EXCEPT ![w] = c] /\ chan' = [chan EXCEPT ![c] = w]
                      /\ pc' = [pc EXCEPT ![c] = "wake"]
  BY Zenon, <1>1, <1>2 DEF wake, Return, Goto, ts
<1>8. UNCHANGED <<cpuvars, ipivars, threadvars, newstate, mig>>
  BY Zenon, <1>1 DEF V, timerclock, wake
<1>9. /\ sem_count' \in 0..load.count
      /\ UNCHANGED sem_count \/ w = "sem"
  BY <1>1, LoadFacts DEF V, timerclock, TypeOK, ChanTypes
<1>10. TypeOK'
  <2>1. PathTypes' /\ ChanTypes'
    BY Zenon, <1>1, <1>8, <1>9, WakeType DEF cpuvars
  <2> QED BY Zenon, <1>8, <2>1, SameTypes DEF TypeOK, cpuvars
<1>11. /\ \A e \in Cpus \ {c} : pc'[e] = pc[e] /\ chan'[e] = chan[e] /\ list'[e] = list[e]
       /\ list'[c] = ts
       /\ ts = <<>> => pc'[c] \in {"relock", "run"} /\ (pc'[c] = "relock" <=> c_isidle[c])
       /\ ts # <<>> => pc'[c] = "wake" /\ chan'[c] = w
  BY Zenon, <1>6, <1>7 DEF TypeOK, PathTypes
<1>12. PathInv'
  <2>1. ASSUME NEW e \in Cpus, e # c PROVE PathInv!(e)'
    <3>1. \A v \in Chan : wc_lock[v] = e <=> wc_lock'[v] = e
      BY Zenon, <1>1, <1>7, <2>1, CpuFacts DEF TypeOK, ChanTypes
    <3> QED
      BY <1>4, <1>8, <1>11, <2>1, <3>1 DEF PathInv, Sleeping, cpuvars
  <2>2. PathInv!(c)'
    BY SMTT(30), <1>4, <1>7, <1>8, <1>11 DEF PathInv, Sleeping, cpuvars, TypeOK, ChanTypes
  <2>3. ASSUME NEW e \in Cpus PROVE PathInv!(e)'
    <3>1. CASE e = c BY <2>2, <3>1
    <3>2. CASE e # c BY Zenon, <2>1, <3>2
    <3> QED BY Zenon, <3>1, <3>2
  <2> QED BY Zenon, <2>3 DEF PathInv
<1>13. MigInv'
  BY ZenonT(30), <1>4, <1>8, <1>11 DEF MigInv, cpuvars, Calm
<1>14. OwnInv'
  BY Zenon, <1>8, SameOwners DEF cpuvars, threadvars
<1>15. PlaceInv'
  <2>1. PICK loc \in [Thread -> Place \cup {NoPlace}] : Located(loc)
    BY Zenon DEF PlaceInv
  <2> DEFINE new == [u \in Thread |-> IF u \in Elems(ts) THEN <<"list", c>> ELSE loc[u]]
  <2>2. new \in [Thread -> Place \cup {NoPlace}]
    BY Zenon DEF Place
  <2>3. Located(new)'
    <3> SUFFICES ASSUME NEW u \in Thread PROVE Located(new)!(u)'
      BY Zenon DEF Located
    <3>1. \A v \in Chan : u \in Elems(wc_threads'[v]) <=>
                          u \in Elems(wc_threads[v]) /\ ~(v = w /\ u \in Elems(ts))
      BY Zenon, <1>2, <1>3, <1>5 DEF TypeOK, ChanTypes
    <3>2. \A e \in Cpus : u \in Elems(list'[e]) <=> u \in Elems(list[e]) \/ (e = c /\ u \in Elems(ts))
      BY Zenon, <1>4, <1>6, ListElems DEF TypeOK, PathTypes
    <3>3. CASE u \in Elems(ts)
      <4>1. loc[u] = <<"wchan", w>>
        BY SMTT(30), <1>2, <1>3, <2>1, <3>3 DEF Located
      <4>2. new[u] = <<"list", c>>
        BY Zenon, <3>3
      <4> QED
        BY SMTT(30), <3>1, <3>2, <3>3, <4>1, <4>2, <2>1, <1>8 DEF Located, NoPlace, cpuvars, threadvars
    <3>4. CASE u \notin Elems(ts)
      BY SMTT(30), <3>1, <3>2, <3>4, <2>1, <1>8 DEF Located, cpuvars, threadvars
    <3> QED BY Zenon, <3>3, <3>4
  <2>4. QueuesInv'
    BY Zenon, <1>3, <1>5, <1>6, <1>8 DEF PlaceInv, QueuesInv, TypeOK, PathTypes, ChanTypes, cpuvars
  <2> QED BY Zenon, <2>2, <2>3, <2>4 DEF PlaceInv
<1>16. DoingInv'
  BY Zenon, <1>7, <1>8 DEF DoingInv, TypeOK, PathTypes, cpuvars, threadvars
<1>17. SemInv'
  <2>1. ASSUME NEW e \in Cpus, Sleeping(e)'
        PROVE  Sleeping(e) /\ chan'[e] = chan[e] /\ chan[e] # w
    <3>1. e # c /\ Sleeping(e) /\ chan'[e] = chan[e]
      BY Zenon, <1>8, <1>11, <2>1 DEF Sleeping
    <3>2. wc_lock[chan[e]] = e
      BY Zenon, <3>1 DEF PathInv
    <3> QED BY Zenon, <1>1, <3>1, <3>2, CpuFacts
  <2>2. Elems(wc_threads'["sem"]) \subseteq Elems(wc_threads["sem"])
    BY Zenon, <1>2, <1>3, <1>5 DEF TypeOK, ChanTypes, Chan
  <2> QED
    BY Zenon, <1>8, <1>9, <2>1, <2>2 DEF SemInv, cpuvars, threadvars
<1> QED
  BY Zenon, <1>10, <1>12, <1>13, <1>14, <1>15, <1>16, <1>17

-----------------------------------------------------------------------------
(* thread_switch *)

(* The places while cpu c is between two threads: it runs none, its run    *)
(* queue is q and its zombies are z, the states are st and the channels W. *)
Between(loc, c, q, st, z, W) ==
    \A u \in Thread :
      /\ loc[u] = NoPlace <=> st[u] = Nothing
      /\ \A d \in Cpus :
           /\ loc[u] = <<"cpu", d>>      <=> d # c /\ c_curthread[d] = u /\ ~c_isidle[d]
           /\ loc[u] = <<"zombies", d>>  <=> u \in IF d = c THEN z ELSE c_zombies[d]
           /\ loc[u] = <<"runqueue", d>> <=> u \in Elems(IF d = c THEN q ELSE c_runqueue[d])
           /\ loc[u] = <<"list", d>>     <=> u \in Elems(list[d])
           /\ loc[u] = <<"victims", d>>  <=> u \in Elems(mig[d].victims)
      /\ \A p \in Thread : loc[u] = <<"child", p>> <=> child[p] = u
      /\ \A w \in Chan : loc[u] = <<"wchan", w>> <=> u \in Elems(W[w])

(* Of the threads only the current one has changed its state; those of the *)
(* queue and the zombies belong to the cpu.                                *)
Handover(c, q, st, z) ==
    /\ \A u \in Thread : u # c_curthread[c] => st[u] = t_state[u]
    /\ st[c_curthread[c]] # Nothing
    /\ \A u \in Elems(q) : t_cpu[u] = c /\ u \notin z
    /\ \A u \in z : t_cpu[u] = c /\ st[u] = "S_ZOMBIE"
    /\ \A u \in Thread : st[u] \in {Nothing, "S_ZOMBIE"} => doing[u] \in {"hatch", "user"}

(* What SemInv and QueuesInv say of the channels W.                        *)
Channels(W) ==
    /\ \A w \in Chan : NoDup(W[w])
    /\ \A u \in Elems(W["sem"]) : doing[u] = "P"

(* The loop goes idle, or the first thread of the queue runs and the       *)
(* zombies are gone.                                                       *)
LEMMA NextPlace ==
    ASSUME TypeOK, NEW c \in Cpus, NEW q \in Seq(Thread), NEW st \in [Thread -> States],
           NEW z \in SUBSET Thread, NEW W, NEW loc \in [Thread -> Place \cup {NoPlace}],
           Between(loc, c, q, st, z, W), next_thread(c, q, st, z), NoDup(q),
           wc_threads' = W, UNCHANGED <<list, mig, child>>
    PROVE  \E new \in [Thread -> Place \cup {NoPlace}] : Located(new)'
<1>1. CASE q = <<>>
  <2>1. /\ c_runqueue' = [c_runqueue EXCEPT ![c] = q] /\ c_isidle' = [c_isidle EXCEPT ![c] = TRUE]
        /\ t_state' = st /\ c_zombies' = [c_zombies EXCEPT ![c] = z] /\ c_curthread' = c_curthread
    BY Zenon, <1>1 DEF next_thread
  <2>2. Located(loc)'
    <3> SUFFICES ASSUME NEW u \in Thread PROVE Located(loc)!(u)'
      BY Zenon DEF Located
    <3>1. ASSUME NEW d \in Cpus
          PROVE  /\ c_runqueue'[d] = IF d = c THEN q ELSE c_runqueue[d]
                 /\ c_zombies'[d] = IF d = c THEN z ELSE c_zombies[d]
                 /\ c_isidle'[d] <=> d = c \/ c_isidle[d]
      BY Zenon, <2>1 DEF TypeOK, CpuTypes
    <3> QED
      BY SMTT(30), <2>1, <3>1 DEF Between
  <2> QED BY Zenon, <2>2
<1>2. CASE q # <<>>
  <2>1. PICK h \in Thread : /\ h = Head(q) /\ Tail(q) \in Seq(Thread)
                            /\ Elems(q) = Elems(Tail(q)) \cup {h} /\ h \notin Elems(Tail(q))
    BY Zenon, <1>2, TailElems
  <2>2. /\ c_runqueue' = [c_runqueue EXCEPT ![c] = Tail(q)]
        /\ c_isidle' = [c_isidle EXCEPT ![c] = FALSE]
        /\ c_curthread' = [c_curthread EXCEPT ![c] = h]
        /\ t_state' = exorcised(z, [st EXCEPT ![h] = "S_RUN"])
        /\ c_zombies' = [c_zombies EXCEPT ![c] = {}]
    BY Zenon, <1>2, <2>1 DEF next_thread
  <2>3. PICK new \in [Thread -> Place \cup {NoPlace}] :
            \A u \in Thread : new[u] = IF u = h THEN <<"cpu", c>> ELSE IF u \in z THEN NoPlace ELSE loc[u]
    <3> DEFINE f == [u \in Thread |-> IF u = h THEN <<"cpu", c>> ELSE IF u \in z THEN NoPlace ELSE loc[u]]
    <3>1. f \in [Thread -> Place \cup {NoPlace}]
      BY Zenon DEF Place
    <3>2. \A u \in Thread : f[u] = IF u = h THEN <<"cpu", c>> ELSE IF u \in z THEN NoPlace ELSE loc[u]
      BY Zenon
    <3> HIDE DEF f
    <3> QED BY Zenon, <3>1, <3>2
  <2>4. loc[h] = <<"runqueue", c>> /\ \A u \in Thread : u \in z <=> loc[u] = <<"zombies", c>>
    BY Zenon, <2>1 DEF Between
  <2>5. h \notin z /\ \A u \in Thread : t_state'[u] = IF u \in z THEN Nothing ELSE IF u = h THEN "S_RUN" ELSE st[u]
    BY <2>2, <2>4 DEF exorcised
  <2>6. Located(new)'
    <3> SUFFICES ASSUME NEW u \in Thread PROVE Located(new)!(u)'
      BY Zenon DEF Located
    <3>1. ASSUME NEW d \in Cpus
          PROVE  /\ c_runqueue'[d] = IF d = c THEN Tail(q) ELSE c_runqueue[d]
                 /\ c_zombies'[d] = IF d = c THEN {} ELSE c_zombies[d]
                 /\ c_isidle'[d] <=> d # c /\ c_isidle[d]
                 /\ c_curthread'[d] = IF d = c THEN h ELSE c_curthread[d]
      BY Zenon, <2>2 DEF TypeOK, CpuTypes
    <3>2. CASE u = h
      <4>1. new[u] = <<"cpu", c>> /\ t_state'[u] # Nothing
        BY Zenon, <2>3, <2>5, <3>2 DEF Nothing
      <4> QED
        BY SMTT(30), <2>1, <2>4, <3>1, <3>2, <4>1 DEF Between, NoPlace
    <3>3. CASE u \in z
      <4>1. new[u] = NoPlace /\ t_state'[u] = Nothing /\ u # h
        BY Zenon, <2>3, <2>5, <3>3
      <4> QED
        BY SMTT(30), <2>1, <2>4, <3>1, <3>3, <4>1 DEF Between, NoPlace
    <3>4. CASE u # h /\ u \notin z
      <4>1. new[u] = loc[u] /\ t_state'[u] = st[u]
        BY Zenon, <2>3, <2>5, <3>4
      <4>2. ASSUME NEW d \in Cpus
            PROVE  /\ (loc[u] = <<"cpu", d>>) <=> (c_curthread'[d] = u /\ ~c_isidle'[d])
                   /\ (loc[u] = <<"zombies", d>>) <=> (u \in c_zombies'[d])
                   /\ (loc[u] = <<"runqueue", d>>) <=> (u \in Elems(c_runqueue'[d]))
        BY SMTT(30), <2>1, <2>4, <3>1, <3>4 DEF Between
      <4> QED
        BY SMTT(30), <4>1, <4>2 DEF Between
    <3> QED BY Zenon, <3>2, <3>3, <3>4
  <2> QED BY Zenon, <2>3, <2>6
<1> QED BY Zenon, <1>1, <1>2

(* The threads of a cpu still belong to it.                                *)
LEMMA NextOwn ==
    ASSUME TypeOK, OwnInv, NEW c \in Cpus, NEW q \in Seq(Thread), NEW st \in [Thread -> States],
           NEW z \in SUBSET Thread, next_thread(c, q, st, z), UNCHANGED <<t_cpu, mig>>,
           Handover(c, q, st, z)
    PROVE  OwnInv'
<1> USE DEF Handover
<1>1. \A d \in Cpus : /\ c_curthread[d] \in Thread /\ t_cpu[c_curthread[d]] = d
                      /\ Elems(c_runqueue[d]) \subseteq Thread /\ c_zombies[d] \subseteq Thread
  BY ZenonT(30), ListElems DEF TypeOK, CpuTypes, OwnInv
<1>2. CASE q = <<>>
  <2>1. /\ c_runqueue' = [c_runqueue EXCEPT ![c] = q] /\ c_isidle' = [c_isidle EXCEPT ![c] = TRUE]
        /\ t_state' = st /\ c_zombies' = [c_zombies EXCEPT ![c] = z] /\ c_curthread' = c_curthread
    BY Zenon, <1>2 DEF next_thread
  <2>2. OwnInv!(c)'
    BY <1>1, <2>1 DEF OwnInv, TypeOK, CpuTypes
  <2>3. ASSUME NEW d \in Cpus, d # c PROVE OwnInv!(d)'
    <3>1. c_curthread[d] # c_curthread[c] /\ c_curthread[c] \notin c_zombies[d]
      BY SMTT(30), <1>1, <2>3 DEF OwnInv
    <3>2. /\ c_runqueue'[d] = c_runqueue[d] /\ c_isidle'[d] = c_isidle[d]
          /\ c_zombies'[d] = c_zombies[d]
      BY Zenon, <2>1, <2>3 DEF TypeOK, CpuTypes
    <3> QED
      BY SMTT(30), <1>1, <2>1, <3>1, <3>2 DEF OwnInv
  <2>4. ASSUME NEW d \in Cpus PROVE OwnInv!(d)'
    <3>1. CASE d = c BY <2>2, <3>1
    <3>2. CASE d # c BY Zenon, <2>3, <3>2
    <3> QED BY Zenon, <3>1, <3>2
  <2> QED BY Zenon, <2>4 DEF OwnInv
<1>3. CASE q # <<>>
  <2>1. PICK h \in Thread : /\ h = Head(q) /\ Tail(q) \in Seq(Thread)
                            /\ Elems(q) = Elems(Tail(q)) \cup {h}
    BY Zenon, <1>3, TailElems
  <2>2. /\ c_runqueue' = [c_runqueue EXCEPT ![c] = Tail(q)]
        /\ c_isidle' = [c_isidle EXCEPT ![c] = FALSE]
        /\ c_curthread' = [c_curthread EXCEPT ![c] = h]
        /\ t_state' = exorcised(z, [st EXCEPT ![h] = "S_RUN"])
        /\ c_zombies' = [c_zombies EXCEPT ![c] = {}]
    BY Zenon, <1>3, <2>1 DEF next_thread
  <2>3. h \notin z /\ t_cpu[h] = c /\ t_state'[h] = "S_RUN"
        /\ \A u \in Thread : t_cpu[u] # c => t_state'[u] = t_state[u]
    BY Zenon, <1>1, <2>1, <2>2 DEF exorcised
  <2>4. OwnInv!(c)'
    BY SMTT(30), <2>1, <2>2, <2>3 DEF OwnInv, TypeOK, CpuTypes, Nothing
  <2>5. ASSUME NEW d \in Cpus, d # c PROVE OwnInv!(d)'
    <3>1. /\ c_runqueue'[d] = c_runqueue[d] /\ c_isidle'[d] = c_isidle[d]
          /\ c_zombies'[d] = c_zombies[d] /\ c_curthread'[d] = c_curthread[d]
      BY Zenon, <2>2, <2>5 DEF TypeOK, CpuTypes
    <3> QED
      BY SMTT(30), <1>1, <2>3, <2>5, <3>1 DEF OwnInv
  <2> QED BY SMTT(30), <2>4, <2>5 DEF OwnInv
<1> QED BY Zenon, <1>2, <1>3

(* The rest of the loop of thread_switch, once the old thread has been put *)
(* where it belongs; the cpu holds no spinlock after it.                   *)
LEMMA NextThreadStep ==
    ASSUME IInv, NEW c \in Cpus, pc[c] \in {"switch", "relock"},
           NEW q \in Seq(Thread), NEW st \in [Thread -> States], NEW z \in SUBSET Thread,
           NEW W \in [Chan -> Seq(Thread)], NEW loc \in [Thread -> Place \cup {NoPlace}],
           Between(loc, c, q, st, z, W), next_thread(c, q, st, z), NoDup(q),
           Handover(c, q, st, z), Channels(W), wc_threads' = W,
           wc_lock' = [w \in Chan |-> IF wc_lock[w] = c THEN 0 ELSE wc_lock[w]],
           newstate' = [newstate EXCEPT ![c] = Nothing] \/ UNCHANGED newstate,
           chan' = [chan EXCEPT ![c] = Nothing] \/ UNCHANGED chan,
           UNCHANGED <<load, rq_lock, ipivars, list, mig, t_cpu, doing, child, secs, sem_count>>
    PROVE  IInv'
<1> USE DEF IInv
<1>1. CpuTypes' /\ t_state' \in [Thread -> States] /\ pc' \in [Cpus -> Points]
  BY Zenon, NextThreadType
<1>2. TypeOK'
  <2>1. PathTypes'
    BY Zenon, <1>1 DEF TypeOK, PathTypes
  <2>2. ThreadTypes'
    BY Zenon, <1>1 DEF TypeOK, ThreadTypes
  <2>3. wc_lock' \in [Chan -> 0..NCpu]
    <3>1. 0 \in 0..NCpu
      BY ThreadsAssumption
    <3> QED BY Zenon, <3>1 DEF TypeOK, ChanTypes
  <2>4. ChanTypes'
    BY Zenon, <2>3 DEF TypeOK, ChanTypes
  <2> QED BY Zenon, <1>1, <2>1, <2>2, <2>4, SameTypes DEF TypeOK
<1>3. /\ \A e \in Cpus \ {c} : /\ pc'[e] = pc[e] /\ c_isidle'[e] = c_isidle[e]
                               /\ c_runqueue'[e] = c_runqueue[e] /\ c_curthread'[e] = c_curthread[e]
                               /\ newstate'[e] = newstate[e] /\ chan'[e] = chan[e]
      /\ pc'[c] \in {"idle", "run"} /\ (pc'[c] = "idle" <=> c_isidle'[c])
  BY SMTT(30) DEF next_thread, Goto, TypeOK, CpuTypes, PathTypes
<1>4. ~Stopped /\ list[c] = <<>> /\ mig[c].victims = <<>> /\ \A d \in Cpus : rq_lock[d] # c
  BY ZenonT(30) DEF Stopped, PathInv, MigInv
<1>5. PathInv'
  <2>1. \A w \in Chan : wc_lock'[w] # c
    BY Zenon, CpuFacts
  <2>2. ASSUME NEW e \in Cpus PROVE PathInv!(e)'
    <3>1. CASE e = c
      BY Zenon, <1>3, <1>4, <2>1, <3>1 DEF PathInv, Sleeping
    <3>2. CASE e # c
      <4>1. \A w \in Chan : wc_lock[w] = e <=> wc_lock'[w] = e
        BY Zenon, <3>2, CpuFacts
      <4> QED
        BY SMTT(30), <1>3, <1>4, <3>2, <4>1 DEF PathInv, Sleeping
    <3> QED BY Zenon, <3>1, <3>2
  <2> HIDE DEF IInv
  <2> QED BY Zenon, <2>2 DEF PathInv
<1>6. MigInv'
  <2>1. ASSUME NEW e \in Cpus, e # c PROVE MigInv!(e)'
    <3>1. /\ MigInv!(e) /\ ~Stopped
          /\ pc'[e] = pc[e] /\ c_runqueue'[e] = c_runqueue[e] /\ UNCHANGED <<mig, rq_lock>>
      BY Zenon, <1>3, <1>4, <2>1 DEF MigInv
    <3> HIDE DEF IInv
    <3> QED BY Zenon, <3>1
  <2>2. ASSUME NEW e \in Cpus, e = c PROVE MigInv!(e)'
    <3>1. /\ mig'[e].victims = <<>> /\ \A d \in Cpus : rq_lock'[d] # e
          /\ pc'[e] \in {"idle", "run"}
      BY Zenon, <1>3, <1>4, <2>2
    <3> HIDE DEF IInv
    <3> QED BY Zenon, <3>1
  <2> HIDE DEF IInv
  <2> QED BY Zenon, <2>1, <2>2 DEF MigInv
<1>7. PlaceInv'
  <2>1. \E new \in [Thread -> Place \cup {NoPlace}] : Located(new)'
    BY Zenon, NextPlace
  <2>2. ASSUME NEW d \in Cpus PROVE NoDup(c_runqueue'[d])
    <3>1. NoDup(c_runqueue'[c])
      <4>1. CASE q = <<>>
        BY Zenon, <4>1 DEF next_thread, TypeOK, CpuTypes
      <4>2. CASE q # <<>>
        <5>1. c_runqueue'[c] = Tail(q)
          BY Zenon, <4>2 DEF next_thread, TypeOK, CpuTypes
        <5> QED BY ZenonT(30), <4>2, <5>1, TailElems
      <4> QED BY Zenon, <4>1, <4>2
    <3> QED
      BY Zenon, <1>3, <3>1 DEF PlaceInv, QueuesInv
  <2>3. QueuesInv'
    BY Zenon, <2>2 DEF PlaceInv, QueuesInv, Channels
  <2> QED BY Zenon, <2>1, <2>3 DEF PlaceInv
<1>8. OwnInv'
  <2>1. TypeOK /\ OwnInv /\ UNCHANGED <<t_cpu, mig>>
    BY Zenon
  <2> HIDE DEF IInv
  <2> QED BY Zenon, <2>1, NextOwn
<1>9. DoingInv'
  <2>1. ASSUME NEW u \in Thread, t_state'[u] \in {Nothing, "S_ZOMBIE"}
        PROVE  doing[u] \in {"hatch", "user"}
    <3>1. t_state'[u] = st[u] \/ u \in z \/ t_state'[u] = "S_RUN"
      BY Zenon, TailElems DEF next_thread, exorcised
    <3> QED BY Zenon, <2>1, <3>1 DEF Nothing, Handover
  <2> QED
    BY Zenon, <1>3, <2>1 DEF DoingInv
<1>10. SemInv'
  <2>1. ASSUME NEW e \in Cpus, Sleeping(e)' PROVE e # c /\ Sleeping(e)
    BY Zenon, <1>3, <2>1 DEF Sleeping
  <2>2. \A u \in Elems(wc_threads'["sem"]) : doing'[u] = "P"
    BY ZenonT(30) DEF Channels
  <2>3. ASSUME NEW e \in Cpus, Sleeping(e)'
        PROVE  IF chan'[e] = "sem" THEN sem_count' = 0 /\ doing'[c_curthread'[e]] = "P"
                                   ELSE doing'[c_curthread'[e]] = "clocksleep"
    <3>1. e # c /\ IF chan[e] = "sem" THEN sem_count = 0 /\ doing[c_curthread[e]] = "P"
                                      ELSE doing[c_curthread[e]] = "clocksleep"
      BY Zenon, <2>1, <2>3 DEF SemInv
    <3> QED BY Zenon, <1>3, <3>1
  <2> HIDE DEF IInv
  <2> QED
    BY Zenon, <2>2, <2>3 DEF SemInv
<1> QED
  BY Zenon, <1>2, <1>5, <1>6, <1>7, <1>8, <1>9, <1>10

(* unidle goes on with the loop.                                           *)
LEMMA UnidleStep ==
    ASSUME IInv, NEW c \in Cpus, unidle(c)
    PROVE  IInv'
<1> USE DEF IInv
<1>1. PICK q \in Seq(Thread), st \in [Thread -> States], z \in SUBSET Thread,
           W \in [Chan -> Seq(Thread)] :
         q = c_runqueue[c] /\ st = t_state /\ z = c_zombies[c] /\ W = wc_threads
  BY Zenon DEF TypeOK, CpuTypes, ThreadTypes, ChanTypes
<1>2. PICK loc \in [Thread -> Place \cup {NoPlace}] : Located(loc)
  BY Zenon DEF PlaceInv
<1>3. pc[c] = "relock" /\ c_isidle[c] /\ \A w \in Chan : wc_lock[w] # c
  BY ZenonT(30) DEF unidle, PathInv, Sleeping, Stopped
<1>4. Between(loc, c, q, st, z, W)
  <2> SUFFICES ASSUME NEW u \in Thread PROVE Between(loc, c, q, st, z, W)!(u)
    BY Zenon DEF Between
  <2> HIDE DEF IInv
  <2>1. Located(loc)!(u)
    BY Zenon, <1>2 DEF Located
  <2> QED BY Zenon, <1>1, <1>3, <2>1
<1>5. wc_lock' = [w \in Chan |-> IF wc_lock[w] = c THEN 0 ELSE wc_lock[w]] /\ wc_threads' = W
  BY ZenonT(30), <1>1, <1>3 DEF unidle, chanvars, TypeOK, ChanTypes
<1>6. Handover(c, q, st, z)
  <2>1. \A u \in Elems(q) : u \in Thread /\ u \notin z
    BY <1>1, <1>2, ListElems DEF Located
  <2>2. /\ t_state[c_curthread[c]] # Nothing
        /\ \A u \in Elems(c_runqueue[c]) : t_cpu[u] = c
        /\ \A u \in c_zombies[c] : t_cpu[u] = c /\ t_state[u] = "S_ZOMBIE"
    BY Zenon DEF OwnInv
  <2>3. \A u \in Thread : t_state[u] \in {Nothing, "S_ZOMBIE"} => doing[u] \in {"hatch", "user"}
    BY Zenon DEF DoingInv
  <2> HIDE DEF IInv
  <2> QED BY Zenon, <1>1, <2>1, <2>2, <2>3 DEF Handover
<1>7. Channels(W) /\ NoDup(q)
  BY Zenon, <1>1 DEF SemInv, PlaceInv, QueuesInv, Channels
<1>8. /\ next_thread(c, q, st, z) /\ UNCHANGED <<newstate, chan>>
      /\ UNCHANGED <<load, rq_lock, ipivars, list, mig, t_cpu, doing, child, secs, sem_count>>
  BY Zenon, <1>1 DEF unidle, chanvars
<1> HIDE DEF IInv
<1> QED
  BY Zenon, <1>3, <1>4, <1>5, <1>6, <1>7, <1>8, NextThreadStep

=============================================================================
