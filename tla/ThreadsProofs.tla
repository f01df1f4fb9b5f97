--------------------------- MODULE ThreadsProofs ----------------------------
(***************************************************************************)
(* The safety of Threads, proved for any number of cpus and threads and    *)
(* for every load: the other steps, which move threads between cpus, and   *)
(* the theorems.                                                           *)
(***************************************************************************)
EXTENDS ThreadsSteps, FiniteSetTheorems

(* With q, st, z and W the current thread t of cpu c is at place p.        *)
PutAt(p, c, t, q, st, z, W) ==
    /\ p \in {<<"runqueue", c>>, <<"zombies", c>>} \cup ({"wchan"} \X Chan)
    /\ st[t] # Nothing
    /\ \A u \in Thread :
         /\ u # t => st[u] = t_state[u]
         /\ u \in Elems(q) <=> u \in Elems(c_runqueue[c]) \/ (u = t /\ p = <<"runqueue", c>>)
         /\ u \in z <=> u \in c_zombies[c] \/ (u = t /\ p = <<"zombies", c>>)
         /\ \A w \in Chan :
              u \in Elems(W[w]) <=> u \in Elems(wc_threads[w]) \/ (u = t /\ p = <<"wchan", w>>)

(* The current thread of cpu c is put at place p.                          *)
LEMMA LeaveCpu ==
    ASSUME NEW c \in Cpus, NEW t \in Thread, NEW q, NEW st, NEW z, NEW W, NEW p,
           NEW loc \in [Thread -> Place \cup {NoPlace}], Located(loc),
           t = c_curthread[c], ~c_isidle[c], PutAt(p, c, t, q, st, z, W)
    PROVE  \E mid \in [Thread -> Place \cup {NoPlace}] : Between(mid, c, q, st, z, W)
<1> USE DEF PutAt
<1> DEFINE mid == [loc EXCEPT ![t] = p]
<1>1. p \in Place /\ mid \in [Thread -> Place \cup {NoPlace}] /\ p # NoPlace
  BY DEF Place, NoPlace
<1>2. loc[t] = <<"cpu", c>>
  BY Zenon DEF Located
<1>3. ASSUME NEW u \in Thread PROVE Between(mid, c, q, st, z, W)!(u)
  <2>1. CASE u = t
    <3>1. mid[u] = p
      BY Zenon, <2>1
    <3>2. /\ \A d \in Cpus : /\ c_curthread[d] = u /\ ~c_isidle[d] => d = c
                             /\ u \notin c_zombies[d] /\ u \notin Elems(c_runqueue[d])
                             /\ u \notin Elems(list[d]) /\ u \notin Elems(mig[d].victims)
          /\ \A v \in Thread : child[v] # u
          /\ \A w \in Chan : u \notin Elems(wc_threads[w])
      BY <1>2, <2>1 DEF Located
    <3> HIDE DEF mid
    <3>3. \A d \in Cpus :
           /\ mid[u] = <<"cpu", d>>      <=> d # c /\ c_curthread[d] = u /\ ~c_isidle[d]
           /\ mid[u] = <<"zombies", d>>  <=> u \in IF d = c THEN z ELSE c_zombies[d]
           /\ mid[u] = <<"runqueue", d>> <=> u \in Elems(IF d = c THEN q ELSE c_runqueue[d])
           /\ mid[u] = <<"list", d>>     <=> u \in Elems(list[d])
           /\ mid[u] = <<"victims", d>>  <=> u \in Elems(mig[d].victims)
      BY SMTT(30), <2>1, <3>1, <3>2
    <3>4. /\ mid[u] # NoPlace /\ \A v \in Thread : mid[u] # <<"child", v>>
          /\ \A w \in Chan : mid[u] = <<"wchan", w>> <=> u \in Elems(W[w])
      BY <1>1, <2>1, <3>1, <3>2
    <3> QED BY Zenon, <2>1, <3>2, <3>3, <3>4
  <2>2. CASE u # t
    <3>1. mid[u] = loc[u] /\ st[u] = t_state[u]
      BY Zenon, <2>2
    <3> HIDE DEF mid
    <3> QED
      BY SMTT(30), <2>2, <3>1 DEF Located
  <2> QED BY Zenon, <2>1, <2>2
<1>4. Between(mid, c, q, st, z, W)
  BY Zenon, <1>3 DEF Between
<1> HIDE DEF mid, PutAt
<1> QED BY Zenon, <1>1, <1>4

(* thread_switch puts the old thread on the run queue, on the channel or   *)
(* among the zombies, and goes on with the loop.                           *)
LEMMA SwitchStep ==
    ASSUME IInv, NEW c \in Cpus, thread_switch(c)
    PROVE  IInv'
<1>0. TypeOK /\ PathInv /\ MigInv /\ PlaceInv /\ OwnInv /\ DoingInv /\ SemInv
  BY Zenon DEF IInv
<1>1. PICK t \in Thread, r \in Seq(Thread), s \in States, Z \in SUBSET Thread :
         /\ t = c_curthread[c] /\ r = c_runqueue[c] /\ s = newstate[c] /\ Z = c_zombies[c]
         /\ s \in {"S_READY", "S_SLEEP", "S_ZOMBIE"}
  BY Zenon, <1>0 DEF TypeOK, CpuTypes, PathTypes, PathInv, thread_switch, States, Nothing
<1>2. PICK st \in [Thread -> States] : st = [t_state EXCEPT ![t] = s]
  BY Zenon, <1>0 DEF TypeOK, ThreadTypes
<1>3. PICK loc \in [Thread -> Place \cup {NoPlace}] : Located(loc)
  BY Zenon, <1>0 DEF PlaceInv
<1>4. /\ pc[c] = "switch" /\ ~c_isidle[c] /\ ~Stopped
      /\ newstate' = [newstate EXCEPT ![c] = Nothing] /\ chan' = [chan EXCEPT ![c] = Nothing]
      /\ UNCHANGED <<load, ipivars, list, mig, t_cpu, doing, child, secs, sem_count>>
  BY Zenon, <1>0, <1>1 DEF thread_switch, PathInv, Stopped
<1>5. /\ t_cpu[t] = c /\ t_state[t] # Nothing /\ NoDup(r)
      /\ \A w \in Chan : t \notin Elems(wc_threads[w])
      /\ t \notin Elems(r) /\ t \notin Z
  BY Zenon, <1>0, <1>1, <1>4, RunningPlace DEF IInv, PlaceInv, QueuesInv, OwnInv
<1>6. \A u \in Elems(r) : u \in Thread /\ u # t /\ u \notin Z /\ t_cpu[u] = c
  BY SMTT(30), <1>0, <1>1, <1>3, <1>5, ListElems DEF Located, OwnInv
<1>7. /\ \A u \in Thread : u # t => st[u] = t_state[u]
      /\ st[t] = s /\ s # Nothing
  BY Zenon, <1>0, <1>1, <1>2 DEF Nothing, TypeOK, ThreadTypes
<1>8. /\ \A u \in Z : t_cpu[u] = c /\ st[u] = "S_ZOMBIE"
      /\ \A u \in Thread : st[u] \in {Nothing, "S_ZOMBIE"} => doing[u] \in {"hatch", "user"}
  <2>1. s = "S_ZOMBIE" => doing[t] \in {"hatch", "user"}
    BY Zenon, <1>0, <1>1, <1>4 DEF DoingInv
  <2>2. \A u \in Thread : st[u] \in {Nothing, "S_ZOMBIE"} => doing[u] \in {"hatch", "user"}
    BY Zenon, <1>0, <1>7, <2>1 DEF DoingInv
  <2>3. \A u \in Z : t_cpu[u] = c /\ st[u] = "S_ZOMBIE"
    BY SMTT(30), <1>0, <1>1, <1>5, <1>7 DEF OwnInv
  <2> QED BY Zenon, <2>2, <2>3
<1>9. wc_threads \in [Chan -> Seq(Thread)] /\ Channels(wc_threads)
  BY Zenon, <1>0 DEF TypeOK, ChanTypes, SemInv, PlaceInv, QueuesInv, Channels
<1>10. ASSUME s # "S_SLEEP", UNCHANGED wc_lock
       PROVE  /\ \A w \in Chan : wc_lock[w] # c
              /\ wc_lock' = [w \in Chan |-> IF wc_lock[w] = c THEN 0 ELSE wc_lock[w]]
  <2>1. \A w \in Chan : wc_lock[w] # c
    BY Zenon, <1>0, <1>1, <1>4, <1>10 DEF PathInv, Sleeping
  <2>2. wc_lock \in [Chan -> 0..NCpu]
    BY Zenon, <1>0 DEF TypeOK, ChanTypes
  <2> QED BY Zenon, <1>10, <2>1, <2>2
<1>11. CASE s = "S_READY" /\ r = <<>>
  <2>1. pc' = [pc EXCEPT ![c] = "run"] /\ UNCHANGED <<cpuvars, t_state, wc_threads, wc_lock>>
    BY Zenon, <1>1, <1>11 DEF thread_switch, Goto
  <2>2. /\ pc'[c] = "run" /\ \A w \in Chan : wc_lock[w] # c
        /\ \A e \in Cpus \ {c} : pc'[e] = pc[e] /\ newstate'[e] = newstate[e] /\ chan'[e] = chan[e]
    BY Zenon, <1>0, <1>4, <1>10, <1>11, <2>1 DEF TypeOK, PathTypes
  <2>3. TypeOK'
    <3>1. CpuTypes' /\ IpiTypes' /\ ThreadTypes' /\ ChanTypes'
      BY Zenon, <1>0, <1>4, <2>1, SameTypes DEF cpuvars, threadvars, chanvars
    <3>2. PathTypes'
      BY Zenon, <1>0, <1>4, <2>1 DEF TypeOK, PathTypes, Points
    <3> QED BY Zenon, <3>1, <3>2 DEF TypeOK
  <2>4. PathInv'
    BY SMTT(30), <1>0, <1>4, <2>1, <2>2 DEF PathInv, Sleeping, Stopped, cpuvars
  <2>5. MigInv'
    BY SMTT(30), <1>0, <1>4, <2>1, <2>2 DEF MigInv, Stopped, cpuvars
  <2>6. PlaceInv' /\ OwnInv'
    BY Zenon, <1>0, <1>4, <2>1, SamePlaces, SameOwners DEF cpuvars
  <2>7. DoingInv' /\ SemInv'
    BY SMTT(30), <1>0, <1>4, <2>1, <2>2 DEF DoingInv, SemInv, Sleeping, cpuvars
  <2> QED BY Zenon, <2>3, <2>4, <2>5, <2>6, <2>7 DEF IInv
<1>12. CASE s = "S_READY" /\ r # <<>>
  <2>1. PICK q \in Seq(Thread) : q = Append(r, t) /\ NoDup(q) /\ Elems(q) = Elems(r) \cup {t}
    BY Zenon, <1>5, AppendElems
  <2>2. PICK W \in [Chan -> Seq(Thread)] : W = wc_threads
    BY Zenon, <1>9
  <2>3. next_thread(c, q, st, Z) /\ UNCHANGED <<rq_lock, wc_threads, wc_lock>>
    BY Zenon, <1>1, <1>2, <1>12, <2>1 DEF thread_switch
  <2>4. PICK mid \in [Thread -> Place \cup {NoPlace}] : Between(mid, c, q, st, Z, W)
    <3>1. PutAt(<<"runqueue", c>>, c, t, q, st, Z, W)
      BY Zenon, <1>1, <1>7, <2>1, <2>2 DEF PutAt
    <3> QED BY Zenon, <1>1, <1>3, <1>4, <3>1, LeaveCpu
  <2>5. Handover(c, q, st, Z)
    BY Zenon, <1>1, <1>5, <1>6, <1>7, <1>8, <2>1 DEF Handover
  <2>6. /\ wc_lock' = [w \in Chan |-> IF wc_lock[w] = c THEN 0 ELSE wc_lock[w]]
        /\ wc_threads' = W /\ Channels(W)
    BY Zenon, <1>9, <1>10, <1>12, <2>2, <2>3
  <2> QED
    BY Zenon, <1>4, <2>1, <2>3, <2>4, <2>5, <2>6, NextThreadStep
<1>13. CASE s = "S_SLEEP"
  <2>1. PICK w \in Chan : w = chan[c] /\ wc_lock[w] = c /\ \A v \in Chan : wc_lock[v] = c => v = w
    <3>1. Sleeping(c)
      BY Zenon, <1>1, <1>4, <1>13 DEF Sleeping
    <3>2. chan[c] \in Chan /\ wc_lock[chan[c]] = c /\ \A v \in Chan : wc_lock[v] = c => v = chan[c]
      BY Zenon, <1>0, <1>4, <3>1 DEF PathInv
    <3> QED BY Zenon, <3>2
  <2>2. PICK W \in [Chan -> Seq(Thread)] :
           /\ W = [wc_threads EXCEPT ![w] = Append(wc_threads[w], t)]
           /\ Elems(W[w]) = Elems(wc_threads[w]) \cup {t} /\ NoDup(W[w])
           /\ \A v \in Chan \ {w} : W[v] = wc_threads[v]
    <3>1. /\ Append(wc_threads[w], t) \in Seq(Thread) /\ NoDup(Append(wc_threads[w], t))
          /\ Elems(Append(wc_threads[w], t)) = Elems(wc_threads[w]) \cup {t}
      BY Zenon, <1>5, <1>9, AppendElems DEF Channels
    <3> DEFINE W == [wc_threads EXCEPT ![w] = Append(wc_threads[w], t)]
    <3>2. W \in [Chan -> Seq(Thread)] /\ W[w] = Append(wc_threads[w], t)
      BY Zenon, <1>9, <3>1
    <3>3. \A v \in Chan \ {w} : W[v] = wc_threads[v]
      BY Zenon, <1>9
    <3> HIDE DEF W
    <3>4. Elems(W[w]) = Elems(wc_threads[w]) \cup {t} /\ NoDup(W[w])
      BY Zenon, <3>1, <3>2
    <3> QED BY Zenon, <3>2, <3>3, <3>4 DEF W
  <2>3. next_thread(c, r, st, Z) /\ UNCHANGED rq_lock
    BY Zenon, <1>1, <1>2, <1>13 DEF thread_switch
  <2>4. PICK mid \in [Thread -> Place \cup {NoPlace}] : Between(mid, c, r, st, Z, W)
    <3>1. \A u \in Thread, v \in Chan :
            u \in Elems(W[v]) <=> u \in Elems(wc_threads[v]) \/ (u = t /\ <<"wchan", w>> = <<"wchan", v>>)
      BY Zenon, <2>2
    <3>2. PutAt(<<"wchan", w>>, c, t, r, st, Z, W)
      BY Zenon, <1>1, <1>7, <3>1 DEF PutAt
    <3> QED BY Zenon, <1>1, <1>3, <1>4, <3>2, LeaveCpu
  <2>5. Handover(c, r, st, Z)
    BY Zenon, <1>1, <1>5, <1>6, <1>7, <1>8 DEF Handover
  <2>6. Channels(W)
    <3>1. w = "sem" => doing[t] = "P"
      BY Zenon, <1>0, <1>1, <1>4, <1>13, <2>1 DEF SemInv, Sleeping
    <3> QED
      BY Zenon, <1>9, <2>2, <3>1 DEF Channels, Chan
  <2>7. wc_lock' = [v \in Chan |-> IF wc_lock[v] = c THEN 0 ELSE wc_lock[v]] /\ wc_threads' = W
    BY ZenonT(30), <1>0, <1>1, <1>13, <2>1, <2>2 DEF thread_switch, TypeOK, ChanTypes
  <2> QED
    BY Zenon, <1>4, <1>5, <2>2, <2>3, <2>4, <2>5, <2>6, <2>7, NextThreadStep
<1>14. CASE s = "S_ZOMBIE"
  <2>1. PICK z \in SUBSET Thread : z = Z \cup {t}
    BY Zenon
  <2>2. PICK W \in [Chan -> Seq(Thread)] : W = wc_threads
    BY Zenon, <1>9
  <2>3. next_thread(c, r, st, z) /\ UNCHANGED <<rq_lock, wc_threads, wc_lock>>
    BY Zenon, <1>1, <1>2, <1>14, <2>1 DEF thread_switch
  <2>4. PICK mid \in [Thread -> Place \cup {NoPlace}] : Between(mid, c, r, st, z, W)
    <3>1. PutAt(<<"zombies", c>>, c, t, r, st, z, W)
      BY Zenon, <1>1, <1>7, <2>1, <2>2 DEF PutAt
    <3> QED BY Zenon, <1>1, <1>3, <1>4, <3>1, LeaveCpu
  <2>5. Handover(c, r, st, z)
    BY Zenon, <1>1, <1>5, <1>6, <1>7, <1>8, <1>14, <2>1 DEF Handover
  <2>6. /\ wc_lock' = [w \in Chan |-> IF wc_lock[w] = c THEN 0 ELSE wc_lock[w]]
        /\ wc_threads' = W /\ Channels(W)
    BY Zenon, <1>9, <1>10, <1>14, <2>2, <2>3
  <2> QED
    BY Zenon, <1>4, <1>5, <2>1, <2>3, <2>4, <2>5, <2>6, NextThreadStep
<1> QED
  BY Zenon, <1>1, <1>11, <1>12, <1>13, <1>14

-----------------------------------------------------------------------------
(* Migration *)

(* thread_consider_migration counts threads.                               *)
LEMMA CountStep ==
    ASSUME IInv, NEW c \in Cpus, migration_count(c)
    PROVE  IInv'
<1> DEFINE m     == mig[c]
           n     == Len(c_runqueue[m.i])
           total == m.total + n
           my    == IF m.i = c THEN n ELSE m.my
           share == (total + NCpu - 1) \div NCpu
<1>1. pc[c] = "count" /\ Calm(c)
  BY Zenon DEF migration_count, Calm
<1>2. /\ m \in Mig /\ m.i \in Cpus
      /\ n \in Nat /\ total \in Nat /\ my \in Nat /\ share \in Nat
  BY Zenon, <1>1, CountFacts DEF IInv
<1>3. m.victims = <<>> /\ (m.i > c => m.my <= Len(c_runqueue[c]))
  BY Zenon, <1>1, CalmFacts DEF IInv, MigInv
<1>4. IpiTypes' /\ UNCHANGED <<cpuvars, ipivars, chan, list, threadvars, chanvars>>
  BY Zenon, SameTypes DEF migration_count, IInv
<1>5. CASE m.i < NCpu /\ mig' = [mig EXCEPT ![c] = [m EXCEPT !.i = @ + 1, !.total = total, !.my = my]]
           /\ UNCHANGED <<pc, newstate>>
  <2> DEFINE k == [m EXCEPT !.i = @ + 1, !.total = total, !.my = my]
  <2>1. m.i + 1 \in 0..(NCpu + 1) /\ m.i + 1 \in Cpus /\ c \in Nat /\ m.i \in Nat
    <3>1. m.i < NCpu
      BY Zenon, <1>5
    <3> HIDE DEF m
    <3> QED BY SMT, <1>2, <3>1, ThreadsAssumption DEF Cpus
  <2>2. /\ k \in Mig /\ k.victims = <<>> /\ k.i = m.i + 1 /\ k.my = my
    BY Zenon, <1>2, <1>3, <2>1 DEF Mig
  <2>3. k.i \in Cpus /\ (k.i > c => k.my <= Len(c_runqueue[c]))
    BY <1>2, <1>3, <2>1, <2>2
  <2>4. Goto(c, "count") /\ "count" \in Points /\ UNCHANGED newstate /\ mig' = [mig EXCEPT ![c] = k]
    BY Zenon, <1>1, <1>5 DEF Goto, Points, IInv, TypeOK, PathTypes
  <2> HIDE DEF k
  <2> QED
    BY Zenon, <1>1, <1>4, <2>2, <2>3, <2>4, CalmMove
<1>6. CASE mig' = [mig EXCEPT ![c] = NoMig] /\ Yield(c)
  <2>1. NoMig \in Mig /\ NoMig.victims = <<>>
    BY Zenon, MigFacts DEF NoMig
  <2> QED
    BY Zenon, <1>1, <1>4, <1>6, <2>1, YieldMove
<1>7. CASE /\ m.i = NCpu /\ my >= share /\ Goto(c, "take") /\ UNCHANGED newstate
           /\ mig' = [mig EXCEPT ![c] = [NoMig EXCEPT !.share = share, !.send = my - share]]
  <2> DEFINE k == [NoMig EXCEPT !.share = share, !.send = my - share]
  <2>1. my - share \in Nat /\ my - share <= my /\ my <= Len(c_runqueue[c])
    <3>1. my <= Len(c_runqueue[c])
      BY <1>2, <1>3, <1>7, ThreadsAssumption DEF Cpus
    <3> HIDE DEF my, share
    <3> QED BY <1>2, <1>7, <3>1
  <2>2. k.victims = <<>> /\ k.send = my - share
    BY Zenon DEF NoMig
  <2>3. k \in Mig
    BY Zenon, <1>2, <2>1, MigFacts DEF Mig
  <2>4. k.send <= Len(c_runqueue[c])
    <3>1. Len(c_runqueue[c]) \in Nat
      BY DEF IInv, TypeOK, CpuTypes
    <3> HIDE DEF k, my, share
    <3> QED BY <1>2, <2>1, <2>2, <3>1
  <2>5. Goto(c, "take") /\ "take" \in Points /\ UNCHANGED newstate /\ mig' = [mig EXCEPT ![c] = k]
    BY Zenon, <1>7 DEF Points
  <2> HIDE DEF k, my, share
  <2> QED
    BY Zenon, <1>1, <1>4, <2>2, <2>3, <2>4, <2>5, CalmMove
<1> QED
  BY Zenon, <1>5, <1>6, <1>7 DEF migration_count

(* Threads go from the run queue of a cpu to its victims or back.          *)
LEMMA RequeueMove ==
    ASSUME TypeOK, PlaceInv, OwnInv, NEW c \in Cpus, NEW q \in Seq(Thread), NEW k \in Mig,
           NoDup(q), NoDup(k.victims), Elems(q) \cap Elems(k.victims) = {},
           Elems(q) \cup Elems(k.victims) = Elems(c_runqueue[c]) \cup Elems(mig[c].victims),
           c_runqueue' = [c_runqueue EXCEPT ![c] = q], mig' = [mig EXCEPT ![c] = k],
           UNCHANGED <<c_curthread, c_isidle, c_zombies, t_state, t_cpu, list, child, wc_threads>>
    PROVE  PlaceInv' /\ OwnInv'
<1>1. PICK loc \in [Thread -> Place \cup {NoPlace}] : Located(loc)
  BY Zenon DEF PlaceInv
<1> DEFINE here == {<<"runqueue", c>>, <<"victims", c>>}
           n == [u \in Thread |-> IF loc[u] \notin here THEN loc[u]
                                  ELSE IF u \in Elems(q) THEN <<"runqueue", c>> ELSE <<"victims", c>>]
<1>2. PICK new \in [Thread -> Place \cup {NoPlace}] : new = n
  <2>1. n \in [Thread -> Place \cup {NoPlace}]
    BY Zenon DEF Place
  <2> HIDE DEF n
  <2> QED BY Zenon, <2>1
<1>3. /\ c_runqueue'[c] = q /\ mig'[c] = k
      /\ \A d \in Cpus \ {c} : c_runqueue'[d] = c_runqueue[d] /\ mig'[d] = mig[d]
  BY Zenon DEF TypeOK, CpuTypes, PathTypes
<1>4. \A u \in Thread : loc[u] \in here <=> u \in Elems(q) \/ u \in Elems(k.victims)
  <2>1. \A u \in Thread : /\ loc[u] = <<"runqueue", c>> <=> u \in Elems(c_runqueue[c])
                          /\ loc[u] = <<"victims", c>> <=> u \in Elems(mig[c].victims)
    BY Zenon, <1>1 DEF Located
  <2>2. \A u \in Thread : u \in Elems(q) \/ u \in Elems(k.victims)
                          <=> u \in Elems(c_runqueue[c]) \/ u \in Elems(mig[c].victims)
    BY Zenon
  <2> QED BY Zenon, <2>1, <2>2
<1>5. ASSUME NEW u \in Thread PROVE Located(new)!(u)'
  <2>1. CASE loc[u] \in here
    <3>1. /\ new[u] = IF u \in Elems(q) THEN <<"runqueue", c>> ELSE <<"victims", c>>
          /\ u \in Elems(q) \/ u \in Elems(k.victims)
      BY Zenon, <1>2, <1>4, <2>1
    <3>2. new[u] \in here
      BY Zenon, <3>1
    <3>3. /\ t_state[u] # Nothing /\ \A w \in Chan : u \notin Elems(wc_threads[w])
          /\ \A v \in Thread : child[v] # u
          /\ \A d \in Cpus : /\ ~(c_curthread[d] = u /\ ~c_isidle[d]) /\ u \notin c_zombies[d]
                             /\ u \notin Elems(list[d])
                             /\ d # c => u \notin Elems(c_runqueue[d]) /\ u \notin Elems(mig[d].victims)
      BY SMTT(30), <1>1, <2>1 DEF Located, NoPlace
    <3>4. ASSUME NEW d \in Cpus
          PROVE  /\ new[u] = <<"runqueue", d>> <=> u \in Elems(c_runqueue'[d])
                 /\ new[u] = <<"victims", d>>  <=> u \in Elems(mig'[d].victims)
      <4>1. CASE d = c
        BY <1>3, <3>1, <4>1
      <4>2. CASE d # c
        <5>1. new[u] # <<"runqueue", d>> /\ new[u] # <<"victims", d>>
          BY <3>1, <4>2
        <5>2. u \notin Elems(c_runqueue'[d]) /\ u \notin Elems(mig'[d].victims)
          BY Zenon, <1>3, <3>3, <4>2
        <5> QED BY Zenon, <5>1, <5>2
      <4> QED BY Zenon, <4>1, <4>2
    <3>5. /\ new[u] # NoPlace /\ \A w \in Chan : new[u] # <<"wchan", w>>
          /\ \A v \in Thread : new[u] # <<"child", v>>
          /\ \A d \in Cpus : /\ new[u] # <<"cpu", d>> /\ new[u] # <<"zombies", d>>
                             /\ new[u] # <<"list", d>>
      BY <3>2 DEF NoPlace
    <3>6. /\ t_state'[u] # Nothing /\ \A w \in Chan : u \notin Elems(wc_threads'[w])
          /\ \A v \in Thread : child'[v] # u
          /\ \A d \in Cpus : /\ ~(c_curthread'[d] = u /\ ~c_isidle'[d]) /\ u \notin c_zombies'[d]
                             /\ u \notin Elems(list'[d])
      BY Zenon, <3>3
    <3> QED
      BY Zenon, <3>4, <3>5, <3>6
  <2>2. CASE loc[u] \notin here
    <3>1. new[u] = loc[u] /\ u \notin Elems(q) /\ u \notin Elems(k.victims)
      BY Zenon, <1>2, <1>4, <2>2
    <3> QED
      BY SMTT(30), <1>1, <1>3, <2>2, <3>1 DEF Located
  <2> QED BY Zenon, <2>1, <2>2
<1>6. Located(new)'
  BY Zenon, <1>5 DEF Located
<1>7. QueuesInv'
  BY Zenon, <1>3 DEF PlaceInv, QueuesInv
<1>8. OwnInv'
  BY SMTT(30), <1>3 DEF OwnInv
<1> QED
  BY Zenon, <1>2, <1>6, <1>7, <1>8 DEF PlaceInv

(* The path of a cpu through the rest of thread_consider_migration.        *)
LEMMA MigPath ==
    ASSUME IInv, NEW c \in Cpus, pc[c] \in {"take", "give", "back"},
           NEW p \in {"give", "back", "relock", "switch"}, Goto(c, p),
           p = "relock" => c_isidle[c], p = "switch" => ~c_isidle[c],
           newstate' = IF p = "switch" THEN [newstate EXCEPT ![c] = "S_READY"] ELSE newstate,
           UNCHANGED <<chan, list, c_isidle, c_curthread, t_state, doing, child, secs, chanvars>>
    PROVE  /\ pc' \in [Cpus -> Points] /\ newstate' \in [Cpus -> {Nothing, "S_READY", "S_SLEEP", "S_ZOMBIE"}]
           /\ pc'[c] = p /\ \A d \in Cpus \ {c} : pc'[d] = pc[d]
           /\ ~Stopped /\ PathInv' /\ DoingInv' /\ SemInv'
<1>0. TypeOK /\ PathInv /\ DoingInv /\ SemInv
  BY Zenon DEF IInv
<1>1. /\ pc' \in [Cpus -> Points] /\ newstate' \in [Cpus -> {Nothing, "S_READY", "S_SLEEP", "S_ZOMBIE"}]
      /\ pc'[c] = p /\ \A d \in Cpus \ {c} : pc'[d] = pc[d] /\ newstate'[d] = newstate[d]
      /\ p = "switch" => newstate'[c] = "S_READY"
  BY Zenon, <1>0 DEF Goto, TypeOK, PathTypes, Points
<1>2. ~Stopped /\ list[c] = <<>> /\ \A w \in Chan : wc_lock[w] # c
  BY Zenon, <1>0 DEF PathInv, Sleeping, Stopped
<1>3. PathInv'
  BY SMTT(30), <1>0, <1>1, <1>2 DEF PathInv, Sleeping, Nothing, chanvars
<1>4. DoingInv'
  BY ZenonT(30), <1>0, <1>1 DEF DoingInv
<1>5. SemInv'
  BY <1>0, <1>1 DEF SemInv, Sleeping, chanvars
<1> QED
  BY Zenon, <1>1, <1>2, <1>3, <1>4, <1>5

(* The victims are taken off the tail of the run queue.                    *)
LEMMA TakeStep ==
    ASSUME IInv, NEW c \in Cpus, migration_take(c)
    PROVE  IInv'
<1>0. TypeOK /\ PathInv /\ MigInv /\ PlaceInv /\ OwnInv /\ DoingInv /\ SemInv
  BY Zenon DEF IInv
<1>1. pc[c] = "take" /\ Calm(c)
  BY Zenon DEF migration_take, Calm
<1>2. PICK q \in Seq(Thread), n \in Nat :
         q = c_runqueue[c] /\ n = mig[c].send /\ n <= Len(q) /\ NoDup(q) /\ Len(q) \in Nat
  BY <1>0, <1>1, MigFacts DEF TypeOK, CpuTypes, PathTypes, MigInv, PlaceInv, QueuesInv
<1>3. CASE n = 0
  <2>1. SubSeq(q, 1, Len(q) - n) = q
    BY SMTT(30), <1>2, <1>3
  <2>2. c_runqueue' = c_runqueue
    BY Zenon, <1>0, <1>2, <2>1 DEF migration_take, TypeOK, CpuTypes
  <2>3. mig' = [mig EXCEPT ![c] = NoMig] /\ Yield(c)
    BY Zenon, <1>2, <1>3 DEF migration_take
  <2>4. NoMig \in Mig /\ NoMig.victims = <<>>
    BY Zenon, MigFacts DEF NoMig
  <2>5. UNCHANGED <<cpuvars, ipivars, chan, list, threadvars, chanvars>>
    BY Zenon, <2>2 DEF migration_take, cpuvars
  <2> QED
    BY Zenon, <1>1, <2>3, <2>4, <2>5, YieldMove
<1>4. CASE n # 0
  <2> DEFINE a == SubSeq(q, 1, Len(q) - n)
             b == SubSeq(q, Len(q) - n + 1, Len(q))
             k == [mig[c] EXCEPT !.victims = b, !.i = 1]
  <2>1. /\ a \in Seq(Thread) /\ b \in Seq(Thread) /\ Len(b) = n
        /\ Elems(a) \cup Elems(b) = Elems(q) /\ NoDup(a) /\ NoDup(b) /\ Elems(a) \cap Elems(b) = {}
    <3>1. Len(q) - n \in 0..Len(q) /\ Len(q) - (Len(q) - n) = n
      BY <1>2
    <3> QED BY Zenon, <1>2, <3>1, SplitElems
  <2>2. /\ c_runqueue' = [c_runqueue EXCEPT ![c] = a] /\ mig' = [mig EXCEPT ![c] = k]
        /\ Goto(c, "give") /\ UNCHANGED newstate
        /\ UNCHANGED <<load, c_curthread, c_isidle, c_zombies, rq_lock, ipivars, chan, list, threadvars,
                       chanvars>>
    BY Zenon, <1>2, <1>4 DEF migration_take
  <2> HIDE DEF a, b
  <2>3. k \in Mig /\ k.victims = b /\ k.i = 1 /\ k.send = n
    <3>1. mig[c] \in Mig /\ 1 \in 0..(NCpu + 1)
      BY <1>0, ThreadsAssumption DEF TypeOK, PathTypes
    <3> QED BY Zenon, <1>2, <2>1, <3>1 DEF Mig
  <2> HIDE DEF k
  <2>4. mig[c].victims = <<>> /\ ~Stopped /\ \A d \in Cpus : rq_lock[d] # c
    BY Zenon, <1>1, CalmFacts
  <2>5. Elems(<<>>) = {}
    BY DEF Elems
  <2>6. PlaceInv' /\ OwnInv'
    BY Zenon, <1>0, <1>2, <2>1, <2>2, <2>3, <2>4, <2>5, RequeueMove DEF threadvars, chanvars
  <2>7. /\ pc' \in [Cpus -> Points] /\ pc'[c] = "give" /\ \A d \in Cpus \ {c} : pc'[d] = pc[d]
        /\ PathInv' /\ DoingInv' /\ SemInv'
    BY Zenon, <1>1, <2>2, MigPath DEF threadvars, chanvars
  <2>8. TypeOK'
    <3>1. CpuTypes'
      BY Zenon, <1>0, <2>1, <2>2 DEF TypeOK, CpuTypes
    <3>2. PathTypes'
      BY Zenon, <1>0, <2>2, <2>3, <2>7 DEF TypeOK, PathTypes
    <3> QED
      BY Zenon, <1>0, <2>2, <3>1, <3>2, SameTypes DEF TypeOK
  <2>9. MigInv'
    <3>1. /\ mig'[c] = k /\ \A d \in Cpus \ {c} : mig'[d] = mig[d] /\ c_runqueue'[d] = c_runqueue[d]
      BY Zenon, <1>0, <2>2 DEF TypeOK, CpuTypes, PathTypes
    <3>2. ASSUME NEW e \in Cpus PROVE MigInv!(e)'
      <4>1. CASE e = c
        BY SMTT(30), <2>1, <2>2, <2>3, <2>4, <2>7, <3>1, <4>1
      <4>2. CASE e # c
        BY SMTT(30), <1>0, <2>2, <2>4, <2>7, <3>1, <4>2 DEF MigInv
      <4> QED BY Zenon, <4>1, <4>2
    <3> QED BY Zenon, <3>2 DEF MigInv
  <2> QED
    BY Zenon, <2>6, <2>7, <2>8, <2>9 DEF IInv
<1> QED BY Zenon, <1>3, <1>4

(* What is left over goes back on the run queue, and the thread yields.    *)
LEMMA BackStep ==
    ASSUME IInv, NEW c \in Cpus, migration_back(c)
    PROVE  IInv'
<1>0. TypeOK /\ PathInv /\ MigInv /\ PlaceInv /\ OwnInv /\ DoingInv /\ SemInv
  BY Zenon DEF IInv
<1>1. PICK q \in Seq(Thread), left \in Seq(Thread) :
         q = c_runqueue[c] /\ left = mig[c].victims /\ NoDup(q) /\ NoDup(left)
  BY Zenon, <1>0, MigFacts DEF TypeOK, CpuTypes, PathTypes, PlaceInv, QueuesInv
<1>2. Elems(q) \cap Elems(left) = {}
  <2>1. PICK loc \in [Thread -> Place \cup {NoPlace}] : Located(loc)
    BY Zenon, <1>0 DEF PlaceInv
  <2>2. \A u \in Thread : ~(u \in Elems(q) /\ u \in Elems(left))
    BY <1>1, <2>1 DEF Located
  <2> QED BY Zenon, <2>2, ListElems
<1>3. PICK r \in Seq(Thread) : r = q \o left /\ NoDup(r) /\ Elems(r) = Elems(q) \cup Elems(left)
                               /\ Len(r) >= Len(q)
  <2>1. Len(q) \in Nat /\ Len(left) \in Nat
    OBVIOUS
  <2>2. /\ q \o left \in Seq(Thread) /\ NoDup(q \o left)
        /\ Elems(q \o left) = Elems(q) \cup Elems(left) /\ Len(q \o left) = Len(q) + Len(left)
    BY Zenon, <1>1, <1>2, ConcatElems
  <2>3. Len(q \o left) >= Len(q)
    BY <2>1, <2>2
  <2> QED BY Zenon, <2>2, <2>3
<1>4. /\ pc[c] = "back" /\ c_runqueue' = [c_runqueue EXCEPT ![c] = r]
      /\ mig' = [mig EXCEPT ![c] = NoMig] /\ Yield(c)
      /\ UNCHANGED <<load, c_curthread, c_isidle, c_zombies, rq_lock, ipivars, chan, list, threadvars,
                     chanvars>>
  BY Zenon, <1>1, <1>3 DEF migration_back
<1>5. NoMig \in Mig /\ NoMig.victims = <<>> /\ Elems(<<>>) = {} /\ NoDup(<<>>)
  BY MigFacts DEF NoMig, Elems, NoDup
<1>6. PlaceInv' /\ OwnInv'
  BY ZenonT(30), <1>0, <1>1, <1>3, <1>4, <1>5, RequeueMove DEF threadvars, chanvars
<1>7. PICK p \in {"relock", "switch"} :
         /\ Goto(c, p) /\ (p = "relock" => c_isidle[c]) /\ (p = "switch" => ~c_isidle[c])
         /\ newstate' = IF p = "switch" THEN [newstate EXCEPT ![c] = "S_READY"] ELSE newstate
  BY Zenon, <1>4 DEF Yield
<1>8. /\ pc' \in [Cpus -> Points] /\ newstate' \in [Cpus -> {Nothing, "S_READY", "S_SLEEP", "S_ZOMBIE"}]
      /\ pc'[c] = p /\ (\A d \in Cpus \ {c} : pc'[d] = pc[d])
      /\ ~Stopped /\ PathInv' /\ DoingInv' /\ SemInv'
  BY Zenon, <1>4, <1>7, MigPath DEF threadvars, chanvars
<1>9. TypeOK'
  <2>1. CpuTypes'
    BY Zenon, <1>0, <1>3, <1>4 DEF TypeOK, CpuTypes
  <2>2. PathTypes'
    BY Zenon, <1>0, <1>4, <1>5, <1>8 DEF TypeOK, PathTypes
  <2> QED
    BY Zenon, <1>0, <1>4, <2>1, <2>2, SameTypes DEF TypeOK
<1>10. MigInv'
  <2>1. /\ mig'[c] = NoMig
        /\ \A d \in Cpus \ {c} : mig'[d] = mig[d] /\ c_runqueue'[d] = c_runqueue[d]
    BY Zenon, <1>0, <1>4 DEF TypeOK, CpuTypes, PathTypes
  <2>2. \A d \in Cpus : rq_lock[d] # c
    BY Zenon, <1>0, <1>4, <1>8 DEF MigInv
  <2>3. ASSUME NEW e \in Cpus PROVE MigInv!(e)'
    <3>1. CASE e = c
      BY Zenon, <1>4, <1>5, <1>8, <2>1, <2>2, <3>1
    <3>2. CASE e # c
      BY SMTT(30), <1>0, <1>4, <1>8, <2>1, <3>2 DEF MigInv
    <3> QED BY Zenon, <3>1, <3>2
  <2> QED BY Zenon, <2>3 DEF MigInv
<1> QED
  BY Zenon, <1>6, <1>8, <1>9, <1>10 DEF IInv

(* One victim t goes to the run queue of cpu d.                            *)
LEMMA GivePlace ==
    ASSUME TypeOK, PlaceInv, OwnInv, NEW c \in Cpus, NEW d \in Cpus, c # d, NEW t \in Thread,
           mig[c].victims # <<>>, t = Head(mig[c].victims), t # c_curthread[c], NEW k \in Mig,
           k.victims = Tail(mig[c].victims), mig' = [mig EXCEPT ![c] = k],
           t_cpu' = [t_cpu EXCEPT ![t] = d],
           c_runqueue' = [c_runqueue EXCEPT ![d] = Append(c_runqueue[d], t)],
           UNCHANGED <<c_curthread, c_isidle, c_zombies, t_state, list, child, wc_threads>>
    PROVE  PlaceInv' /\ OwnInv'
<1>1. PICK v \in Seq(Thread), q \in Seq(Thread) : v = mig[c].victims /\ q = c_runqueue[d]
  BY Zenon, MigFacts DEF TypeOK, CpuTypes, PathTypes
<1>2. /\ t \in Elems(v) /\ Elems(v) = Elems(Tail(v)) \cup {t} /\ NoDup(v) /\ NoDup(q)
      /\ NoDup(Tail(v)) /\ t \notin Elems(Tail(v))
  BY SMTT(30), <1>1, TailElems DEF PlaceInv, QueuesInv
<1>3. PICK loc \in [Thread -> Place \cup {NoPlace}] : Located(loc)
  BY Zenon DEF PlaceInv
<1>4. loc[t] = <<"victims", c>>
  BY Zenon, <1>1, <1>2, <1>3 DEF Located
<1>5. /\ t_state[t] # Nothing
      /\ \A w \in Chan : t \notin Elems(wc_threads[w])
      /\ \A p \in Thread : child[p] # t
      /\ \A e \in Cpus : /\ ~(c_curthread[e] = t /\ ~c_isidle[e])
                         /\ t \notin c_zombies[e] /\ t \notin Elems(list[e])
                         /\ t \notin Elems(c_runqueue[e])
                         /\ e # c => t \notin Elems(mig[e].victims)
  BY SMTT(30), <1>3, <1>4 DEF Located, NoPlace
<1>6. /\ Append(q, t) \in Seq(Thread) /\ NoDup(Append(q, t))
      /\ Elems(Append(q, t)) = Elems(q) \cup {t}
  BY Zenon, <1>1, <1>2, <1>5, AppendElems
<1>7. /\ mig'[c].victims = Tail(v) /\ (\A e \in Cpus \ {c} : mig'[e] = mig[e])
      /\ c_runqueue'[d] = Append(q, t) /\ (\A e \in Cpus \ {d} : c_runqueue'[e] = c_runqueue[e])
      /\ t_cpu'[t] = d /\ (\A u \in Thread : u # t => t_cpu'[u] = t_cpu[u])
  BY Zenon, <1>1 DEF TypeOK, CpuTypes, PathTypes, ThreadTypes
<1>8. PICK new \in [Thread -> Place \cup {NoPlace}] : new = [loc EXCEPT ![t] = <<"runqueue", d>>]
  BY Zenon DEF Place
<1>9. ASSUME NEW u \in Thread PROVE Located(new)!(u)'
  <2>1. CASE u = t
    <3>1. new[u] = <<"runqueue", d>> /\ new[u] # NoPlace
      BY Zenon, <1>8, <2>1 DEF NoPlace
    <3>2. \A e \in Cpus : u \notin Elems(mig'[e].victims)
      BY Zenon, <1>2, <1>5, <1>7, <2>1
    <3>3. \A e \in Cpus : u \in Elems(c_runqueue'[e]) <=> e = d
      BY Zenon, <1>5, <1>6, <1>7, <2>1
    <3> QED
      BY SMTT(30), <1>5, <2>1, <3>1, <3>2, <3>3
  <2>2. CASE u # t
    <3>1. new[u] = loc[u]
      BY Zenon, <1>8, <2>2
    <3>2. \A e \in Cpus : u \in Elems(mig'[e].victims) <=> u \in Elems(mig[e].victims)
      BY Zenon, <1>1, <1>2, <1>7, <2>2
    <3>3. \A e \in Cpus : u \in Elems(c_runqueue'[e]) <=> u \in Elems(c_runqueue[e])
      BY Zenon, <1>1, <1>6, <1>7, <2>2
    <3> QED
      BY SMTT(30), <1>3, <3>1, <3>2, <3>3 DEF Located
  <2> QED BY Zenon, <2>1, <2>2
<1>10. Located(new)'
  BY Zenon, <1>9 DEF Located
<1>11. QueuesInv'
  BY Zenon, <1>2, <1>6, <1>7 DEF PlaceInv, QueuesInv
<1>12. ASSUME NEW e \in Cpus PROVE OwnInv!(e)'
  <2>1. c_curthread[e] \in Thread /\ c_curthread[e] # t
    BY SMTT(30), <1>1, <1>2 DEF TypeOK, CpuTypes, OwnInv
  <2>2. \A u \in Elems(c_runqueue'[e]) : t_cpu'[u] = e
    <3>1. CASE e = d
      BY SMTT(30), <1>1, <1>5, <1>6, <1>7, <3>1, ListElems DEF OwnInv
    <3>2. CASE e # d
      <4>1. c_runqueue'[e] = c_runqueue[e] /\ Elems(c_runqueue[e]) \subseteq Thread
        BY Zenon, <1>7, <3>2, ListElems DEF TypeOK, CpuTypes
      <4> QED BY SMTT(30), <1>5, <1>7, <4>1 DEF OwnInv
    <3> QED BY Zenon, <3>1, <3>2
  <2>3. \A u \in Elems(mig'[e].victims) : t_cpu'[u] = e
    <3>1. \A u \in Elems(mig[e].victims) : u \in Thread /\ t_cpu[u] = e
      BY SMTT(30), ListElems, MigFacts DEF OwnInv, TypeOK, PathTypes
    <3>2. \A u \in Elems(mig'[e].victims) : u \in Elems(mig[e].victims) /\ u # t
      BY SMTT(30), <1>1, <1>2, <1>5, <1>7
    <3> QED BY Zenon, <1>7, <3>1, <3>2
  <2>4. \A u \in c_zombies[e] : u \in Thread /\ u # t
    BY Zenon, <1>5 DEF TypeOK, CpuTypes
  <2> QED
    BY SMTT(30), <1>7, <2>1, <2>2, <2>3, <2>4 DEF OwnInv
<1>13. OwnInv'
  BY Zenon, <1>12 DEF OwnInv
<1> QED
  BY Zenon, <1>10, <1>11, <1>13 DEF PlaceInv

(* The victims are handed out, cpu by cpu.                                 *)
LEMMA GiveStep ==
    ASSUME IInv, NEW c \in Cpus, migration_give(c)
    PROVE  IInv'
<1>0. TypeOK /\ PathInv /\ MigInv /\ PlaceInv /\ OwnInv /\ DoingInv /\ SemInv
  BY Zenon DEF IInv
<1>1. /\ pc[c] = "give"
      /\ UNCHANGED <<load, c_curthread, c_isidle, c_zombies, newstate, chan, list, t_state, doing,
                     child, secs, chanvars>>
  BY Zenon DEF migration_give
<1>2. PICK m \in Mig, d \in Nat, v \in Seq(Thread), n \in Nat :
         /\ m = mig[c] /\ d = m.i /\ v = m.victims /\ n = m.send
         /\ d > 0 /\ d <= NCpu + 1 /\ (d <= NCpu => d \in Cpus)
         /\ n <= Len(v) /\ (n > 0 => v # <<>>)
  <2>1. mig[c] \in Mig /\ mig[c].i \in 0..(NCpu + 1) /\ mig[c].victims \in Seq(Thread) /\ mig[c].send \in Nat
    BY Zenon, <1>0, MigFacts DEF TypeOK, PathTypes
  <2>2. mig[c].i > 0 /\ mig[c].send <= Len(mig[c].victims)
    BY Zenon, <1>0, <1>1 DEF MigInv
  <2>3. mig[c].i <= NCpu => mig[c].i \in Cpus
    BY <2>1, <2>2, ThreadsAssumption DEF Cpus
  <2>4. mig[c].send > 0 => mig[c].victims # <<>>
    BY <2>1, <2>2
  <2> QED BY <2>1, <2>2, <2>3, <2>4, ThreadsAssumption
<1>3. ~Stopped /\ \A e \in Cpus : rq_lock[e] = c => e = d /\ e # c
  BY Zenon, <1>0, <1>1, <1>2 DEF MigInv, Stopped
<1>4. UNCHANGED pc => Goto(c, "give")
  BY Zenon, <1>0, <1>1 DEF Goto, TypeOK, PathTypes
<1>5. ASSUME NEW p \in {"give", "back"}, Goto(c, p)
      PROVE  /\ pc' \in [Cpus -> Points] /\ pc'[c] = p
             /\ \A e \in Cpus \ {c} : pc'[e] = pc[e]
             /\ PathInv' /\ DoingInv' /\ SemInv'
  BY Zenon, <1>1, <1>5, MigPath DEF chanvars
<1>6. ASSUME NEW p \in {"give", "back"}, Goto(c, p), c_runqueue' \in [Cpus -> Seq(Thread)],
             rq_lock' \in [Cpus -> 0..NCpu], mig' \in [Cpus -> Mig], t_cpu' \in [Thread -> Cpus], IpiTypes'
      PROVE  TypeOK'
  <2>1. CpuTypes'
    BY Zenon, <1>0, <1>1, <1>6 DEF TypeOK, CpuTypes
  <2>2. PathTypes'
    BY Zenon, <1>0, <1>1, <1>5, <1>6 DEF TypeOK, PathTypes
  <2>3. ThreadTypes'
    BY Zenon, <1>0, <1>1, <1>6 DEF TypeOK, ThreadTypes
  <2> QED
    BY Zenon, <1>0, <1>1, <1>6, <2>1, <2>2, <2>3, SameTypes DEF TypeOK
<1>7. ASSUME NEW p \in {"give", "back"}, Goto(c, p),
             \A e \in Cpus : Len(c_runqueue'[e]) \in Nat /\ Len(c_runqueue'[e]) >= Len(c_runqueue[e]),
             \A e \in Cpus \ {c} : mig'[e] = mig[e],
             \A e \in Cpus : rq_lock'[e] = c \/ rq_lock'[e] = 0 \/ rq_lock'[e] = rq_lock[e],
             p = "give" => mig'[c].i > 0 /\ mig'[c].send <= Len(mig'[c].victims),
             \A e \in Cpus : rq_lock'[e] = c => p = "give" /\ mig'[c].i = e /\ e # c
      PROVE  MigInv'
  <2>1. \A e \in Cpus : Len(c_runqueue[e]) \in Nat /\ mig[e].my \in Nat /\ mig[e].send \in Nat
    BY <1>0, MigFacts DEF TypeOK, CpuTypes, PathTypes
  <2>2. ASSUME NEW e \in Cpus PROVE MigInv!(e)'
    <3>1. CASE e = c
      BY Zenon, <1>5, <1>7, <3>1
    <3>2. CASE e # c
      <4>1. \A f \in Cpus : rq_lock'[f] = e => rq_lock[f] = e
        BY Zenon, <1>7, <3>2, CpuFacts
      <4>2. mig'[e] = mig[e] /\ pc'[e] = pc[e] /\ Len(c_runqueue'[e]) >= Len(c_runqueue[e])
            /\ Len(c_runqueue'[e]) \in Nat
        BY Zenon, <1>5, <1>7, <3>2
      <4> QED
        BY <1>0, <1>3, <2>1, <4>1, <4>2 DEF MigInv
    <3> QED BY Zenon, <3>1, <3>2
  <2> QED BY Zenon, <2>2 DEF MigInv
<1>8. /\ c_runqueue \in [Cpus -> Seq(Thread)] /\ rq_lock \in [Cpus -> 0..NCpu]
      /\ mig \in [Cpus -> Mig] /\ t_cpu \in [Thread -> Cpus]
      /\ \A e \in Cpus : Len(c_runqueue[e]) \in Nat /\ Len(c_runqueue[e]) >= Len(c_runqueue[e])
  BY SMTT(30), <1>0 DEF TypeOK, CpuTypes, PathTypes, ThreadTypes
<1>9. CASE /\ d <= NCpu /\ n > 0 /\ d # c /\ rq_lock[d] \in {0, c} /\ UNCHANGED pc
           /\ migration_move(c, d) /\ rq_lock' = [rq_lock EXCEPT ![d] = c]
  <2>1. PICK t \in Thread : /\ t = Head(v) /\ Tail(v) \in Seq(Thread) /\ Len(Tail(v)) = Len(v) - 1
                            /\ d \in Cpus /\ Goto(c, "give") /\ v # <<>>
    BY Zenon, <1>2, <1>4, <1>9, TailElems
  <2>2. /\ rq_lock' \in [Cpus -> 0..NCpu] /\ rq_lock'[d] = c
        /\ \A e \in Cpus \ {d} : rq_lock'[e] = rq_lock[e]
    BY Zenon, <1>8, <1>9, <2>1, CpuFacts
  <2>3. \A e \in Cpus : rq_lock'[e] = c => e = d
    BY Zenon, <1>3, <2>2
  <2>4. n - 1 \in Nat /\ n - 1 <= Len(Tail(v))
    BY <1>2, <1>9, <2>1
  <2>5. CASE t = c_curthread[c]
    <3> DEFINE w == Append(Tail(v), t)
               k == [m EXCEPT !.victims = w, !.send = n - 1]
    <3>1. /\ mig' = [mig EXCEPT ![c] = k] /\ UNCHANGED <<t_cpu, c_runqueue, ipivars>>
      BY Zenon, <1>2, <1>8, <1>9, <2>1, <2>5 DEF migration_move
    <3>2. /\ w \in Seq(Thread) /\ Len(w) = Len(v) /\ Elems(w) = Elems(v) /\ NoDup(v) /\ NoDup(w)
      <4>1. NoDup(v) /\ Elems(v) = Elems(Tail(v)) \cup {t} /\ NoDup(Tail(v)) /\ t \notin Elems(Tail(v))
        BY Zenon, <1>0, <1>2, <2>1, TailElems DEF PlaceInv, QueuesInv
      <4>2. /\ w \in Seq(Thread) /\ Len(w) = Len(Tail(v)) + 1
            /\ Elems(w) = Elems(Tail(v)) \cup {t} /\ NoDup(w)
        BY Zenon, <2>1, <4>1, AppendElems
      <4>3. Len(w) = Len(v)
        <5>1. Len(v) \in Nat
          OBVIOUS
        <5> HIDE DEF w
        <5> QED BY <2>1, <4>2, <5>1
      <4> QED BY Zenon, <4>1, <4>2, <4>3
    <3> HIDE DEF w
    <3>3. k \in Mig /\ k.victims = w /\ k.i = d /\ k.send = n - 1
      BY Zenon, <1>2, <2>4, <3>2 DEF Mig
    <3> HIDE DEF k
    <3>4. mig' \in [Cpus -> Mig] /\ mig'[c] = k /\ \A e \in Cpus \ {c} : mig'[e] = mig[e]
      BY Zenon, <1>8, <3>1, <3>3
    <3>5. PlaceInv' /\ OwnInv'
      <4>1. PICK loc \in [Thread -> Place \cup {NoPlace}] : Located(loc)
        BY Zenon, <1>0 DEF PlaceInv
      <4>2. Elems(c_runqueue[c]) \cap Elems(v) = {}
        <5>1. \A u \in Thread : ~(u \in Elems(c_runqueue[c]) /\ u \in Elems(v))
          BY <1>2, <4>1 DEF Located
        <5> QED BY Zenon, <1>8, <5>1, ListElems
      <4>3. NoDup(c_runqueue[c]) /\ c_runqueue[c] \in Seq(Thread)
        BY Zenon, <1>0, <1>8 DEF PlaceInv, QueuesInv
      <4>4. c_runqueue' = [c_runqueue EXCEPT ![c] = c_runqueue[c]]
        BY Zenon, <1>8, <3>1
      <4>5. UNCHANGED <<c_curthread, c_isidle, c_zombies, t_state, t_cpu, list, child, wc_threads>>
        BY Zenon, <1>1, <3>1 DEF chanvars
      <4> QED
        BY Zenon, <1>0, <1>2, <3>1, <3>2, <3>3, <4>2, <4>3, <4>4, <4>5, RequeueMove
    <3>6. MigInv'
      <4>1. mig'[c].i = d /\ mig'[c].i > 0 /\ mig'[c].send <= Len(mig'[c].victims)
        BY SMTT(30), <1>2, <2>4, <3>2, <3>3, <3>4
      <4> QED
        BY Zenon, <1>7, <1>8, <1>9, <2>1, <2>2, <2>3, <3>1, <3>4, <4>1
    <3>7. TypeOK'
      BY Zenon, <1>0, <1>6, <1>8, <2>1, <2>2, <3>1, <3>4, SameTypes
    <3> QED BY Zenon, <1>5, <2>1, <3>5, <3>6, <3>7 DEF IInv
  <2>6. CASE t # c_curthread[c]
    <3> DEFINE k == [m EXCEPT !.victims = Tail(v), !.send = n - 1]
    <3>1. /\ mig' = [mig EXCEPT ![c] = k] /\ t_cpu' = [t_cpu EXCEPT ![t] = d]
          /\ c_runqueue' = [c_runqueue EXCEPT ![d] = Append(c_runqueue[d], t)]
          /\ IF c_isidle[d] THEN ipi_send(d, "UNIDLE") ELSE UNCHANGED ipivars
      BY Zenon, <1>2, <1>8, <1>9, <2>1, <2>6 DEF migration_move
    <3>2. k \in Mig /\ k.victims = Tail(v) /\ k.i = d /\ k.send = n - 1
      BY Zenon, <1>2, <2>1, <2>4 DEF Mig
    <3> HIDE DEF k
    <3>3. mig' \in [Cpus -> Mig] /\ mig'[c] = k /\ \A e \in Cpus \ {c} : mig'[e] = mig[e]
      BY Zenon, <1>8, <3>1, <3>2
    <3>4. PlaceInv' /\ OwnInv'
      BY Zenon, <1>0, <1>1, <1>2, <1>9, <2>1, <2>6, <3>1, <3>2, GivePlace DEF chanvars
    <3>5. /\ c_runqueue' \in [Cpus -> Seq(Thread)]
          /\ \A e \in Cpus : Len(c_runqueue'[e]) \in Nat /\ Len(c_runqueue'[e]) >= Len(c_runqueue[e])
      <4>1. /\ Append(c_runqueue[d], t) \in Seq(Thread)
            /\ Len(Append(c_runqueue[d], t)) = Len(c_runqueue[d]) + 1
        BY Zenon, <1>8, <2>1, AppendElems
      <4> QED BY <1>8, <2>1, <3>1, <4>1
    <3>6. MigInv'
      <4>1. mig'[c].i = d /\ mig'[c].i > 0 /\ mig'[c].send <= Len(mig'[c].victims)
        BY Zenon, <1>2, <2>4, <3>2, <3>3
      <4> QED
        BY Zenon, <1>7, <1>9, <2>1, <2>2, <2>3, <3>3, <3>5, <4>1
    <3>7. IpiTypes'
      <4>1. CASE c_isidle[d]
        BY Zenon, <1>0, <2>1, <3>1, <4>1 DEF ipi_send, TypeOK, IpiTypes
      <4>2. CASE ~c_isidle[d]
        BY Zenon, <1>0, <3>1, <4>2, SameTypes
      <4> QED BY Zenon, <4>1, <4>2
    <3>8. TypeOK'
      BY Zenon, <1>6, <1>8, <2>1, <2>2, <3>1, <3>3, <3>5, <3>7
    <3> QED BY Zenon, <1>5, <2>1, <3>4, <3>6, <3>8 DEF IInv
  <2> QED BY Zenon, <2>5, <2>6
<1>10. CASE /\ d <= NCpu /\ UNCHANGED <<t_cpu, c_runqueue, ipivars, pc>> /\ n > 0
            /\ mig' = [mig EXCEPT ![c].i = d + 1]
            /\ \/ d = c /\ UNCHANGED rq_lock
               \/ d # c /\ rq_lock[d] \in {0, c} /\ rq_lock' = [rq_lock EXCEPT ![d] = 0]
  <2> DEFINE k == [m EXCEPT !.i = d + 1]
  <2>1. k \in Mig /\ k.victims = v /\ k.i = d + 1 /\ k.send = n
    <3>1. d + 1 \in 0..(NCpu + 1)
      BY <1>2, <1>10, ThreadsAssumption
    <3> QED BY Zenon, <1>2, <3>1 DEF Mig
  <2>2. mig' = [mig EXCEPT ![c] = k] /\ Goto(c, "give")
    BY Zenon, <1>2, <1>4, <1>10
  <2> HIDE DEF k
  <2>3. mig' \in [Cpus -> Mig] /\ mig'[c] = k /\ \A e \in Cpus \ {c} : mig'[e] = mig[e]
    BY Zenon, <1>8, <2>1, <2>2
  <2>4. /\ rq_lock' \in [Cpus -> 0..NCpu] /\ \A e \in Cpus : rq_lock'[e] # c
        /\ \A e \in Cpus : rq_lock'[e] = 0 \/ rq_lock'[e] = rq_lock[e]
    <3>1. 0 \in 0..NCpu
      BY ThreadsAssumption
    <3> QED BY Zenon, <1>3, <1>8, <1>10, <3>1, CpuFacts
  <2>5. PlaceInv' /\ OwnInv'
    BY Zenon, <1>0, <1>1, <1>2, <1>10, <2>1, <2>3, SamePlaces, SameOwners DEF chanvars
  <2>6. MigInv'
    <3>1. mig'[c].i > 0 /\ mig'[c].send <= Len(mig'[c].victims)
      BY <1>2, <2>1, <2>3
    <3> QED
      BY Zenon, <1>7, <1>8, <1>10, <2>2, <2>3, <2>4, <3>1
  <2>7. TypeOK'
    BY Zenon, <1>0, <1>6, <1>8, <1>10, <2>2, <2>3, <2>4, SameTypes
  <2> QED BY Zenon, <1>5, <2>2, <2>5, <2>6, <2>7 DEF IInv
<1>11. CASE /\ rq_lock' = [e \in Cpus |-> IF e = d /\ rq_lock[e] = c THEN 0 ELSE rq_lock[e]]
            /\ Goto(c, "back") /\ UNCHANGED <<mig, t_cpu, c_runqueue, ipivars>>
  <2>1. /\ rq_lock' \in [Cpus -> 0..NCpu] /\ \A e \in Cpus : rq_lock'[e] # c
        /\ \A e \in Cpus : rq_lock'[e] = 0 \/ rq_lock'[e] = rq_lock[e]
    <3>1. 0 \in 0..NCpu
      BY ThreadsAssumption
    <3> QED BY Zenon, <1>3, <1>8, <1>11, <3>1, CpuFacts
  <2>2. PlaceInv' /\ OwnInv'
    BY Zenon, <1>0, <1>1, <1>11, SamePlaces, SameOwners DEF chanvars
  <2>3. MigInv'
    BY Zenon, <1>7, <1>8, <1>11, <2>1
  <2>4. TypeOK'
    BY Zenon, <1>0, <1>6, <1>8, <1>11, <2>1, SameTypes
  <2> QED BY Zenon, <1>5, <1>11, <2>2, <2>3, <2>4 DEF IInv
<1>12. CASE d = c /\ n > 0
  <2>1. d <= NCpu
    BY <1>12 DEF Cpus
  <2> QED BY Zenon, <1>2, <1>10, <1>11, <1>12, <2>1 DEF migration_give
<1>13. CASE ~(d = c /\ n > 0)
  BY Zenon, <1>2, <1>9, <1>10, <1>11, <1>13 DEF migration_give
<1> QED
  BY Zenon, <1>12, <1>13

-----------------------------------------------------------------------------
(* The invariant *)

(* The machine after cpu_create of every cpu.                              *)
LEMMA InitIInv == Init => IInv
<1> SUFFICES ASSUME Init PROVE IInv
  BY Zenon
<1>1. /\ <<>> \in Seq(Thread) /\ Elems(<<>>) = {} /\ NoDup(<<>>)
  BY DEF Elems, NoDup
<1>2. /\ Boot \in [Cpus -> Thread] /\ \A c, d \in Cpus : Boot[c] = Boot[d] => c = d
  BY Zenon, ThreadsAssumption
<1>3. /\ t_cpu \in [Thread -> Cpus] /\ \A c \in Cpus : t_cpu[Boot[c]] = c
  BY Zenon, <1>2, CpuFacts DEF Init
<1>4. NoMig \in Mig /\ NoMig.victims = <<>>
  BY Zenon, MigFacts DEF NoMig
<1>5. TypeOK
  <2>1. load.secs \in Nat /\ load.count \in Nat /\ NCpu \in Nat
    BY Zenon, ThreadsAssumption DEF Init, Load
  <2>2. CpuTypes
    BY <1>1, <1>2, <2>1 DEF Init, CpuTypes
  <2>3. IpiTypes
    BY <2>1 DEF Init, IpiTypes
  <2>4. PathTypes
    BY Zenon, <1>1, <1>4 DEF Init, PathTypes, Points
  <2>5. ThreadTypes
    <3>1. t_state \in [Thread -> States] /\ doing \in [Thread -> Doings]
      BY Zenon DEF Init, States, Doings
    <3>2. child \in [Thread -> Thread \cup {Nothing}]
      BY Zenon DEF Init
    <3>3. secs \in [Thread -> 0..load.secs]
      <4>1. 0 \in 0..load.secs
        BY <2>1
      <4> QED BY Zenon, <4>1 DEF Init
    <3> QED BY Zenon, <1>3, <3>1, <3>2, <3>3 DEF ThreadTypes
  <2>6. ChanTypes
    BY <1>1, <2>1 DEF Init, ChanTypes
  <2> QED BY Zenon, <2>2, <2>3, <2>4, <2>5, <2>6 DEF TypeOK
<1>6. PathInv /\ MigInv
  BY Zenon, <1>4, CpuFacts DEF Init, PathInv, MigInv, Sleeping
<1>7. PlaceInv
  <2> DEFINE new == [t \in Thread |-> IF \E c \in Cpus : Boot[c] = t
                                      THEN <<"cpu", CHOOSE c \in Cpus : Boot[c] = t>> ELSE NoPlace]
  <2>1. new \in [Thread -> Place \cup {NoPlace}]
    BY Zenon DEF Place
  <2>2. ASSUME NEW t \in Thread PROVE Located(new)!(t)
    <3>1. /\ \A w \in Chan : t \notin Elems(wc_threads[w])
          /\ \A p \in Thread : child[p] # t
          /\ \A c \in Cpus : /\ t \notin c_zombies[c] /\ t \notin Elems(c_runqueue[c])
                             /\ t \notin Elems(list[c]) /\ t \notin Elems(mig[c].victims)
                             /\ c_curthread[c] = Boot[c] /\ ~c_isidle[c]
      BY Zenon, <1>1, <1>4, ThreadsAssumption DEF Init
    <3>2. CASE \E c \in Cpus : Boot[c] = t
      <4>1. PICK c \in Cpus : Boot[c] = t
        BY Zenon, <3>2
      <4>2. new[t] = <<"cpu", c>>
        BY Zenon, <1>2, <4>1
      <4>3. t_state[t] # Nothing
        BY Zenon, <3>2 DEF Init, Nothing
      <4> HIDE DEF new
      <4> QED BY SMTT(30), <1>2, <3>1, <4>1, <4>2, <4>3 DEF NoPlace
    <3>3. CASE ~\E c \in Cpus : Boot[c] = t
      <4>1. new[t] = NoPlace /\ t_state[t] = Nothing
        BY Zenon, <3>3 DEF Init
      <4> HIDE DEF new
      <4> QED BY <3>1, <3>3, <4>1 DEF NoPlace
    <3> QED BY Zenon, <3>2, <3>3
  <2>3. Located(new)
    BY Zenon, <2>2 DEF Located
  <2>4. QueuesInv
    BY Zenon, <1>1, <1>4 DEF Init, QueuesInv
  <2> HIDE DEF new
  <2> QED BY Zenon, <2>1, <2>3, <2>4 DEF PlaceInv
<1>8. OwnInv
  BY Zenon, <1>1, <1>2, <1>3, <1>4 DEF Init, OwnInv, Nothing
<1>9. DoingInv
  BY Zenon DEF Init, DoingInv, Nothing
<1>10. SemInv
  BY Zenon, <1>1 DEF Init, SemInv, Sleeping, Chan
<1> QED
  BY Zenon, <1>5, <1>6, <1>7, <1>8, <1>9, <1>10 DEF IInv

(* Every step keeps the invariant.                                         *)
LEMMA NextIInv == IInv /\ [Next]_vars => IInv'
<1> SUFFICES ASSUME IInv, [Next]_vars PROVE IInv'
  BY Zenon
<1>1. CASE UNCHANGED vars
  <2>1. UNCHANGED <<cpuvars, ipivars, pathvars, threadvars, chanvars>>
    BY Zenon, <1>1 DEF vars
  <2>2. TypeOK'
    BY Zenon, <2>1, SameTypes DEF IInv, TypeOK, cpuvars
  <2>3. PathInv' /\ MigInv' /\ DoingInv' /\ SemInv'
    BY SMTT(30), <2>1 DEF IInv, PathInv, MigInv, DoingInv, SemInv, Sleeping, Stopped, cpuvars, pathvars,
                threadvars, chanvars
  <2>4. PlaceInv' /\ OwnInv'
    BY Zenon, <2>1, SamePlaces, SameOwners DEF IInv, cpuvars, pathvars, threadvars, chanvars
  <2> QED BY Zenon, <2>2, <2>3, <2>4 DEF IInv
<1>2. ASSUME NEW c \in Cpus, PathStep(c) PROVE IInv'
  BY Zenon, <1>2, SwitchStep, UnidleStep, WakeOneStep, CountStep, TakeStep, GiveStep, BackStep, InterruptStep
     DEF PathStep
<1>3. ASSUME NEW c \in Cpus, NEW t \in Thread, ThreadStep(c, t) PROVE IInv'
  BY Zenon, <1>3, WaitStep, ForkStep, ForkRunnableStep, ExitStep, ShutdownStep, RebootStep DEF ThreadStep
<1>4. ASSUME NEW c \in Cpus,
             hardclock(c) \/ interprocessor_interrupt(c) \/ V(c) \/ timerclock(c)
      PROVE  IInv'
  BY Zenon, <1>4, InterruptStep, WakeStep
<1> QED
  BY Zenon, <1>1, <1>2, <1>3, <1>4 DEF Next, off

(* The inductive invariant of Threads holds in every reachable state.      *)
THEOREM ThreadsInvariant == Spec => []IInv
BY InitIInv, NextIInv, PTL DEF Spec

-----------------------------------------------------------------------------
(* What the invariant says *)

(* No two cpus are on the same stack, and none is on a freed one.          *)
THEOREM StacksInUse == Spec => []StackInUse
<1>1. IInv => StackInUse
  BY SMTT(30) DEF IInv, OwnInv, StackInUse
<1> QED
  BY <1>1, ThreadsInvariant, PTL

(* A cpu that has gone offline holds no spinlock and no thread.            *)
THEOREM OfflineHoldsNothing == Spec => []OfflineClean
<1>1. IInv => OfflineClean
  BY DEF IInv, PathInv, MigInv, Sleeping, Stopped, OfflineClean
<1> QED
  BY <1>1, ThreadsInvariant, PTL

(* The places of a thread are at its location.                             *)
LEMMA PlacesAt ==
    ASSUME NEW loc, Located(loc), NEW t \in Thread
    PROVE  /\ \A x \in Places(t) : loc[t] = <<x[1], x[2]>> /\ x = <<x[1], x[2], x[3]>>
           /\ \A x \in Places(t) :
                \/ x[1] \in {"cpu", "zombies", "child"} /\ x[3] = 0
                \/ x[1] = "runqueue" /\ x[2] \in Cpus /\ x[3] \in Positions(c_runqueue[x[2]], t)
                \/ x[1] = "list" /\ x[2] \in Cpus /\ x[3] \in Positions(list[x[2]], t)
                \/ x[1] = "victims" /\ x[2] \in Cpus /\ x[3] \in Positions(mig[x[2]].victims, t)
                \/ x[1] = "wchan" /\ x[2] \in Chan /\ x[3] \in Positions(wc_threads[x[2]], t)
<1> SUFFICES ASSUME NEW x \in Places(t)
             PROVE  /\ loc[t] = <<x[1], x[2]>> /\ x = <<x[1], x[2], x[3]>>
                    /\ \/ x[1] \in {"cpu", "zombies", "child"} /\ x[3] = 0
                       \/ x[1] = "runqueue" /\ x[2] \in Cpus /\ x[3] \in Positions(c_runqueue[x[2]], t)
                       \/ x[1] = "list" /\ x[2] \in Cpus /\ x[3] \in Positions(list[x[2]], t)
                       \/ x[1] = "victims" /\ x[2] \in Cpus /\ x[3] \in Positions(mig[x[2]].victims, t)
                       \/ x[1] = "wchan" /\ x[2] \in Chan /\ x[3] \in Positions(wc_threads[x[2]], t)
  BY Zenon
<1>1. CASE \E c \in Cpus : c_curthread[c] = t /\ ~c_isidle[c] /\ x = <<"cpu", c, 0>>
  BY <1>1 DEF Located
<1>2. CASE \E c \in Cpus : t \in c_zombies[c] /\ x = <<"zombies", c, 0>>
  BY SMTT(30), <1>2 DEF Located
<1>3. CASE \E p \in Thread : child[p] = t /\ x = <<"child", p, 0>>
  BY <1>3 DEF Located
<1>4. \A q : Positions(q, t) # {} => t \in Elems(q)
  BY Zenon DEF Positions, Elems
<1>5. CASE \E c \in Cpus : \E i \in Positions(c_runqueue[c], t) : x = <<"runqueue", c, i>>
  BY <1>4, <1>5 DEF Located
<1>6. CASE \E c \in Cpus : \E i \in Positions(list[c], t) : x = <<"list", c, i>>
  BY <1>4, <1>6 DEF Located
<1>7. CASE \E c \in Cpus : \E i \in Positions(mig[c].victims, t) : x = <<"victims", c, i>>
  BY <1>4, <1>7 DEF Located
<1>8. CASE \E w \in Chan : \E i \in Positions(wc_threads[w], t) : x = <<"wchan", w, i>>
  BY <1>4, <1>8 DEF Located
<1> QED
  BY SMTT(30), <1>1, <1>2, <1>3, <1>5, <1>6, <1>7, <1>8 DEF Places

(* A thread that has a location has a place.                               *)
LEMMA PlacesExist ==
    ASSUME NEW loc \in [Thread -> Place \cup {NoPlace}], Located(loc), NEW t \in Thread,
           t_state[t] # Nothing
    PROVE  Places(t) # {}
<1>1. loc[t] \in Place
  BY DEF Located
<1>2. \A q : t \in Elems(q) => \E i : i \in Positions(q, t)
  BY Zenon DEF Positions, Elems
<1>3. ASSUME NEW c \in Cpus, loc[t] = <<"cpu", c>> PROVE <<"cpu", c, 0>> \in Places(t)
  BY SMTT(30), <1>3 DEF Located, Places
<1>4. ASSUME NEW c \in Cpus, loc[t] = <<"zombies", c>> PROVE <<"zombies", c, 0>> \in Places(t)
  BY <1>4 DEF Located, Places
<1>5. ASSUME NEW p \in Thread, loc[t] = <<"child", p>> PROVE <<"child", p, 0>> \in Places(t)
  BY <1>5 DEF Located, Places
<1>6. ASSUME NEW c \in Cpus, loc[t] = <<"runqueue", c>> PROVE \E i : <<"runqueue", c, i>> \in Places(t)
  <2>1. PICK i : i \in Positions(c_runqueue[c], t)
    BY Zenon, <1>2, <1>6 DEF Located
  <2> QED BY SMTT(30), <2>1 DEF Places
<1>7. ASSUME NEW c \in Cpus, loc[t] = <<"list", c>> PROVE \E i : <<"list", c, i>> \in Places(t)
  <2>1. PICK i : i \in Positions(list[c], t)
    BY Zenon, <1>2, <1>7 DEF Located
  <2> QED BY SMTT(30), <2>1 DEF Places
<1>8. ASSUME NEW c \in Cpus, loc[t] = <<"victims", c>> PROVE \E i : <<"victims", c, i>> \in Places(t)
  <2>1. PICK i : i \in Positions(mig[c].victims, t)
    BY Zenon, <1>2, <1>8 DEF Located
  <2> QED BY <2>1 DEF Places
<1>9. ASSUME NEW w \in Chan, loc[t] = <<"wchan", w>> PROVE \E i : <<"wchan", w, i>> \in Places(t)
  <2>1. PICK i : i \in Positions(wc_threads[w], t)
    BY Zenon, <1>2, <1>9 DEF Located
  <2> QED BY SMTT(30), <2>1 DEF Places
<1>10. \/ \E c \in Cpus : loc[t] \in {<<"cpu", c>>, <<"zombies", c>>, <<"runqueue", c>>, <<"list", c>>,
                                    <<"victims", c>>}
       \/ \E p \in Thread : loc[t] = <<"child", p>>
       \/ \E w \in Chan : loc[t] = <<"wchan", w>>
  BY <1>1 DEF Place
<1> QED
  BY Zenon, <1>3, <1>4, <1>5, <1>6, <1>7, <1>8, <1>9, <1>10

(* A thread is in one place, if it exists, and belongs to the cpu whose it *)
(* is: no switch, wakeup, migration or exorcise loses or copies a thread.  *)
THEOREM ThreadsPlaced == Spec => []ThreadPlaced
<1>1. ASSUME IInv PROVE OwnCpu
  BY <1>1 DEF IInv, OwnInv, OwnCpu, Elems
<1>2. ASSUME IInv, NEW t \in Thread
      PROVE  Cardinality(Places(t)) = (IF t_state[t] = Nothing THEN 0 ELSE 1)
  <2>1. PICK loc \in [Thread -> Place \cup {NoPlace}] : Located(loc)
    BY Zenon, <1>2 DEF IInv, PlaceInv
  <2>2. CASE t_state[t] = Nothing
    <3>1. loc[t] = NoPlace
      BY Zenon, <2>1, <2>2 DEF Located
    <3>2. ASSUME NEW x \in Places(t) PROVE FALSE
      BY <2>1, <3>1, PlacesAt DEF NoPlace
    <3>3. Places(t) = {}
      BY Zenon, <3>2
    <3> QED BY Zenon, <2>2, <3>3, FS_EmptySet
  <2>3. CASE t_state[t] # Nothing
    <3>1. PICK x : x \in Places(t)
      BY Zenon, <2>1, <2>3, PlacesExist
    <3>2. ASSUME NEW y \in Places(t) PROVE y = x
      <4>1. x[1] = y[1] /\ x[2] = y[2] /\ x = <<x[1], x[2], x[3]>> /\ y = <<y[1], y[2], y[3]>>
        BY <2>1, <3>1, PlacesAt
      <4>2. \A q : NoDup(q) => \A i, j \in Positions(q, t) : i = j
        BY Zenon DEF NoDup, Positions
      <4>3. QueuesInv
        BY Zenon, <1>2 DEF IInv, PlaceInv
      <4>4. x[3] = y[3]
        BY <2>1, <3>1, <4>1, <4>2, <4>3, PlacesAt DEF QueuesInv
      <4> QED BY Zenon, <4>1, <4>4
    <3>3. Places(t) = {x}
      BY Zenon, <3>1, <3>2
    <3> QED BY Zenon, <2>3, <3>3, FS_Singleton
  <2> QED BY Zenon, <2>2, <2>3
<1>3. IInv => ThreadPlaced
  BY Zenon, <1>1, <1>2 DEF ThreadPlaced, ThreadOnce
<1> QED
  BY <1>3, ThreadsInvariant, PTL

-----------------------------------------------------------------------------
(* Idle cpus *)

(* A thread made runnable does not leave its cpu asleep: the cpu is the    *)
(* waker's own, is not idle, or is interrupted.                            *)
LEMMA RunnableSeen ==
    ASSUME IInv, NEW c \in Cpus, NEW t \in Thread, make_runnable(c, t), NEW d \in Cpus, d # c,
           pc[d] = "idle"
    PROVE  ipi'[d] \/ (c_runqueue'[d] = c_runqueue[d] /\ ipi'[d] = ipi[d])
<1>1. c_isidle[d] /\ t_cpu[t] \in Cpus
  BY Zenon DEF IInv, PathInv, TypeOK, ThreadTypes
<1>2. CASE t_cpu[t] = d
  BY Zenon, <1>1, <1>2 DEF make_runnable, ipi_send, IInv, TypeOK, IpiTypes
<1>3. CASE t_cpu[t] # d
  BY Zenon, <1>1, <1>3 DEF make_runnable, ipi_send, ipivars, IInv, TypeOK, IpiTypes, CpuTypes
<1> QED BY Zenon, <1>2, <1>3

(* A step of cpu c leaves the other cpus where they are, and c is idle     *)
(* after it only with an empty run queue.                                  *)
LEMMA StrandedStep ==
    ASSUME IInv, NoStranded, [Next]_vars
    PROVE  NoStranded'
<1> DEFINE Seen(d) == \/ pc'[d] # "idle" \/ c_runqueue'[d] = <<>> \/ ipi'[d]
                      \/ pc[d] = "idle" /\ c_runqueue'[d] = c_runqueue[d] /\ ipi'[d] = ipi[d]
<1>0. pc \in [Cpus -> Points] /\ c_runqueue \in [Cpus -> Seq(Thread)] /\ ipi \in [Cpus -> BOOLEAN]
  BY Zenon DEF IInv, TypeOK, PathTypes, CpuTypes, IpiTypes
<1>1. CASE UNCHANGED vars
  BY Zenon, <1>1 DEF vars, cpuvars, ipivars, pathvars, NoStranded
<1>2. ASSUME NEW c \in Cpus, NEW d \in Cpus,
             \/ PathStep(c) \/ hardclock(c) \/ interprocessor_interrupt(c) \/ V(c) \/ timerclock(c)
             \/ \E t \in Thread : ThreadStep(c, t)
      PROVE  Seen(d)
  <2>1. CASE thread_switch(c) \/ unidle(c)
    BY Zenon, <1>0, <2>1 DEF thread_switch, unidle, next_thread, Goto, cpuvars, ipivars
  <2>2. CASE wchan_wake(c)
    <3>1. PICK t \in Thread : make_runnable(c, t)
      <4>1. list[c] \in Seq(Thread) /\ list[c] # <<>>
        BY Zenon, <2>2 DEF IInv, TypeOK, PathTypes, PathInv, wchan_wake
      <4> QED BY Zenon, <2>2, <4>1, TailElems DEF wchan_wake
    <3>2. pc'[c] # "idle" /\ (d # c => pc'[d] = pc[d])
      BY Zenon, <1>0, <2>2 DEF wchan_wake, Return, Goto
    <3> QED BY Zenon, <3>1, <3>2, RunnableSeen
  <2>3. CASE migration_count(c) \/ hardclock(c)
    BY Zenon, <1>0, <2>3 DEF migration_count, hardclock, Interruptible, Yield, Goto, cpuvars, ipivars
  <2>4. CASE migration_take(c) \/ migration_back(c)
    BY Zenon, <1>0, <2>4 DEF migration_take, migration_back, Yield, Goto, ipivars
  <2>5. CASE migration_give(c)
    <3>1. pc'[c] # "idle" /\ (d # c => pc'[d] = pc[d])
      BY Zenon, <1>0, <2>5 DEF migration_give, Goto
    <3>2. CASE UNCHANGED <<c_runqueue, ipivars>>
      BY Zenon, <3>1, <3>2 DEF ipivars
    <3>3. CASE migration_move(c, mig[c].i) /\ mig[c].i \in Nat /\ mig[c].i <= NCpu
      <4>1. mig[c].i \in Cpus
        BY Zenon, <2>5, <3>3, GiveFacts DEF IInv, migration_give
      <4>2. pc[d] = "idle" => c_isidle[d]
        BY Zenon DEF IInv, PathInv
      <4> QED
        BY Zenon, <1>0, <3>1, <3>2, <3>3, <4>1, <4>2 DEF migration_move, ipi_send, ipivars
    <3>4. mig[c].i \in Nat
      BY Zenon, <2>5, GiveFacts DEF IInv, migration_give
    <3> QED BY Zenon, <2>5, <3>2, <3>3, <3>4 DEF migration_give
  <2>6. CASE lamebus_clear_ipi(c) \/ go_offline(c) \/ interprocessor_interrupt(c)
    BY Zenon, <1>0, <2>6 DEF lamebus_clear_ipi, go_offline, interprocessor_interrupt, Return, Goto, cpuvars,
                      ipivars
  <2>7. CASE V(c) \/ timerclock(c)
    BY Zenon, <1>0, <2>7 DEF V, timerclock, wake, Return, Goto, cpuvars, ipivars
  <2>8. CASE \E t \in Thread : P(c, t) \/ clocksleep(c, t) \/ thread_exit(c, t) \/ sys_reboot(c, t)
                              \/ \E n \in Thread : thread_fork(c, t, n)
    BY Zenon, <1>0, <2>8 DEF P, clocksleep, thread_exit, sys_reboot, thread_fork, wchan_sleep, Goto, cpuvars,
                      ipivars, pathvars, Runs
  <2>9. ASSUME NEW t \in Thread, fork_runnable(c, t) PROVE Seen(d)
    <3>1. pc' = pc /\ pc[c] = "run"
      BY Zenon, <2>9 DEF fork_runnable, Runs, pathvars
    <3>2. child[t] \in Thread /\ make_runnable(c, child[t])
      BY Zenon, <2>9 DEF fork_runnable, Runs, IInv, TypeOK, ThreadTypes, DoingInv
    <3> QED BY Zenon, <3>1, <3>2, RunnableSeen
  <2>10. ASSUME NEW t \in Thread, thread_shutdown(c, t) PROVE Seen(d)
    BY Zenon, <1>0, <2>10 DEF thread_shutdown, ipi_broadcast, cpuvars, pathvars
  <2> QED
    BY Zenon, <1>2, <2>1, <2>2, <2>3, <2>4, <2>5, <2>6, <2>7, <2>8, <2>9, <2>10 DEF PathStep, ThreadStep
<1>3. CASE \E c \in Cpus :
             \/ PathStep(c) \/ hardclock(c) \/ interprocessor_interrupt(c) \/ V(c) \/ timerclock(c)
             \/ \E t \in Thread : ThreadStep(c, t)
  BY Zenon, <1>2, <1>3 DEF NoStranded
<1> QED
  BY Zenon, <1>1, <1>3 DEF Next, off

(* No cpu sleeps in cpu_idle over a thread that is ready to run, without   *)
(* the interrupt that wakes it being on its line.                          *)
THEOREM NoCpuStranded == Spec => []NoStranded
<1>1. Init => NoStranded
  BY Zenon DEF Init, NoStranded
<1> QED
  BY <1>1, ThreadsInvariant, StrandedStep, PTL DEF Spec

-----------------------------------------------------------------------------
(* The semaphore *)

(* The threads in P that are not on the channel.                           *)
OnWay == {t \in Thread : doing[t] = "P"} \ Elems(wc_threads["sem"])

(* NoLostWakeup counts them.                                               *)
LEMMA WakeupCount ==
    NoLostWakeup <=> (wc_threads["sem"] # <<>> => sem_count <= Cardinality(OnWay))
<1>1. ASSUME NEW t PROVE Positions(wc_threads["sem"], t) = {} <=> t \notin Elems(wc_threads["sem"])
  BY Zenon DEF Positions, Elems
<1>2. {t \in Thread : doing[t] = "P" /\ Positions(wc_threads["sem"], t) = {}} = OnWay
  BY Zenon, <1>1 DEF OnWay
<1> QED
  BY Zenon, <1>2 DEF NoLostWakeup

(* They are finitely many, and the fewer the fewer.                        *)
LEMMA OnWayCount ==
    /\ IsFiniteSet(OnWay) /\ Cardinality(OnWay) \in Nat
    /\ \A S \in SUBSET Thread :
         OnWay \subseteq S => IsFiniteSet(S) /\ Cardinality(S) \in Nat /\ Cardinality(OnWay) <= Cardinality(S)
<1>1. ASSUME NEW S \in SUBSET Thread PROVE IsFiniteSet(S) /\ Cardinality(S) \in Nat
  BY Zenon, ThreadsAssumption, FS_Subset, FS_CardinalityType
<1>2. OnWay \in SUBSET Thread
  BY Zenon DEF OnWay
<1>3. ASSUME NEW S \in SUBSET Thread, OnWay \subseteq S PROVE Cardinality(OnWay) <= Cardinality(S)
  BY Zenon, <1>1, <1>3, FS_Subset
<1> QED
  BY Zenon, <1>1, <1>2, <1>3

(* Steps that take no thread off its way to the semaphore.                 *)
LEMMA WakeupKept ==
    ASSUME TypeOK, NoLostWakeup, wc_threads'["sem"] = wc_threads["sem"], sem_count' = sem_count,
           \A t \in Thread : doing[t] = "P" => doing'[t] = "P"
    PROVE  NoLostWakeup'
<1>1. PICK S \in SUBSET Thread : S = OnWay'
  BY Zenon DEF OnWay
<1>2. OnWay \subseteq S
  BY Zenon, <1>1 DEF OnWay
<1>3. Cardinality(OnWay) <= Cardinality(S) /\ Cardinality(OnWay) \in Nat /\ Cardinality(S) \in Nat
  BY Zenon, <1>2, OnWayCount
<1>4. sem_count \in Nat
  BY LoadFacts DEF TypeOK, ChanTypes
<1>5. wc_threads'["sem"] # <<>> => sem_count' <= Cardinality(S)
  BY <1>3, <1>4, WakeupCount
<1>6. (NoLostWakeup <=> (wc_threads["sem"] # <<>> => sem_count <= Cardinality(OnWay)))'
  BY WakeupCount, PTL
<1> QED
  BY Zenon, <1>1, <1>5, <1>6

(* V counts one up and, if there is a sleeper, sends one on its way.       *)
LEMMA WakeupV ==
    ASSUME IInv, NoLostWakeup, NEW c \in Cpus, V(c)
    PROVE  NoLostWakeup'
<1>1. PICK w \in Seq(Thread) : w = wc_threads["sem"] /\ NoDup(w) /\ \A t \in Elems(w) : doing[t] = "P"
  BY Zenon DEF IInv, TypeOK, ChanTypes, PlaceInv, QueuesInv, SemInv, Chan
<1>2. (NoLostWakeup <=> (wc_threads["sem"] # <<>> => sem_count <= Cardinality(OnWay)))'
  BY WakeupCount, PTL
<1>3. doing' = doing /\ sem_count' = sem_count + 1 /\ sem_count \in Nat
  BY LoadFacts DEF V, threadvars, IInv, TypeOK, ChanTypes
<1>4. CASE w = <<>>
  <2>1. wc_threads'["sem"] = <<>>
    <3>1. wc_threads'["sem"] = SubSeq(w, Len(SubSeq(w, 1, 0)) + 1, Len(w))
      BY Zenon, <1>1, <1>4 DEF V, wake, IInv, TypeOK, ChanTypes, Chan
    <3>2. Len(SubSeq(w, 1, 0)) = 0 /\ Len(w) = 0
      BY <1>4
    <3> QED BY <3>1, <3>2
  <2> QED BY Zenon, <1>2, <2>1
<1>5. CASE w # <<>>
  <2>1. PICK h \in Thread : h = Head(w) /\ Tail(w) \in Seq(Thread) /\ Elems(w) = Elems(Tail(w)) \cup {h}
                            /\ h \notin Elems(Tail(w)) /\ Len(w) > 0 /\ Len(w) \in Nat
    BY <1>1, <1>5, TailElems
  <2>2. wc_threads'["sem"] = Tail(w)
    <3>1. Len(SubSeq(w, 1, 1)) = 1
      <4>1. 1 \in 0..Len(w)
        BY <2>1
      <4> QED BY Zenon, <4>1, SplitElems
    <3>2. wc_threads'["sem"] = SubSeq(w, Len(SubSeq(w, 1, 1)) + 1, Len(w))
      BY Zenon, <1>1, <1>5 DEF V, wake, IInv, TypeOK, ChanTypes, Chan
    <3>3. SubSeq(w, 2, Len(w)) = Tail(w)
      BY <2>1 DEF Tail
    <3> QED BY <3>1, <3>2, <3>3
  <2>3. PICK S \in SUBSET Thread : S = OnWay'
    BY Zenon DEF OnWay
  <2>4. OnWay \cup {h} \subseteq S /\ h \notin OnWay
    BY Zenon, <1>1, <1>3, <2>1, <2>2, <2>3 DEF OnWay
  <2>5. /\ Cardinality(OnWay) \in Nat /\ Cardinality(S) \in Nat /\ IsFiniteSet(S)
        /\ Cardinality(OnWay \cup {h}) = Cardinality(OnWay) + 1
    BY Zenon, <2>4, OnWayCount, FS_AddElement
  <2>6. Cardinality(OnWay \cup {h}) <= Cardinality(S)
    BY Zenon, <2>4, <2>5, FS_Subset
  <2>7. sem_count <= Cardinality(OnWay)
    BY Zenon, <1>1, <1>5, WakeupCount
  <2>8. sem_count' <= Cardinality(S)
    BY <1>3, <2>5, <2>6, <2>7
  <2> QED BY Zenon, <1>2, <2>3, <2>8
<1> QED BY Zenon, <1>4, <1>5

(* P that finds a count takes it, and one thread off its way.              *)
LEMMA WakeupP ==
    ASSUME IInv, NoLostWakeup, NEW c \in Cpus, NEW t \in Thread, P(c, t), sem_count # 0
    PROVE  NoLostWakeup'
<1>1. (NoLostWakeup <=> (wc_threads["sem"] # <<>> => sem_count <= Cardinality(OnWay)))'
  BY WakeupCount, PTL
<1>2. /\ doing' = [doing EXCEPT ![t] = "user"] /\ sem_count' = sem_count - 1
      /\ wc_threads' = wc_threads /\ sem_count \in Nat /\ doing \in [Thread -> Doings]
  BY LoadFacts DEF P, IInv, TypeOK, ChanTypes, ThreadTypes
<1>3. PICK S \in SUBSET Thread : S = OnWay'
  BY Zenon DEF OnWay
<1>4. OnWay \ {t} \subseteq S
  BY Zenon, <1>2, <1>3 DEF OnWay
<1>5. IsFiniteSet(S) /\ Cardinality(S) \in Nat
  BY Zenon, ThreadsAssumption, FS_Subset, FS_CardinalityType
<1>6. /\ Cardinality(OnWay) \in Nat
      /\ Cardinality(OnWay \ {t}) = IF t \in OnWay THEN Cardinality(OnWay) - 1 ELSE Cardinality(OnWay)
  BY Zenon, OnWayCount, FS_RemoveElement
<1>7. Cardinality(OnWay \ {t}) <= Cardinality(S)
  BY Zenon, <1>4, <1>5, FS_Subset
<1>8. ASSUME wc_threads'["sem"] # <<>> PROVE sem_count' <= Cardinality(S)
  <2>1. sem_count <= Cardinality(OnWay)
    BY Zenon, <1>2, <1>8, WakeupCount
  <2> QED BY <1>2, <1>5, <1>6, <1>7, <2>1
<1> QED BY Zenon, <1>1, <1>3, <1>8

(* A thread that goes to sleep does so at a count of zero.                 *)
LEMMA WakeupSwitch ==
    ASSUME IInv, NoLostWakeup, NEW c \in Cpus, thread_switch(c)
    PROVE  NoLostWakeup'
<1>1. (NoLostWakeup <=> (wc_threads["sem"] # <<>> => sem_count <= Cardinality(OnWay)))'
  BY WakeupCount, PTL
<1>2. UNCHANGED <<sem_count, doing>>
  BY Zenon DEF thread_switch
<1>3. CASE newstate[c] = "S_SLEEP" /\ chan[c] = "sem"
  <2>1. sem_count = 0
    BY Zenon, <1>3 DEF thread_switch, IInv, SemInv, Sleeping
  <2>2. (Cardinality(OnWay) \in Nat)'
    BY OnWayCount, PTL
  <2> QED BY <1>1, <1>2, <2>1, <2>2
<1>4. CASE ~(newstate[c] = "S_SLEEP" /\ chan[c] = "sem")
  <2>1. newstate[c] = "S_SLEEP" => chan[c] \in Chan
    BY Zenon DEF thread_switch, IInv, PathInv, Sleeping
  <2>2. wc_threads'["sem"] = wc_threads["sem"]
    BY Zenon, <1>4, <2>1 DEF thread_switch, IInv, TypeOK, ChanTypes, Chan
  <2> QED BY Zenon, <1>2, <2>2, WakeupKept DEF IInv
<1> QED BY Zenon, <1>3, <1>4

(* Every step keeps NoLostWakeup.                                          *)
LEMMA WakeupStep ==
    ASSUME IInv, NoLostWakeup, [Next]_vars
    PROVE  NoLostWakeup'
<1>0. TypeOK /\ DoingInv /\ doing \in [Thread -> Doings] /\ wc_threads \in [Chan -> Seq(Thread)]
  BY Zenon DEF IInv, TypeOK, ThreadTypes, ChanTypes
<1>1. CASE UNCHANGED <<doing, chanvars>>
  BY Zenon, <1>0, <1>1, WakeupKept DEF chanvars
<1>2. ASSUME NEW c \in Cpus,
             \/ PathStep(c) \/ hardclock(c) \/ interprocessor_interrupt(c) \/ V(c) \/ timerclock(c)
      PROVE  NoLostWakeup'
  <2>1. CASE timerclock(c)
    <3>1. wc_threads'["sem"] = wc_threads["sem"] /\ UNCHANGED <<doing, sem_count>>
      BY Zenon, <1>0, <2>1 DEF timerclock, wake, threadvars, Chan
    <3> QED BY Zenon, <1>0, <3>1, WakeupKept
  <2>2. CASE wchan_wake(c)
    BY Zenon, <1>0, <2>2, WakeupKept DEF wchan_wake
  <2>3. CASE \/ unidle(c) \/ migration_count(c) \/ migration_take(c) \/ migration_give(c)
             \/ migration_back(c) \/ lamebus_clear_ipi(c) \/ go_offline(c) \/ hardclock(c)
             \/ interprocessor_interrupt(c)
    <3>1. UNCHANGED <<doing, chanvars>>
      BY Zenon, <2>3 DEF unidle, migration_count, migration_take, migration_give, migration_back,
                  lamebus_clear_ipi, go_offline, hardclock, interprocessor_interrupt, threadvars
    <3> QED BY Zenon, <1>1, <3>1
  <2> QED
    BY Zenon, <1>2, <2>1, <2>2, <2>3, WakeupV, WakeupSwitch DEF PathStep
<1>3. ASSUME NEW c \in Cpus, NEW t \in Thread, ThreadStep(c, t) PROVE NoLostWakeup'
  <2>1. CASE P(c, t)
    <3>1. CASE sem_count = 0
      BY Zenon, <1>0, <2>1, <3>1, WakeupKept DEF P, wchan_sleep
    <3> QED BY Zenon, <2>1, <3>1, WakeupP
  <2>2. CASE clocksleep(c, t) \/ fork_runnable(c, t) \/ thread_exit(c, t) \/ thread_shutdown(c, t)
             \/ sys_reboot(c, t)
    <3>1. UNCHANGED <<wc_threads, sem_count>> /\ \A u \in Thread : doing[u] = "P" => doing'[u] = "P"
      <4>1. CASE clocksleep(c, t)
        BY Zenon, <1>0, <4>1 DEF clocksleep, wchan_sleep, Runs
      <4>2. CASE fork_runnable(c, t)
        BY Zenon, <1>0, <4>2 DEF fork_runnable, chanvars, Runs
      <4>3. CASE thread_exit(c, t) \/ sys_reboot(c, t)
        BY Zenon, <4>3 DEF thread_exit, sys_reboot, threadvars, chanvars
      <4>4. CASE thread_shutdown(c, t)
        BY Zenon, <1>0, <4>4 DEF thread_shutdown, chanvars, Runs
      <4> QED BY Zenon, <2>2, <4>1, <4>2, <4>3, <4>4
    <3> QED BY Zenon, <1>0, <3>1, WakeupKept
  <2>3. ASSUME NEW n \in Thread, thread_fork(c, t, n) PROVE NoLostWakeup'
    <3>1. UNCHANGED <<wc_threads, sem_count>> /\ \A u \in Thread : doing[u] = "P" => doing'[u] = "P"
      BY Zenon, <1>0, <2>3 DEF thread_fork, chanvars, Runs, DoingInv
    <3> QED BY Zenon, <1>0, <3>1, WakeupKept
  <2> QED BY Zenon, <1>3, <2>1, <2>2, <2>3 DEF ThreadStep
<1>4. CASE UNCHANGED vars
  BY Zenon, <1>1, <1>4 DEF vars, threadvars
<1> QED
  BY Zenon, <1>2, <1>3, <1>4 DEF Next, off

(* No thread sleeps in P beside a count that no woken thread is on its way *)
(* to take.                                                                *)
THEOREM NoWakeupLost == Spec => []NoLostWakeup
<1>1. Init => NoLostWakeup
  BY Zenon DEF Init, NoLostWakeup, Chan
<1> QED
  BY <1>1, ThreadsInvariant, WakeupStep, PTL DEF Spec

=============================================================================
