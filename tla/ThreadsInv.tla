----------------------------- MODULE ThreadsInv -----------------------------
(***************************************************************************)
(* The inductive invariant of Threads.                                     *)
(*                                                                         *)
(* None of the properties is inductive.  Located says where each thread    *)
(* is, by a function from threads to places: a step that moves threads     *)
(* between the lists of several cpus then changes the function at those    *)
(* threads only.  PathInv says what a cpu has in hand at each point of its *)
(* path, OwnInv to whom the threads of a cpu belong, DoingInv and SemInv   *)
(* what the threads themselves are in the middle of.                       *)
(***************************************************************************)
EXTENDS Threads

Elems(q) == {q[i] : i \in 1..Len(q)}

NoDup(q) == \A i, j \in 1..Len(q) : q[i] = q[j] => i = j

NoPlace == <<"none", 0>>
Place   == ({"cpu", "zombies", "runqueue", "list", "victims"} \X Cpus)
             \cup ({"child"} \X Thread) \cup ({"wchan"} \X Chan)

(* loc[t] is the place of t, NoPlace if t does not exist.                  *)
Located(loc) ==
    \A t \in Thread :
      /\ loc[t] = NoPlace <=> t_state[t] = Nothing
      /\ \A c \in Cpus :
           /\ loc[t] = <<"cpu", c>>      <=> c_curthread[c] = t /\ ~c_isidle[c]
           /\ loc[t] = <<"zombies", c>>  <=> t \in c_zombies[c]
           /\ loc[t] = <<"runqueue", c>> <=> t \in Elems(c_runqueue[c])
           /\ loc[t] = <<"list", c>>     <=> t \in Elems(list[c])
           /\ loc[t] = <<"victims", c>>  <=> t \in Elems(mig[c].victims)
      /\ \A p \in Thread : loc[t] = <<"child", p>> <=> child[p] = t
      /\ \A w \in Chan : loc[t] = <<"wchan", w>> <=> t \in Elems(wc_threads[w])

QueuesInv ==
    /\ \A c \in Cpus : NoDup(c_runqueue[c]) /\ NoDup(list[c]) /\ NoDup(mig[c].victims)
    /\ \A w \in Chan : NoDup(wc_threads[w])

PlaceInv ==
    /\ \E loc \in [Thread -> Place \cup {NoPlace}] : Located(loc)
    /\ QueuesInv

(* The machine has been switched off.                                      *)
Stopped == \A c \in Cpus : pc[c] = "halted"

Sleeping(c) == pc[c] = "switch" /\ newstate[c] = "S_SLEEP"

PathInv ==
    \A c \in Cpus :
      /\ pc[c] \in {"run", "switch"} => ~c_isidle[c]
      /\ pc[c] \in {"idle", "relock"} => c_isidle[c]
      /\ pc[c] = "switch" => newstate[c] # Nothing
      /\ Sleeping(c) \/ pc[c] = "wake" => chan[c] \in Chan /\ wc_lock[chan[c]] = c
      /\ pc[c] = "wake" => list[c] # <<>>
      /\ list[c] # <<>> => pc[c] = "wake" \/ Stopped
      /\ \A w \in Chan : wc_lock[w] = c => \/ (Sleeping(c) \/ pc[c] = "wake") /\ chan[c] = w
                                           \/ Stopped

(* thread_consider_migration: the threads counted are still on the run     *)
(* queue when they are taken, for only the cpu itself takes any off.       *)
MigInv ==
    \A c \in Cpus :
      /\ pc[c] = "count" => /\ mig[c].i \in Cpus
                            /\ mig[c].i > c => mig[c].my <= Len(c_runqueue[c])
      /\ pc[c] = "take" => mig[c].send <= Len(c_runqueue[c])
      /\ pc[c] = "give" => mig[c].i > 0 /\ mig[c].send <= Len(mig[c].victims)
      /\ mig[c].victims # <<>> => pc[c] \in {"give", "back"} \/ Stopped
      /\ \A d \in Cpus : rq_lock[d] = c => (pc[c] = "give" /\ mig[c].i = d /\ d # c) \/ Stopped

OwnInv ==
    \A c \in Cpus :
      /\ t_cpu[c_curthread[c]] = c /\ t_state[c_curthread[c]] # Nothing
      /\ ~c_isidle[c] => t_state[c_curthread[c]] \in {"S_RUN", "S_READY"}
      /\ \A t \in Elems(c_runqueue[c]) : t_cpu[t] = c
      /\ \A t \in Elems(mig[c].victims) : t_cpu[t] = c
      /\ \A t \in c_zombies[c] : t_cpu[t] = c /\ t_state[t] = "S_ZOMBIE"

(* A thread that exits, has exited or does not exist is not in the middle  *)
(* of anything.                                                            *)
DoingInv ==
    /\ \A t \in Thread :
         /\ doing[t] = "clocksleep" => secs[t] > 0
         /\ doing[t] = "fork" <=> child[t] # Nothing
         /\ t_state[t] \in {Nothing, "S_ZOMBIE"} => doing[t] \in {"hatch", "user"}
    /\ \A c \in Cpus :
         pc[c] = "switch" /\ newstate[c] = "S_ZOMBIE" => doing[c_curthread[c]] \in {"hatch", "user"}

(* A thread on its way to the channel of the semaphore has seen a count of *)
(* zero, under the spinlock it still holds.                                *)
SemInv ==
    /\ \A t \in Elems(wc_threads["sem"]) : doing[t] = "P"
    /\ \A c \in Cpus :
         Sleeping(c) => IF chan[c] = "sem" THEN sem_count = 0 /\ doing[c_curthread[c]] = "P"
                                           ELSE doing[c_curthread[c]] = "clocksleep"

IInv == TypeOK /\ PathInv /\ MigInv /\ PlaceInv /\ OwnInv /\ DoingInv /\ SemInv

=============================================================================
