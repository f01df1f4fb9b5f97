----------------------------- MODULE MCThreads ------------------------------
(* Instances of Threads for TLC.                                           *)
EXTENDS Threads, TLC

CONSTANTS t1, t2, t3, t4    \* model values: threads

TwoCpus == <<t1, t2>>

(* Four threads that use a semaphore; or three that use the clock and      *)
(* exit, after which their structures are used again.                      *)
Sem   == [count |-> 1, secs |-> 0, threads |-> 4, exits |-> FALSE]
Clock == [count |-> 0, secs |-> 2, threads |-> 3, exits |-> TRUE]
SemAndClock == {Sem, Clock}

(* Four threads that only compute.                                         *)
Busy == {[count |-> 0, secs |-> 0, threads |-> 4, exits |-> FALSE]}

(* Threads that are the first of no cpu are alike.                         *)
Alike == Permutations(Thread \ {t1, t2})
=============================================================================
