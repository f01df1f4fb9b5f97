------------------------------- MODULE Memory -------------------------------
(***************************************************************************)
(* What virtual memory promises to a program, with nothing of how: a       *)
(* process starts with the image of its ELF file (and zeroes), a page      *)
(* keeps what was last stored in it, and code does not change.             *)
(***************************************************************************)
CONSTANTS Proc, Code, Data, Value,
          Image     \* a page as load_elf and zero-filling leave it

VARIABLES live,     \* the processes in user mode
          mem       \* what each page of each process holds

Fresh == [pg \in Code \cup Data |-> Image]

Init == live = {} /\ mem = [p \in Proc |-> Fresh]

Start(p) == p \notin live /\ live' = live \cup {p} /\ UNCHANGED mem

Write(p, pg, v) == p \in live /\ mem' = [mem EXCEPT ![p][pg] = v] /\ UNCHANGED live

Exit(p) == p \in live /\ live' = live \ {p} /\ mem' = [mem EXCEPT ![p] = Fresh]

Next == \E p \in Proc : \/ Start(p)
                        \/ \E pg \in Data, v \in Value : Write(p, pg, v)
                        \/ Exit(p)

vars == <<live, mem>>

Spec == Init /\ [][Next]_vars

=============================================================================
