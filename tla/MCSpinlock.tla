----------------------------- MODULE MCSpinlock -----------------------------
(* Instance of Spinlock for TLC: three processors can form a cycle of      *)
(* length three through three locks.                                       *)
EXTENDS Spinlock, TLC

Symmetry == Permutations(Cpu) \cup Permutations(Lock)

=============================================================================
