------------------------------ MODULE MCPager -------------------------------
EXTENDS Pager, TLC

(* Processes are interchangeable: pids are given in the order of creation. *)
Symmetry == Permutations(Proc)
=============================================================================
