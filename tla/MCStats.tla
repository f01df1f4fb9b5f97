------------------------------ MODULE MCStats -------------------------------
(* The instance of Pager with its counters, for programs that run alone.   *)
EXTENDS VmStats, TLC
=============================================================================
