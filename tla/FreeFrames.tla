----------------------------- MODULE FreeFrames -----------------------------
(***************************************************************************)
(* What the free frame list is to its users: a stack.  free_kpages pushes  *)
(* a frame on it and alloc_kpages takes the top one off.                   *)
(***************************************************************************)
EXTENDS Sequences

CONSTANT Frame

VARIABLE free

Init == free \in Seq(Frame)

Take == free # <<>> /\ free' = Tail(free)

Return(f) == (\A i \in DOMAIN free : free[i] # f) /\ free' = <<f>> \o free

Next == Take \/ \E f \in Frame : Return(f)

Spec == Init /\ [][Next]_free

=============================================================================
