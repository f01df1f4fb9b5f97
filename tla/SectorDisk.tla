----------------------------- MODULE SectorDisk -----------------------------
(***************************************************************************)
(* What the users of a disk rely on: a sector is read or written in one    *)
(* step, at some time after it was asked for, or not at all.               *)
(***************************************************************************)
CONSTANTS Thread, Sector, Value, Op, NoOp
VARIABLES media, op, got

Init == /\ media \in [Sector -> Value] /\ got \in [Thread -> Value]
        /\ op = [t \in Thread |-> NoOp]

Ask(t) == op[t] = NoOp /\ \E o \in Op : op' = [op EXCEPT ![t] = o] /\ UNCHANGED <<media, got>>
End(t) == op[t] # NoOp /\ op' = [op EXCEPT ![t] = NoOp]

Write(t) == /\ End(t) /\ op[t].write /\ op[t].sector \in Sector
            /\ media' = [media EXCEPT ![op[t].sector] = op[t].data] /\ UNCHANGED got
Read(t)  == /\ End(t) /\ ~op[t].write /\ op[t].sector \in Sector
            /\ got' = [got EXCEPT ![t] = media[op[t].sector]] /\ UNCHANGED media
Fail(t)  == End(t) /\ UNCHANGED <<media, got>>

Next == \E t \in Thread : Ask(t) \/ Write(t) \/ Read(t) \/ Fail(t)

Spec == Init /\ [][Next]_<<media, op, got>>
=============================================================================
