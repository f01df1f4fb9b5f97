-------------------------------- MODULE Disk --------------------------------
(***************************************************************************)
(* The disk driver (dev/lamebus/lhd.c): threads in lhd_io, the card with   *)
(* its one buffer and its status register, and the interrupt.  lh_clear    *)
(* and lh_done are semaphores, which work (Threads.tla); a thread may lose *)
(* the CPU between any two steps, and the interrupt may come at any time.  *)
(***************************************************************************)
EXTENDS Integers, Sequences, FiniteSets

CONSTANTS
    Thread, Value,
    Blocks,        \* d_blocks, the sectors of the disk
    Width,         \* the number of values of a uint32_t
    Requests,      \* what is asked for: [write, sector, len]
    MaxRequests, MaxFaulty

ASSUME DiskAssumption ==
    /\ Value # {} /\ Width \in Nat /\ Blocks \in 0..(Width - 1)
    /\ Requests \subseteq [write : BOOLEAN, sector : 0..(Width - 1), len : 0..(Width - 1)]

VARIABLES
    media,         \* the sectors
    card,          \* the card: [stat, sect, write, buf]
    lh_clear, lh_done, lh_result,
    pc, req, i, res,   \* of every thread: lhd_io
    buf,           \* what the caller wants to write to the next sector
    got,           \* and what it has read from the last
    last,          \* ghost: the request whose result was res
    done, faulty

varsDisk == <<media, card, lh_clear, lh_done, lh_result, pc, req, i, res, buf, got, last, done,
          faulty>>

Sector == 0..(Blocks - 1)
NoReq == [write |-> FALSE, sector |-> 0, len |-> 0]

InitDisk ==
    /\ media = [s \in Sector |-> CHOOSE v \in Value : TRUE]
    /\ card = [stat |-> "idle", sect |-> 0, write |-> FALSE, buf |-> CHOOSE v \in Value : TRUE]
    /\ lh_clear = 1 /\ lh_done = 0 /\ lh_result = "ok"
    /\ pc = [t \in Thread |-> "idle"] /\ req = [t \in Thread |-> NoReq]
    /\ i = [t \in Thread |-> 0] /\ res = [t \in Thread |-> "ok"]
    /\ buf = [t \in Thread |-> card.buf] /\ got = buf
    /\ last = [t \in Thread |-> NoReq]
    /\ done = 0 /\ faulty = 0

Goto(t, l) == pc' = [pc EXCEPT ![t] = l]
Fault == faulty < MaxFaulty /\ faulty' = faulty + 1

-----------------------------------------------------------------------------
(* The card: it is told a sector and what to do with it, and later says    *)
(* how that went.                                                          *)
CardWorks ==
    /\ card.stat = "working" /\ card.sect \in Sector
    /\ media' = IF card.write THEN [media EXCEPT ![card.sect] = card.buf] ELSE media
    /\ card' = [card EXCEPT !.stat = "ok", !.buf = IF card.write THEN @ ELSE media[card.sect]]
    /\ UNCHANGED <<lh_clear, lh_done, lh_result, pc, req, i, res, buf, got, last, done, faulty>>

CardRefuses ==
    /\ card.stat = "working"
    /\ \/ card.sect \notin Sector /\ card' = [card EXCEPT !.stat = "invsect"] /\ UNCHANGED faulty
       \/ card.sect \in Sector /\ Fault /\ card' = [card EXCEPT !.stat = "media"]
    /\ UNCHANGED <<media, lh_clear, lh_done, lh_result, pc, req, i, res, buf, got, last, done>>

lhd_code_to_errno(code) ==
    CASE code = "ok" -> "ok" [] code = "invsect" -> "EINVAL" [] code = "media" -> "EIO"

(* lhd_irq and lhd_iodone: the interrupt handler.                          *)
lhd_irq ==
    /\ card.stat \in {"ok", "invsect", "media"}
    /\ card' = [card EXCEPT !.stat = "idle"]
    /\ lh_result' = lhd_code_to_errno(card.stat)
    /\ lh_done' = lh_done + 1
    /\ UNCHANGED <<media, lh_clear, pc, req, i, res, buf, got, last, done, faulty>>

-----------------------------------------------------------------------------
(* The check for the end of the disk, which can overflow.                  *)
PastEnd(r) == (r.sector + r.len) % Width > Blocks

lhd_io(t, r) ==
    /\ pc[t] = "idle" /\ done < MaxRequests
    /\ req' = [req EXCEPT ![t] = r] /\ i' = [i EXCEPT ![t] = 0]
    /\ done' = done + 1
    /\ IF PastEnd(r)
       THEN res' = [res EXCEPT ![t] = "EINVAL"] /\ last' = [last EXCEPT ![t] = r] /\ UNCHANGED pc
       ELSE Goto(t, "loop") /\ UNCHANGED <<res, last>>
    /\ UNCHANGED <<media, card, lh_clear, lh_done, lh_result, buf, got, faulty>>

Return(t, e) ==
    /\ Goto(t, "idle") /\ res' = [res EXCEPT ![t] = e] /\ last' = [last EXCEPT ![t] = req[t]]

(* The next sector: the data to be written are what the caller has there.  *)
LoopEnd(t) ==
    /\ pc[t] = "loop" /\ i[t] = req[t].len
    /\ Return(t, "ok")
    /\ UNCHANGED <<media, card, lh_clear, lh_done, lh_result, req, i, buf, got, done, faulty>>

(* Mistake: the data are moved to the card before it is free.              *)
NextSector_fills(t) ==
    /\ pc[t] = "loop" /\ i[t] < req[t].len
    /\ IF req[t].write THEN \E v \in Value : /\ buf' = [buf EXCEPT ![t] = v]
                                             /\ card' = [card EXCEPT !.buf = v]
       ELSE UNCHANGED <<buf, card>>
    /\ Goto(t, "clear")
    /\ UNCHANGED <<media, lh_clear, lh_done, lh_result, req, i, res, got, last, done, faulty>>

NextSector(t) ==
    /\ pc[t] = "loop" /\ i[t] < req[t].len
    /\ IF req[t].write THEN \E v \in Value : buf' = [buf EXCEPT ![t] = v] ELSE UNCHANGED buf
    /\ Goto(t, "clear")
    /\ UNCHANGED <<media, card, lh_clear, lh_done, lh_result, req, i, res, got, last, done, faulty>>

(* Mistake: the card is used before it is free.                            *)
Clear_unasked(t) ==
    /\ pc[t] = "clear"
    /\ Goto(t, IF req[t].write THEN "fill" ELSE "start")
    /\ UNCHANGED <<media, card, lh_clear, lh_done, lh_result, req, i, res, buf, got, last, done, faulty>>

Clear(t) ==
    /\ pc[t] = "clear" /\ lh_clear > 0
    /\ lh_clear' = lh_clear - 1
    /\ Goto(t, IF req[t].write THEN "fill" ELSE "start")
    /\ UNCHANGED <<media, card, lh_done, lh_result, req, i, res, buf, got, last, done, faulty>>

Fill(t) ==
    /\ pc[t] = "fill"
    /\ card' = [card EXCEPT !.buf = buf[t]]
    /\ Goto(t, "start")
    /\ UNCHANGED <<media, lh_clear, lh_done, lh_result, req, i, res, buf, got, last, done, faulty>>

FillFails(t) ==
    /\ pc[t] = "fill" /\ Fault
    /\ lh_clear' = lh_clear + 1
    /\ Return(t, "EFAULT")
    /\ UNCHANGED <<media, card, lh_done, lh_result, req, i, buf, got, done>>

StartIO(t) ==
    /\ pc[t] = "start"
    /\ card' = [card EXCEPT !.sect = (req[t].sector + i[t]) % Width, !.write = req[t].write,
                            !.stat = "working"]
    /\ Goto(t, "wait")
    /\ UNCHANGED <<media, lh_clear, lh_done, lh_result, req, i, res, buf, got, last, done, faulty>>

WaitDone(t) ==
    /\ pc[t] = "wait" /\ lh_done > 0
    /\ lh_done' = lh_done - 1
    /\ Goto(t, "result")
    /\ UNCHANGED <<media, card, lh_clear, lh_result, req, i, res, buf, got, last, done, faulty>>

(* The result, and for a read the data, are fetched before the next thread *)
(* is let in.                                                              *)
Fetch(t) ==
    /\ pc[t] = "result"
    /\ \/ UNCHANGED faulty /\ res' = [res EXCEPT ![t] = lh_result]
          /\ got' = IF lh_result = "ok" /\ ~req[t].write THEN [got EXCEPT ![t] = card.buf] ELSE got
       \/ lh_result = "ok" /\ ~req[t].write /\ Fault
          /\ res' = [res EXCEPT ![t] = "EFAULT"] /\ UNCHANGED got
    /\ Goto(t, "release")
    /\ UNCHANGED <<media, card, lh_clear, lh_done, lh_result, req, i, buf, last, done>>

Release(t) ==
    /\ pc[t] = "release"
    /\ lh_clear' = lh_clear + 1
    /\ IF res[t] # "ok" THEN Return(t, res[t]) /\ UNCHANGED i
       ELSE Goto(t, "loop") /\ i' = [i EXCEPT ![t] = @ + 1] /\ UNCHANGED <<res, last>>
    /\ UNCHANGED <<media, card, lh_done, lh_result, req, buf, got, done, faulty>>

StoppedDisk ==
    /\ done = MaxRequests /\ \A t \in Thread : pc[t] = "idle"
    /\ UNCHANGED varsDisk

Step(t) ==
    \/ LoopEnd(t) \/ NextSector(t) \/ Clear(t) \/ Fill(t) \/ FillFails(t) \/ StartIO(t)
    \/ WaitDone(t) \/ Fetch(t) \/ Release(t)

NextDisk ==
    \/ CardWorks \/ CardRefuses \/ lhd_irq \/ StoppedDisk
    \/ \E t \in Thread : Step(t) \/ \E r \in Requests : lhd_io(t, r)

(* The card answers, its interrupt is taken, and every thread is run.      *)
FairnessDisk ==
    /\ WF_varsDisk(CardWorks \/ CardRefuses) /\ WF_varsDisk(lhd_irq)
    /\ \A t \in Thread : WF_varsDisk(Step(t))

SpecDisk == InitDisk /\ [][NextDisk]_varsDisk /\ FairnessDisk

-----------------------------------------------------------------------------
TypeDisk ==
    /\ media \in [Sector -> Value] /\ buf \in [Thread -> Value] /\ card.buf \in Value
    /\ lh_clear \in 0..1 /\ lh_done \in 0..1
    /\ card.sect \in 0..(Width - 1)

(* The card is used by one thread at a time: one has it from P(lh_clear)   *)
(* to V(lh_clear), and it is at work, or its interrupt awaited, only for   *)
(* that one (lhd_io).                                                      *)
HasCard(t) == pc[t] \in {"fill", "start", "wait", "result", "release"}
CardIsMine ==
    /\ Cardinality({t \in Thread : HasCard(t)}) = 1 - lh_clear
    /\ card.stat # "idle" \/ lh_done > 0 => \E t \in Thread : pc[t] = "wait"

(* A request that goes past the end of the disk fails, also when the       *)
(* check of its end overflows: then the card refuses the first sector that *)
(* is not there (the XXX in lhd_io).                                       *)
PastEndFails ==
    \A t \in Thread : last[t].sector + last[t].len > Blocks => res[t] # "ok" \/ pc[t] # "idle"

(* To its users the disk is one of sectors that are read and written at    *)
(* once: what a read returns is what is on the sector that was asked for,  *)
(* and what was written is there, whoever else uses the card (lhd_io and   *)
(* lhd_irq implement SectorDisk).                                          *)
NoOp == [write |-> FALSE, sector |-> -1, data |-> "none"]
Asks(t) == \/ pc[t] \in {"clear", "fill", "start"}
           \/ pc[t] = "wait" /\ (~req[t].write \/ card.stat = "working")
           \/ pc[t] = "result" /\ ~req[t].write
AbstractOp(t) == IF Asks(t) THEN [write |-> req[t].write, sector |-> (req[t].sector + i[t]) % Width,
                                  data |-> IF req[t].write THEN buf[t] ELSE "none"]
                 ELSE NoOp
Pending == [t \in Thread |-> AbstractOp(t)]
Abstract == INSTANCE SectorDisk
                WITH op <- Pending,
                     Op <- [write : BOOLEAN, sector : 0..(Width - 1), data : Value \cup {"none"}]
ActsAtOnce == Abstract!Spec

(* Every request comes to an end: no interrupt is lost, and nobody waits   *)
(* for a card that is not given back (P(lh_clear) and P(lh_done)).         *)
DiskRequestsEnd == \A t \in Thread : pc[t] # "idle" ~> pc[t] = "idle"
=============================================================================
