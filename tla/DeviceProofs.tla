---------------------------- MODULE DeviceProofs ----------------------------
(***************************************************************************)
(* What holds of the drivers: of the disk (lhd.c), the console (con.c and  *)
(* lser.c) and the bus with its clock (lamebus.c, autoconf.c, ltimer.c).   *)
(* First the invariants, then every driver by itself, and then the three   *)
(* as Devices has them.                                                    *)
(***************************************************************************)
EXTENDS Devices, TLAPS

(* Disk: the types.                                                        *)
Request == [write : BOOLEAN, sector : 0..(Width - 1), len : 0..(Width - 1)]
Errors == {"EINVAL", "EIO"}
DiskTypes ==
    /\ media \in [Sector -> Value] /\ buf \in [Thread -> Value] /\ got \in [Thread -> Value]
    /\ card \in [stat : {"idle", "working", "ok", "invsect", "media"}, sect : 0..(Width - 1),
                  write : BOOLEAN, buf : Value]
    /\ lh_clear \in 0..1 /\ lh_done \in 0..1 /\ lh_result \in {"ok"} \cup Errors
    /\ pc \in [Thread -> {"idle", "loop", "clear", "fill", "start", "wait", "result", "release"}]
    /\ req \in [Thread -> Request] /\ last \in [Thread -> Request]
    /\ i \in [Thread -> Nat] /\ res \in [Thread -> {"ok", "EFAULT"} \cup Errors]

(* The card is held by one thread, or lh_clear is up; the thread that      *)
(* waits does so for the card or for lh_done, never for both.              *)
DiskHeld ==
    /\ \A t, u \in Thread : HasCard(t) /\ HasCard(u) => t = u
    /\ (lh_clear = 0) <=> (\E t \in Thread : HasCard(t))
    /\ card.stat # "idle" \/ lh_done = 1 => \E t \in Thread : pc[t] = "wait"
    /\ \A t \in Thread : pc[t] = "wait" => (card.stat = "idle" <=> lh_done = 1)

(* The sector t is at; it was there, and for a read the card has its data. *)
SectorOf(t) == (req[t].sector + i[t]) % Width
Moved(t) == SectorOf(t) \in Sector /\ (~req[t].write => card.buf = media[SectorOf(t)])

(* How far t is: the sectors before were all there, the card was told what *)
(* t asks for, and a result of "ok" is that of t's sector.                 *)
DiskWork(t) ==
    /\ pc[t] # "idle" => /\ i[t] <= req[t].len /\ ~PastEnd(req[t])
                         /\ \A k \in 0..(i[t] - 1) : (req[t].sector + k) % Width \in Sector
    /\ pc[t] \notin {"idle", "loop"} => i[t] < req[t].len
    /\ pc[t] = "fill" => req[t].write
    /\ pc[t] = "start" /\ req[t].write => card.buf = buf[t]
    /\ pc[t] = "wait" => /\ card.sect = SectorOf(t) /\ card.write = req[t].write
                         /\ card.stat = "working" /\ req[t].write => card.buf = buf[t]
                         /\ card.stat = "ok" \/ (lh_done = 1 /\ lh_result = "ok") => Moved(t)
    /\ pc[t] = "result" /\ lh_result = "ok" => Moved(t)
    /\ pc[t] = "release" /\ res[t] = "ok" => SectorOf(t) \in Sector

DiskInv == DiskTypes /\ DiskHeld /\ (\A t \in Thread : DiskWork(t)) /\ PastEndFails
(* The console: the types.                                                 *)
Text == Seq(Chars)
Registers == [enable : BOOLEAN, active : BOOLEAN, force : BOOLEAN]
ConsoleTypes ==
    /\ the_console \in BOOLEAN /\ delayed \in Text /\ Len(delayed) <= Early
    /\ cs_wsem \in 0..1 /\ ls_wbusy \in BOOLEAN /\ ls_lock \in Polled \cup {"none"}
    /\ wirq \in Registers /\ sending \in {NULL} \cup [by : Printer, ch : Chars]
    /\ irq \subseteq {"start", "input"}
    /\ wpc \in [Printer -> {"putch", "send", "poll", "clear", "leave"}]
    /\ todo \in [Printer -> Text] /\ out \in [Printer -> Text]
    /\ panicked = "no"

(* The lock is held by the one that polls; the port is sending or has      *)
(* sent, and not both, just when somebody waits for that.                  *)
Polls(p) == wpc[p] \in {"poll", "clear", "leave"}
InUse == ls_wbusy \/ \E p \in Printer : wpc[p] = "clear"
ConsolePort ==
    /\ \A p \in Printer : Polls(p) <=> ls_lock = p
    /\ \A p \in Printer : /\ wpc[p] \in {"poll", "leave"} => ls_wbusy
                          /\ wpc[p] = "clear" => ~ls_wbusy
                          /\ wpc[p] # "putch" => the_console
    /\ the_console => delayed = << >>
    /\ sending = NULL \/ ~wirq.active
    /\ InUse <=> sending # NULL \/ wirq.active

(* The right to write with interrupts is in one place: the semaphore, a    *)
(* thread about to write, the port, or the handler about to give it back.  *)
ConsoleRight ==
    /\ \A p \in Printer : wpc[p] = "send" => cs_wsem = 0 /\ ~ls_wbusy /\ "start" \notin irq
    /\ \A p, q \in Printer : wpc[p] = "send" /\ wpc[q] = "send" => p = q
    /\ cs_wsem = 1 => ~ls_wbusy /\ "start" \notin irq
    /\ ls_wbusy => "start" \notin irq

(* The ring.  Behind is how far the head is ahead of the tail: a reader    *)
(* that has its character but has not moved the tail is not done with it.  *)
Place(k) == IF tail + k < RingSize THEN tail + k ELSE tail + k - RingSize
Reading == \E r \in Reader : rpc[r] = "got"
Behind == Len(accepted) - Len(taken) + (IF Reading THEN 1 ELSE 0)
RingTypes ==
    /\ head \in 0..(RingSize - 1) /\ tail \in 0..(RingSize - 1)
    /\ gotchars \in [0..(RingSize - 1) -> Nat] /\ accepted \in Seq(Nat) /\ taken \in Seq(Nat)
    /\ rpc \in [Reader -> {"getch", "got"}] /\ rloc \in [Reader -> 0..(RingSize - 1)]
    /\ typed \in Nat /\ rirq \in 0..typed /\ ch \in 0..typed
ConsoleRing ==
    /\ Len(taken) <= Len(accepted) /\ cs_rsem = Len(accepted) - Len(taken)
    /\ \A k \in 1..Len(taken) : taken[k] = accepted[k]
    /\ Behind <= Len(accepted) /\ Behind <= RingSize - 1 /\ head = Place(Behind)
    /\ \A k \in 0..(Behind - 1) : gotchars[Place(k)] = accepted[Len(accepted) - Behind + k + 1]
    /\ \A r \in Reader : rpc[r] = "got" => rloc[r] = Place(1)

(* What comes is later than what came.                                     *)
ConsoleOrder ==
    /\ \A m, n \in 1..Len(accepted) : m < n => accepted[m] < accepted[n]
    /\ \A m \in 1..Len(accepted) : /\ accepted[m] <= typed
                                   /\ "input" \in irq => accepted[m] < ch
                                   /\ rirq # 0 => accepted[m] < rirq
    /\ rirq # 0 /\ "input" \in irq => ch < rirq

(* The output is right however many threads read; the input needs that    *)
(* con_io lets in one at a time.                                           *)
OneReader == \A r, s \in Reader : r = s
OutputInv == ConsoleTypes /\ ConsolePort /\ ConsoleRight /\ OutputKept
InputInv == RingTypes /\ ConsoleRing /\ ConsoleOrder
ConsoleInv == OutputInv /\ (OneReader => InputInv)

(* The bus: the types.                                                     *)
Stages == {"init", "cpus", "probe", "mark", "attach", "config", "wait", "done"}
Services == {"rtclock", "beep", "random", "con"}
BusTypes ==
    /\ hw \in Machines
    /\ boot \in [at : Stages, drv : Nat \ {0}, slot : Slot]
    /\ slotsinuse \subseteq Slot /\ irqfuncs \in [Slot -> Interrupting \cup {None}]
    /\ devdata \in [Slot -> 0..NSlots] /\ line \subseteq Slot /\ enabled \subseteq Slot
    /\ scan \in [on : BOOLEAN, slot : 0..NSlots, irqs : SUBSET Slot, duds : 0..NSlots]
    /\ duds \in Nat /\ failed \in Nat /\ now \in Nat
    /\ service \in [Services -> 0..NSlots]

(* A slot is in use for its driver, and has its handler from               *)
(* lamebus_attach_interrupt on; the one the boot thread is at is free, or  *)
(* its own; and the drivers before have been everywhere they fit.          *)
HasDriver(s) == \E n \in DOMAIN Drivers : Drivers[n] = hw.dev[s]
Attaching(s) == boot.at = "attach" /\ boot.slot = s
BusSlots ==
    /\ boot.at = "init" => slotsinuse = {}
    /\ boot.at # "init" => Controller \in slotsinuse
    /\ \A s \in Slot :
          \/ s \notin slotsinuse /\ irqfuncs[s] = None /\ devdata[s] = NSlots
          \/ s = Controller /\ irqfuncs[s] = None
          \/ /\ s \in slotsinuse /\ HasDriver(s)
             /\ IF hw.dev[s] \in Interrupting /\ ~Attaching(s)
                THEN irqfuncs[s] = hw.dev[s] /\ devdata[s] = s
                ELSE irqfuncs[s] = None /\ devdata[s] = NSlots
    /\ boot.at \in {"mark", "attach", "config"} =>
          /\ boot.drv \in DOMAIN Drivers /\ hw.dev[boot.slot] = Drivers[boot.drv]
          /\ (boot.slot \in slotsinuse) <=> (boot.at # "mark")
          /\ boot.at = "attach" => hw.dev[boot.slot] \in Interrupting
    /\ failed = 0 => \A n \in DOMAIN Drivers, s \in Slot :
                        n < boot.drv /\ hw.dev[s] = Drivers[n] => s \in slotsinuse
    /\ boot.at \in {"wait", "done"} => boot.drv > Len(Drivers)

(* An ltimer that has been configured is the clock, unless another is.     *)
BusClock ==
    \A s \in slotsinuse :
        hw.dev[s] = "ltimer" /\ ~(boot.at \in {"attach", "config"} /\ boot.slot = s)
            => service["rtclock"] # NSlots

(* A line that is up is one that was up from the start, or of a device     *)
(* whose handler is there.                                                 *)
BusLines ==
    /\ \A s \in enabled : irqfuncs[s] # None
    /\ line \subseteq hw.early \cup enabled
    /\ scan.irqs \subseteq line

(* Duds come from a line that nobody sees to or from glitches.             *)
Unseen == \E s \in hw.early \cap line : irqfuncs[s] = None
BusDuds ==
    /\ ~scan.on => scan.duds = 0
    /\ scan.duds <= scan.slot \/ (scan.duds = 1 /\ scan.irqs = {})
    /\ duds <= MaxDuds + NSlots /\ (bus_panic = None => duds <= MaxDuds + scan.duds)
    /\ ~scan.on => duds <= failed \/ hw.early \cap line # {}
    /\ scan.duds > 0 => duds <= failed \/ Unseen

(* The CPUs: their numbers, and how many are up.                           *)
Others == hw.cpus \ {hw.self}
BusCpus ==
    /\ allcpus = IF boot.at \in {"init", "cpus"} \/ hw.uni THEN <<0>>
                 ELSE <<hw.self>> \o Ascending(Others)
    /\ cram = [c \in hw.cpus |-> IF boot.at \notin {"wait", "done"} \/ hw.uni \/ c = hw.self THEN 0
                                 ELSE Rank(c)]
    /\ hatched \subseteq hw.cpus /\ \A c \in hatched : cram[c] # 0
    /\ sem = IF boot.at = "done" THEN 0 ELSE Cardinality(hatched)
    /\ boot.at = "done" /\ ~hw.uni => hatched = Others

BusInv == BusTypes /\ BusSlots /\ BusClock /\ BusLines /\ BusDuds /\ BusCpus /\ NoBusPanic /\ TimeIsNow
(* What is used of finite sets and of the naturals.                        *)
CountingDevices ==
    /\ Cardinality({}) = 0 /\ IsFiniteSet({})
    /\ \A S : IsFiniteSet(S) => Cardinality(S) \in Nat
    /\ \A S, x : IsFiniteSet(S) /\ x \notin S =>
          IsFiniteSet(S \cup {x}) /\ Cardinality(S \cup {x}) = Cardinality(S) + 1
    /\ \A S : \A T \in SUBSET S : IsFiniteSet(S) =>
          /\ IsFiniteSet(T) /\ Cardinality(T) <= Cardinality(S)
          /\ Cardinality(T) = Cardinality(S) => T = S
    /\ \A m \in Nat : IsFiniteSet(1..m)
    /\ \A S \in SUBSET Nat : S # {} => \E n \in S : \A m \in S : n <= m

-----------------------------------------------------------------------------
(* Division by a number that is larger, and sequences.                     *)
LEMMA ModSmall == ASSUME NEW a \in Nat, NEW b \in Nat, a < b PROVE a % b = a
  BY SMT

LEMMA ModNext ==
    ASSUME NEW a \in Nat, NEW b \in Nat, a < b
    PROVE  (a + 1) % b = IF a + 1 < b THEN a + 1 ELSE 0
<1>1. CASE a + 1 < b
  BY <1>1, ModSmall
<1>2. CASE a + 1 = b
  BY <1>2, SMT
<1> QED BY <1>1, <1>2

LEMMA ModBelow == ASSUME NEW b \in Nat, NEW a \in Int, a < 0, 0 <= a + b PROVE a % b = a + b
  BY SMT

LEMMA SeqFacts ==
    ASSUME NEW S, NEW a \in Seq(S), NEW b \in Seq(S), NEW c \in Seq(S), NEW x \in S
    PROVE  /\ << >> \in Seq(S) /\ <<x>> \in Seq(S) /\ a \o b \in Seq(S)
           /\ (a \o b) \o c = a \o (b \o c) /\ a \o << >> = a /\ << >> \o a = a
           /\ Append(a, x) = a \o <<x>> /\ Append(a, x) \in Seq(S)
           /\ a # << >> => /\ Head(a) \in S /\ Tail(a) \in Seq(S)
                          /\ <<Head(a)>> \o Tail(a) = a
<1>1. (a \o b) \o c = a \o (b \o c)
  BY SMT
<1>2. a \o << >> = a /\ << >> \o a = a
  BY SMT
<1>3. Append(a, x) = a \o <<x>>
  BY SMT
<1>4. a # << >> => <<Head(a)>> \o Tail(a) = a
  BY SMT
<1> QED BY <1>1, <1>2, <1>3, <1>4

LEMMA TextIs ==
    /\ << >> \in Text
    /\ \A c \in Chars : <<c>> \in Text
    /\ \A a, b \in Text : a \o b \in Text
    /\ \A a \in Text : a # << >> => Head(a) \in Chars /\ Tail(a) \in Text
<1>1. << >> \in Seq(Chars)
  BY SMT
<1>2. "cr" \in Chars
  BY DEF Chars
<1> QED BY <1>1, <1>2, SeqFacts DEF Text

LEMMA TextAssoc == ASSUME NEW a \in Text, NEW b \in Text, NEW c \in Text
                   PROVE  (a \o b) \o c = a \o (b \o c)
<1>1. "cr" \in Chars
  BY DEF Chars
<1> QED BY <1>1, SeqFacts DEF Text

LEMMA TextEmpty == ASSUME NEW a \in Text PROVE a \o << >> = a /\ << >> \o a = a
<1>1. "cr" \in Chars
  BY DEF Chars
<1> QED BY <1>1, SeqFacts DEF Text

LEMMA TextAppend == ASSUME NEW a \in Text, NEW c \in Chars
                    PROVE  Append(a, c) = a \o <<c>> /\ Append(a, c) \in Text
<1>1. a \in Seq(Chars)
  BY DEF Text
<1>2. Append(a, c) = a \o <<c>> /\ Append(a, c) \in Seq(Chars)
  BY <1>1, SMT
<1> QED BY <1>2 DEF Text

LEMMA TextHead == ASSUME NEW a \in Text, a # << >> PROVE <<Head(a)>> \o Tail(a) = a
<1>1. "cr" \in Chars
  BY DEF Chars
<1> QED BY <1>1, SeqFacts, Zenon DEF Text

-----------------------------------------------------------------------------
(* The disk.  Another thread than the one that has the card is not at the  *)
(* card, so that nothing it relies on changes.                             *)
LEMMA DiskOthers ==
    ASSUME NEW t \in Thread, NEW u \in Thread, u # t, DiskInv, HasCard(t),
           pc'[u] = pc[u], req'[u] = req[u], i'[u] = i[u]
    PROVE  DiskWork(u)'
<1>1. pc[u] \in {"idle", "loop", "clear"}
  BY Zenon DEF DiskInv, DiskHeld, DiskTypes, HasCard
<1> QED BY Zenon, <1>1 DEF DiskInv, DiskWork, PastEnd, Sector

LEMMA DiskInit == ASSUME InitDisk PROVE DiskInv
<1> DEFINE v == CHOOSE x \in Value : TRUE
<1>1. v \in Value
  BY Zenon, DiskAssumption
<1>2. NoReq \in Request
  BY DiskAssumption DEF NoReq, Request
<1>3. DiskTypes
  BY <1>1, <1>2, DiskAssumption DEF InitDisk, DiskTypes, Errors
<1>4. \A t \in Thread : pc[t] = "idle" /\ last[t] = NoReq
  BY Zenon DEF InitDisk
<1>5. DiskHeld
  <2>1. card.stat = "idle" /\ lh_clear = 1 /\ lh_done = 0
    BY Zenon DEF InitDisk
  <2>2. \A t \in Thread : ~HasCard(t)
    BY Zenon, <1>4 DEF HasCard
  <2> QED BY <1>4, <2>1, <2>2 DEF DiskHeld
<1>6. \A t \in Thread : DiskWork(t)
  BY Zenon, <1>4 DEF DiskWork
<1>7. PastEndFails
  BY <1>4, DiskAssumption DEF PastEndFails, NoReq
<1> QED BY Zenon, <1>3, <1>5, <1>6, <1>7 DEF DiskInv

LEMMA DiskCardWorks == ASSUME DiskInv, CardWorks PROVE DiskInv'
<1> USE DEF CardWorks
<1>1. DiskTypes'
  BY Zenon DEF DiskInv, DiskTypes
<1>2. DiskHeld'
  BY Zenon DEF DiskInv, DiskTypes, DiskHeld, HasCard
<1>3. ASSUME NEW u \in Thread PROVE DiskWork(u)'
  <2>1. PICK t \in Thread : pc[t] = "wait"
    BY Zenon DEF DiskInv, DiskHeld
  <2>2. CASE u # t
    BY Zenon, <2>1, <2>2, DiskOthers DEF HasCard
  <2>3. CASE u = t
    <3>1. card.sect = SectorOf(t) /\ card.write = req[t].write
      BY Zenon, <2>1 DEF DiskInv, DiskWork
    <3>2. Moved(t)'
      BY Zenon, <3>1 DEF Moved, SectorOf, DiskInv, DiskTypes, Sector
    <3> QED BY Zenon, <2>1, <2>3, <3>1, <3>2 DEF DiskInv, DiskTypes, DiskWork, SectorOf, PastEnd, Sector
  <2> QED BY Zenon, <2>2, <2>3
<1>4. PastEndFails'
  BY Zenon DEF DiskInv, PastEndFails
<1> QED BY Zenon, <1>1, <1>2, <1>3, <1>4 DEF DiskInv

LEMMA DiskCardRefuses == ASSUME DiskInv, CardRefuses PROVE DiskInv'
<1> USE DEF CardRefuses
<1>0. PICK r \in {"invsect", "media"} : card' = [card EXCEPT !.stat = r]
  BY Zenon
<1>1. DiskTypes'
  BY Zenon, <1>0 DEF DiskInv, DiskTypes
<1>2. DiskHeld'
  BY Zenon, <1>0 DEF DiskInv, DiskTypes, DiskHeld, HasCard
<1>3. ASSUME NEW u \in Thread PROVE DiskWork(u)'
  <2>1. PICK t \in Thread : pc[t] = "wait"
    BY Zenon DEF DiskInv, DiskHeld
  <2>2. CASE u # t
    BY Zenon, <2>1, <2>2, DiskOthers DEF HasCard
  <2>3. CASE u = t
    <3>1. card'.stat \notin {"working", "ok"} /\ card'.sect = card.sect /\ card'.write = card.write
      BY Zenon, <1>0 DEF DiskInv, DiskTypes
    <3>2. lh_done' = 0
      BY <2>1 DEF DiskInv, DiskTypes, DiskHeld
    <3> QED BY <2>1, <2>3, <3>1, <3>2 DEF DiskInv, DiskWork, SectorOf, PastEnd, Sector
  <2> QED BY Zenon, <2>2, <2>3
<1>4. PastEndFails'
  BY Zenon DEF DiskInv, PastEndFails
<1> QED BY Zenon, <1>1, <1>2, <1>3, <1>4 DEF DiskInv

LEMMA DiskIrq == ASSUME DiskInv, lhd_irq PROVE DiskInv'
<1> USE DEF lhd_irq
<1>0. PICK t \in Thread : pc[t] = "wait"
  BY Zenon DEF DiskInv, DiskHeld
<1>1. lh_done = 0 /\ lh_done' = 1
  BY <1>0 DEF DiskInv, DiskTypes, DiskHeld
<1>2. lh_result' \in {"ok"} \cup Errors /\ (lh_result' = "ok" => card.stat = "ok")
  BY Zenon DEF lhd_code_to_errno, Errors
<1>3. card' \in [stat : {"idle"}, sect : 0..(Width - 1), write : BOOLEAN, buf : Value]
  BY Zenon DEF DiskInv, DiskTypes
<1>4. DiskTypes'
  BY <1>1, <1>2, <1>3 DEF DiskInv, DiskTypes
<1>5. DiskHeld'
  BY Zenon, <1>0, <1>1, <1>3 DEF DiskInv, DiskTypes, DiskHeld, HasCard
<1>6. ASSUME NEW u \in Thread PROVE DiskWork(u)'
  <2>1. CASE u # t
    BY Zenon, <1>0, <2>1, DiskOthers DEF HasCard
  <2>2. CASE u = t
    <3>1. card'.stat = "idle" /\ card'.sect = card.sect /\ card'.write = card.write /\ card'.buf = card.buf
      BY Zenon DEF DiskInv, DiskTypes
    <3>2. lh_result' = "ok" => Moved(t)'
      BY Zenon, <1>0, <1>2, <3>1 DEF DiskInv, DiskWork, Moved, SectorOf, Sector
    <3> QED BY Zenon, <1>0, <2>2, <3>1, <3>2 DEF DiskInv, DiskWork, SectorOf, PastEnd, Sector
  <2> QED BY Zenon, <2>1, <2>2
<1>7. PastEndFails'
  BY Zenon DEF DiskInv, PastEndFails
<1> QED BY Zenon, <1>4, <1>5, <1>6, <1>7 DEF DiskInv

(* A step of a thread that does not have the card, before and after it.    *)
LEMMA DiskAside ==
    ASSUME NEW t \in Thread, DiskInv, pc[t] \in {"idle", "loop"},
           pc' = [pc EXCEPT ![t] = pc'[t]], pc'[t] \in {"idle", "loop", "clear"},
           UNCHANGED <<media, card, lh_clear, lh_done, lh_result>>
    PROVE  DiskHeld'
<1>1. \A u \in Thread : HasCard(u)' = HasCard(u) /\ (pc'[u] = "wait") = (pc[u] = "wait")
  BY DEF DiskInv, DiskTypes, HasCard
<1>2. DiskHeld
  BY Zenon DEF DiskInv
<1> QED BY Zenon, <1>1, <1>2 DEF DiskHeld

LEMMA DiskAsideOthers ==
    ASSUME NEW u \in Thread, DiskInv, pc'[u] = pc[u], req'[u] = req[u], i'[u] = i[u],
           buf'[u] = buf[u], res'[u] = res[u],
           UNCHANGED <<media, card, lh_clear, lh_done, lh_result>>
    PROVE  DiskWork(u)'
<1>1. DiskWork(u)
  BY Zenon DEF DiskInv
<1> QED BY Zenon, <1>1 DEF DiskWork, SectorOf, Moved, PastEnd, Sector

LEMMA DiskAsk ==
    ASSUME DiskInv, NEW t \in Thread, NEW r \in Requests, lhd_io(t, r) PROVE DiskInv'
<1> USE DEF lhd_io
<1>0. r \in Request
  BY Zenon, DiskAssumption DEF Request
<1>1. pc' = [pc EXCEPT ![t] = pc'[t]] /\ pc'[t] \in {"idle", "loop"}
  BY DEF DiskInv, DiskTypes, Goto
<1>2. DiskTypes'
  BY <1>0, <1>1 DEF DiskInv, DiskTypes, Errors
<1>3. DiskHeld'
  BY Zenon, <1>1, DiskAside
<1>4. ASSUME NEW u \in Thread PROVE DiskWork(u)'
  <2>1. CASE u # t
    BY Zenon, <1>1, <2>1, DiskAsideOthers DEF DiskInv, DiskTypes
  <2>2. CASE u = t
    <3>1. i'[t] = 0 /\ req'[t] = r
      BY Zenon DEF DiskInv, DiskTypes
    <3>2. pc'[t] = "loop" => ~PastEnd(r)
      BY Zenon DEF DiskInv, DiskTypes, Goto
    <3> QED BY <1>0, <1>1, <2>2, <3>1, <3>2 DEF DiskWork, Request, PastEnd
  <2> QED BY Zenon, <2>1, <2>2
<1>5. PastEndFails'
  BY <1>1 DEF DiskInv, DiskTypes, PastEndFails, Goto
<1> QED BY Zenon, <1>2, <1>3, <1>4, <1>5 DEF DiskInv

(* All sectors of a request were there, so it does not go past the end,    *)
(* even if the sum that was checked has overflowed.                        *)
LEMMA WholeRequest ==
    ASSUME DiskInv, NEW t \in Thread, pc[t] = "loop", i[t] = req[t].len
    PROVE  req[t].sector + req[t].len <= Blocks
<1> DEFINE s == req[t].sector
           n == req[t].len
           k == IF s < Blocks THEN Blocks - s ELSE 0
<1>1. s \in 0..(Width - 1) /\ n \in 0..(Width - 1) /\ Width \in Nat /\ Blocks \in 0..(Width - 1)
  BY Zenon, DiskAssumption DEF DiskInv, DiskTypes, Request
<1>2. \A j \in 0..(n - 1) : (s + j) % Width \in 0..(Blocks - 1)
  BY Zenon DEF DiskInv, DiskWork, Sector
<1>3. (s + n) % Width <= Blocks
  <2>1. ~((s + n) % Width > Blocks)
    BY Zenon DEF DiskInv, DiskWork, PastEnd
  <2>2. (s + n) % Width \in Nat
    BY <1>1
  <2> QED BY <1>1, <2>1, <2>2
<1>4. SUFFICES ASSUME s + n > Blocks PROVE FALSE
  BY <1>1
<1>5. CASE k < n
  <2>1. (s + k) % Width = s + k
    BY <1>1, ModSmall
  <2> QED BY <1>1, <1>2, <1>5, <2>1
<1>6. CASE ~(k < n)
  <2>1. n = 0 /\ s > Blocks
    BY <1>1, <1>4, <1>6
  <2>2. (s + n) % Width = s
    BY <1>1, <2>1, ModSmall
  <2> QED BY <1>1, <1>3, <2>1, <2>2
<1> QED BY Zenon, <1>5, <1>6

LEMMA DiskLoopEnd == ASSUME DiskInv, NEW t \in Thread, LoopEnd(t) PROVE DiskInv'
<1> USE DEF LoopEnd, Return, Goto
<1>1. DiskTypes'
  BY Zenon DEF DiskInv, DiskTypes
<1>2. DiskHeld'
  BY Zenon, DiskAside DEF DiskInv, DiskTypes
<1>3. ASSUME NEW u \in Thread PROVE DiskWork(u)'
  <2>1. CASE u # t
    BY Zenon, <2>1, DiskAsideOthers DEF DiskInv, DiskTypes
  <2>2. CASE u = t
    BY Zenon, <2>2 DEF DiskInv, DiskTypes, DiskWork
  <2> QED BY Zenon, <2>1, <2>2
<1>4. PastEndFails'
  <2>1. req[t].sector + req[t].len <= Blocks
    BY Zenon, WholeRequest
  <2>2. ASSUME NEW u \in Thread, last'[u].sector + last'[u].len > Blocks
        PROVE  res'[u] # "ok" \/ pc'[u] # "idle"
    <3>1. u # t
      BY <2>1, <2>2, DiskAssumption DEF DiskInv, DiskTypes, Request
    <3> QED BY Zenon, <2>2, <3>1 DEF DiskInv, DiskTypes, PastEndFails
  <2> QED BY Zenon, <2>2 DEF PastEndFails
<1> QED BY Zenon, <1>1, <1>2, <1>3, <1>4 DEF DiskInv

LEMMA DiskNextSector == ASSUME DiskInv, NEW t \in Thread, NextSector(t) PROVE DiskInv'
<1> USE DEF NextSector, Goto
<1>1. DiskTypes' /\ \A u \in Thread \ {t} : buf'[u] = buf[u]
  BY DEF DiskInv, DiskTypes
<1>2. DiskHeld'
  BY Zenon, DiskAside DEF DiskInv, DiskTypes
<1>3. ASSUME NEW u \in Thread PROVE DiskWork(u)'
  <2>1. CASE u # t
    BY Zenon, <1>1, <2>1, DiskAsideOthers DEF DiskInv, DiskTypes
  <2>2. CASE u = t
    BY Zenon, <2>2 DEF DiskInv, DiskTypes, DiskWork, PastEnd, Sector
  <2> QED BY Zenon, <2>1, <2>2
<1>4. PastEndFails'
  BY Zenon DEF DiskInv, DiskTypes, PastEndFails
<1> QED BY Zenon, <1>1, <1>2, <1>3, <1>4 DEF DiskInv

(* A thread takes the card.                                                *)
LEMMA DiskClear == ASSUME DiskInv, NEW t \in Thread, Clear(t) PROVE DiskInv'
<1> USE DEF Clear, Goto
<1>1. lh_clear = 1 /\ lh_clear' = 0
  BY DEF DiskInv, DiskTypes
<1>2. DiskTypes'
  BY <1>1 DEF DiskInv, DiskTypes
<1>3. \A u \in Thread : ~HasCard(u)
  BY <1>1 DEF DiskInv, DiskHeld
<1>4. card.stat = "idle" /\ lh_done = 0
  BY <1>3 DEF DiskInv, DiskTypes, DiskHeld, HasCard
<1>5. DiskHeld'
  <2>1. \A u \in Thread : HasCard(u)' <=> u = t
    BY Zenon, <1>3 DEF DiskInv, DiskTypes, HasCard
  <2>2. \A u \in Thread : pc'[u] # "wait"
    BY Zenon, <1>3 DEF DiskInv, DiskTypes, HasCard
  <2> QED BY <1>1, <1>4, <2>1, <2>2 DEF DiskHeld
<1>6. ASSUME NEW u \in Thread PROVE DiskWork(u)'
  <2>1. CASE u # t
    <3>1. pc'[u] = pc[u] /\ pc[u] \in {"idle", "loop", "clear"}
      BY Zenon, <1>3, <2>1 DEF DiskInv, DiskTypes, HasCard
    <3> QED BY Zenon, <3>1 DEF DiskInv, DiskWork, PastEnd, Sector
  <2>2. CASE u = t
    <3>1. pc'[t] \in {"fill", "start"} /\ (pc'[t] = "fill" <=> req[t].write)
      BY Zenon DEF DiskInv, DiskTypes
    <3> QED BY Zenon, <2>2, <3>1 DEF DiskInv, DiskWork, PastEnd, Sector
  <2> QED BY Zenon, <2>1, <2>2
<1>7. PastEndFails'
  BY Zenon DEF DiskInv, DiskTypes, PastEndFails
<1> QED BY Zenon, <1>2, <1>5, <1>6, <1>7 DEF DiskInv

(* A thread goes on with the card, which others do not have.               *)
LEMMA DiskKeeps ==
    ASSUME NEW t \in Thread, DiskInv, HasCard(t), HasCard(t)', lh_clear' = lh_clear,
           pc' = [pc EXCEPT ![t] = pc'[t]]
    PROVE  /\ \A u, w \in Thread : HasCard(u)' /\ HasCard(w)' => u = w
           /\ (lh_clear' = 0) <=> (\E u \in Thread : HasCard(u)')
<1>1. \A u \in Thread : u # t => pc'[u] = pc[u]
  BY Zenon DEF DiskInv, DiskTypes
<1>2. \A u \in Thread : HasCard(u)' <=> HasCard(u)
  BY Zenon, <1>1 DEF HasCard
<1> QED BY Zenon, <1>2 DEF DiskInv, DiskHeld

LEMMA DiskFill == ASSUME DiskInv, NEW t \in Thread, Fill(t) PROVE DiskInv'
<1> USE DEF Fill, Goto
<1>1. DiskTypes' /\ pc'[t] = "start" /\ card'.buf = buf[t] /\ card'.stat = card.stat
  BY Zenon DEF DiskInv, DiskTypes
<1>2. card.stat = "idle" /\ lh_done = 0
  BY DEF DiskInv, DiskTypes, DiskHeld, HasCard
<1>3. \A u \in Thread : pc'[u] # "wait"
  BY Zenon DEF DiskInv, DiskTypes, DiskHeld, HasCard
<1>4. DiskHeld'
  <2>1. /\ \A u, w \in Thread : HasCard(u)' /\ HasCard(w)' => u = w
        /\ (lh_clear' = 0) <=> (\E u \in Thread : HasCard(u)')
    BY Zenon, <1>1, DiskKeeps DEF HasCard
  <2> QED BY <1>1, <1>2, <1>3, <2>1 DEF DiskHeld
<1>5. ASSUME NEW u \in Thread PROVE DiskWork(u)'
  <2>1. CASE u # t
    BY Zenon, <2>1, DiskOthers DEF DiskInv, DiskTypes, HasCard
  <2>2. CASE u = t
    BY Zenon, <1>1, <2>2 DEF DiskInv, DiskWork, PastEnd, Sector
  <2> QED BY Zenon, <2>1, <2>2
<1>6. PastEndFails'
  BY Zenon DEF DiskInv, DiskTypes, PastEndFails
<1> QED BY Zenon, <1>1, <1>4, <1>5, <1>6 DEF DiskInv

(* A thread gives the card back.                                           *)
LEMMA DiskGivesBack ==
    ASSUME NEW t \in Thread, DiskInv, HasCard(t), pc[t] # "wait", lh_clear' = lh_clear + 1,
           pc' = [pc EXCEPT ![t] = pc'[t]], pc'[t] \in {"idle", "loop"},
           UNCHANGED <<card, lh_done>>
    PROVE  lh_clear' = 1 /\ DiskHeld'
<1>1. \A u \in Thread : u # t => pc'[u] = pc[u]
  BY Zenon DEF DiskInv, DiskTypes
<1>2. \A u \in Thread : ~HasCard(u)'
  BY Zenon, <1>1 DEF DiskInv, DiskHeld, HasCard
<1>3. lh_clear' = 1
  BY DEF DiskInv, DiskHeld, DiskTypes
<1>4. card.stat = "idle" /\ lh_done = 0
  BY DEF DiskInv, DiskTypes, DiskHeld, HasCard
<1>5. \A u \in Thread : pc'[u] # "wait"
  BY Zenon, <1>2 DEF HasCard
<1> QED BY <1>2, <1>3, <1>4, <1>5 DEF DiskHeld

LEMMA DiskFillFails == ASSUME DiskInv, NEW t \in Thread, FillFails(t) PROVE DiskInv'
<1> USE DEF FillFails, Goto, Return
<1>1. pc' = [pc EXCEPT ![t] = "idle"] /\ pc'[t] = "idle"
  BY Zenon DEF DiskInv, DiskTypes
<1>2. lh_clear' = 1 /\ DiskHeld'
  BY Zenon, <1>1, DiskGivesBack DEF HasCard
<1>3. DiskTypes'
  BY <1>2 DEF DiskInv, DiskTypes
<1>4. ASSUME NEW u \in Thread PROVE DiskWork(u)'
  <2>1. CASE u # t
    BY Zenon, <2>1, DiskOthers DEF DiskInv, DiskTypes, HasCard
  <2>2. CASE u = t
    BY Zenon, <1>1, <2>2 DEF DiskWork
  <2> QED BY Zenon, <2>1, <2>2
<1>5. PastEndFails'
  BY Zenon DEF DiskInv, DiskTypes, PastEndFails
<1> QED BY Zenon, <1>2, <1>3, <1>4, <1>5 DEF DiskInv

LEMMA SectorInWidth ==
    ASSUME DiskInv, NEW t \in Thread PROVE SectorOf(t) \in 0..(Width - 1)
<1>1. req[t].sector + i[t] \in Nat /\ Width \in Nat \ {0}
  BY DiskAssumption DEF DiskInv, DiskTypes, Request
<1> QED BY <1>1 DEF SectorOf

LEMMA DiskStart == ASSUME DiskInv, NEW t \in Thread, StartIO(t) PROVE DiskInv'
<1> USE DEF StartIO, Goto
<1>1. SectorOf(t) \in 0..(Width - 1)
  BY Zenon, SectorInWidth
<1>2. /\ card'.sect = SectorOf(t) /\ card'.write = req[t].write /\ card'.stat = "working"
      /\ card'.buf = card.buf /\ pc'[t] = "wait"
  BY Zenon DEF DiskInv, DiskTypes, SectorOf
<1>3. DiskTypes'
  BY Zenon, <1>1 DEF DiskInv, DiskTypes, SectorOf, Request
<1>4. lh_done = 0
  BY DEF DiskInv, DiskTypes, DiskHeld, HasCard
<1>5. DiskHeld'
  <2>1. /\ \A u, w \in Thread : HasCard(u)' /\ HasCard(w)' => u = w
        /\ (lh_clear' = 0) <=> (\E u \in Thread : HasCard(u)')
    BY Zenon, <1>2, DiskKeeps DEF HasCard
  <2> QED BY <1>2, <1>4, <2>1 DEF DiskHeld
<1>6. ASSUME NEW u \in Thread PROVE DiskWork(u)'
  <2>1. CASE u # t
    BY Zenon, <2>1, DiskOthers DEF DiskInv, DiskTypes, HasCard
  <2>2. CASE u = t
    BY <1>2, <1>4, <2>2 DEF DiskInv, DiskWork, SectorOf, PastEnd, Sector
  <2> QED BY Zenon, <2>1, <2>2
<1>7. PastEndFails'
  BY Zenon DEF DiskInv, DiskTypes, PastEndFails
<1> QED BY Zenon, <1>3, <1>5, <1>6, <1>7 DEF DiskInv

LEMMA DiskWaitDone == ASSUME DiskInv, NEW t \in Thread, WaitDone(t) PROVE DiskInv'
<1> USE DEF WaitDone, Goto
<1>1. lh_done = 1 /\ lh_done' = 0 /\ pc'[t] = "result"
  BY DEF DiskInv, DiskTypes
<1>2. DiskTypes'
  BY <1>1 DEF DiskInv, DiskTypes
<1>3. card.stat = "idle"
  BY Zenon, <1>1 DEF DiskInv, DiskHeld
<1>4. \A u \in Thread : pc'[u] # "wait"
  BY Zenon, <1>1 DEF DiskInv, DiskTypes, DiskHeld, HasCard
<1>5. DiskHeld'
  <2>1. /\ \A u, w \in Thread : HasCard(u)' /\ HasCard(w)' => u = w
        /\ (lh_clear' = 0) <=> (\E u \in Thread : HasCard(u)')
    BY Zenon, <1>1, DiskKeeps DEF HasCard
  <2> QED BY <1>1, <1>3, <1>4, <2>1 DEF DiskHeld
<1>6. ASSUME NEW u \in Thread PROVE DiskWork(u)'
  <2>1. CASE u # t
    BY Zenon, <2>1, DiskOthers DEF DiskInv, DiskTypes, HasCard
  <2>2. CASE u = t
    <3>1. DiskWork(t)
      BY Zenon DEF DiskInv
    <3> QED BY Zenon, <1>1, <2>2, <3>1 DEF DiskWork, Moved, SectorOf, PastEnd, Sector
  <2> QED BY Zenon, <2>1, <2>2
<1>7. PastEndFails'
  BY Zenon DEF DiskInv, DiskTypes, PastEndFails
<1> QED BY Zenon, <1>2, <1>5, <1>6, <1>7 DEF DiskInv

LEMMA DiskFetch == ASSUME DiskInv, NEW t \in Thread, Fetch(t) PROVE DiskInv'
<1> USE DEF Fetch, Goto
<1>1. /\ pc' = [pc EXCEPT ![t] = "release"] /\ pc'[t] = "release"
      /\ res' = [res EXCEPT ![t] = res'[t]] /\ res'[t] \in {lh_result, "EFAULT"}
  BY Zenon DEF DiskInv, DiskTypes
<1>2. got' \in [Thread -> Value]
  BY Zenon DEF DiskInv, DiskTypes
<1>3. DiskTypes'
  <2>1. pc' \in [Thread -> {"idle", "loop", "clear", "fill", "start", "wait", "result", "release"}]
    BY Zenon, <1>1 DEF DiskInv, DiskTypes
  <2>2. res' \in [Thread -> {"ok", "EFAULT"} \cup Errors]
    BY Zenon, <1>1 DEF DiskInv, DiskTypes
  <2> QED BY Zenon, <1>2, <2>1, <2>2 DEF DiskInv, DiskTypes
<1>4. card.stat = "idle" /\ lh_done = 0 /\ \A u \in Thread : pc'[u] # "wait"
  BY <1>1 DEF DiskInv, DiskTypes, DiskHeld, HasCard
<1>5. DiskHeld'
  <2>1. /\ \A u, w \in Thread : HasCard(u)' /\ HasCard(w)' => u = w
        /\ (lh_clear' = 0) <=> (\E u \in Thread : HasCard(u)')
    BY Zenon, <1>1, DiskKeeps DEF HasCard
  <2> QED BY <1>4, <2>1 DEF DiskHeld
<1>6. ASSUME NEW u \in Thread PROVE DiskWork(u)'
  <2>1. CASE u # t
    BY Zenon, <1>1, <2>1, DiskOthers DEF DiskInv, DiskTypes, HasCard
  <2>2. CASE u = t
    BY Zenon, <1>1, <2>2 DEF DiskInv, DiskWork, Moved, SectorOf, PastEnd, Sector
  <2> QED BY Zenon, <2>1, <2>2
<1>7. PastEndFails'
  BY <1>1 DEF DiskInv, DiskTypes, PastEndFails
<1> QED BY Zenon, <1>3, <1>5, <1>6, <1>7 DEF DiskInv

LEMMA DiskRelease == ASSUME DiskInv, NEW t \in Thread, Release(t) PROVE DiskInv'
<1> USE DEF Release, Goto, Return
<1>1. pc' = [pc EXCEPT ![t] = pc'[t]] /\ pc'[t] \in {"idle", "loop"}
  BY Zenon DEF DiskInv, DiskTypes
<1>2. lh_clear' = 1 /\ DiskHeld'
  BY Zenon, <1>1, DiskGivesBack DEF HasCard
<1>3. DiskTypes'
  <2>1. pc' \in [Thread -> {"idle", "loop", "clear", "fill", "start", "wait", "result", "release"}]
    BY Zenon, <1>1 DEF DiskInv, DiskTypes
  <2>2. /\ res' \in [Thread -> {"ok", "EFAULT"} \cup Errors] /\ last' \in [Thread -> Request]
        /\ i' \in [Thread -> Nat]
    BY DEF DiskInv, DiskTypes
  <2> QED BY <1>2, <2>1, <2>2 DEF DiskInv, DiskTypes
<1>4. ASSUME NEW u \in Thread PROVE DiskWork(u)'
  <2>1. CASE u # t
    BY Zenon, <1>1, <2>1, DiskOthers DEF DiskInv, DiskTypes, HasCard
  <2>2. CASE u = t /\ res[t] # "ok"
    BY <2>2 DEF DiskInv, DiskTypes, DiskWork
  <2>3. CASE u = t /\ res[t] = "ok"
    <3>1. pc'[t] = "loop" /\ i'[t] = i[t] + 1 /\ i[t] \in Nat /\ req'[t] = req[t]
      BY Zenon, <2>3 DEF DiskInv, DiskTypes
    <3>2. SectorOf(t) \in Sector /\ i[t] < req[t].len /\ req[t].len \in Nat
      BY <2>3 DEF DiskInv, DiskTypes, DiskWork, Request
    <3>3. ASSUME NEW k \in 0..(i'[t] - 1) PROVE (req[t].sector + k) % Width \in Sector
      <4>1. k = i[t] \/ k \in 0..(i[t] - 1)
        BY <3>1
      <4> QED BY Zenon, <3>2, <4>1 DEF DiskInv, DiskWork, SectorOf
    <3>4. ~PastEnd(req[t])
      BY Zenon DEF DiskInv, DiskWork
    <3> QED BY <2>3, <3>1, <3>2, <3>3, <3>4 DEF DiskWork, PastEnd, Sector
  <2> QED BY Zenon, <2>1, <2>2, <2>3
<1>5. PastEndFails'
  BY Zenon DEF DiskInv, DiskTypes, PastEndFails
<1> QED BY Zenon, <1>2, <1>3, <1>4, <1>5 DEF DiskInv

LEMMA DiskStutter == ASSUME DiskInv, UNCHANGED varsDisk PROVE DiskInv'
  BY DEF DiskInv, DiskTypes, DiskHeld, DiskWork, SectorOf, Moved, HasCard, PastEndFails, PastEnd,
         Sector, varsDisk

LEMMA DiskNext == ASSUME DiskInv, NextDisk PROVE DiskInv'
<1>1. CASE CardWorks
  BY Zenon, <1>1, DiskCardWorks
<1>2. CASE CardRefuses
  BY Zenon, <1>2, DiskCardRefuses
<1>3. CASE lhd_irq
  BY Zenon, <1>3, DiskIrq
<1>4. CASE StoppedDisk
  BY Zenon, <1>4, DiskStutter DEF StoppedDisk
<1>5. ASSUME NEW t \in Thread, Step(t) PROVE DiskInv'
  BY Zenon, <1>5, DiskLoopEnd, DiskNextSector, DiskClear, DiskFill, DiskFillFails, DiskStart, DiskWaitDone,
     DiskFetch, DiskRelease DEF Step
<1>6. ASSUME NEW t \in Thread, NEW r \in Requests, lhd_io(t, r) PROVE DiskInv'
  BY Zenon, <1>6, DiskAsk
<1> QED BY Zenon, <1>1, <1>2, <1>3, <1>4, <1>5, <1>6 DEF NextDisk

(* What the invariant says of the disk: one thread has the card.           *)
LEMMA DiskSafe == ASSUME CountingDevices, DiskInv PROVE TypeDisk /\ CardIsMine /\ PastEndFails
<1>1. TypeDisk
  BY Zenon DEF DiskInv, DiskTypes, TypeDisk
<1> DEFINE S == {t \in Thread : HasCard(t)}
<1>2. Cardinality(S) = 1 - lh_clear
  <2>1. CASE lh_clear = 1
    <3>1. S = {}
      BY <2>1 DEF DiskInv, DiskHeld
    <3>2. Cardinality({}) = 0
      BY Zenon DEF CountingDevices
    <3> QED BY <2>1, <3>1, <3>2
  <2>2. CASE lh_clear = 0
    <3>1. PICK t \in Thread : HasCard(t)
      BY Zenon, <2>2 DEF DiskInv, DiskHeld
    <3>2. S = {t}
      BY Zenon, <3>1 DEF DiskInv, DiskHeld
    <3>3. Cardinality({} \cup {t}) = Cardinality({}) + 1 /\ Cardinality({}) = 0
      BY Zenon DEF CountingDevices
    <3>4. S = {} \cup {t}
      BY Zenon, <3>2
    <3> QED BY <2>2, <3>3, <3>4
  <2> QED BY <2>1, <2>2 DEF DiskInv, DiskTypes
<1>3. card.stat # "idle" \/ lh_done > 0 => \E t \in Thread : pc[t] = "wait"
  BY DEF DiskInv, DiskTypes, DiskHeld
<1> QED BY Zenon, <1>1, <1>2, <1>3 DEF CardIsMine, DiskInv

-----------------------------------------------------------------------------
(* The disk implements SectorDisk.  A step that changes what no or one     *)
(* thread asks for, in terms of Pending.                                   *)
LEMMA PendingSame ==
    ASSUME \A u \in Thread : AbstractOp(u)' = AbstractOp(u) PROVE Pending' = Pending
  BY Zenon DEF Pending

LEMMA PendingOne ==
    ASSUME NEW t \in Thread, \A u \in Thread \ {t} : AbstractOp(u)' = AbstractOp(u)
    PROVE  Pending' = [Pending EXCEPT ![t] = AbstractOp(t)']
  BY Zenon DEF Pending

(* What a thread asks for depends on the card only while it waits for a    *)
(* write to be done.                                                       *)
LEMMA OpSame ==
    ASSUME NEW u \in Thread, pc'[u] = pc[u], req'[u] = req[u], i'[u] = i[u], buf'[u] = buf[u],
           pc[u] = "wait" /\ req[u].write => (card'.stat = "working" <=> card.stat = "working")
    PROVE  AbstractOp(u)' = AbstractOp(u)
  BY Zenon DEF AbstractOp, Asks, NoOp

LEMMA OpAsked ==
    ASSUME DiskInv, NEW t \in Thread, Asks(t)
    PROVE  /\ AbstractOp(t) # NoOp
           /\ AbstractOp(t) = [write |-> req[t].write, sector |-> SectorOf(t),
                               data |-> IF req[t].write THEN buf[t] ELSE "none"]
           /\ AbstractOp(t) \in [write : BOOLEAN, sector : 0..(Width - 1), data : Value \cup {"none"}]
<1>1. SectorOf(t) \in 0..(Width - 1)
  BY Zenon, SectorInWidth
<1>2. AbstractOp(t) = [write |-> req[t].write, sector |-> SectorOf(t),
                       data |-> IF req[t].write THEN buf[t] ELSE "none"]
  BY Zenon DEF AbstractOp, SectorOf
<1>3. req[t].write \in BOOLEAN /\ buf[t] \in Value
  BY Zenon DEF DiskInv, DiskTypes, Request
<1>4. AbstractOp(t).sector = SectorOf(t) /\ NoOp.sector = -1
  BY <1>2 DEF NoOp
<1>5. AbstractOp(t) # NoOp
  BY <1>1, <1>4
<1> QED BY <1>1, <1>2, <1>3, <1>5

LEMMA OpNone == ASSUME NEW t \in Thread, ~Asks(t) PROVE AbstractOp(t) = NoOp
  BY Zenon DEF AbstractOp

AtOnce == Abstract!Next \/ UNCHANGED <<media, got, Pending>>

LEMMA OnceEnds ==
    ASSUME DiskInv, NEW t \in Thread, Asks(t), ~Asks(t)',
           \A u \in Thread \ {t} : AbstractOp(u)' = AbstractOp(u)
    PROVE  /\ Abstract!End(t)
           /\ Pending[t] = [write |-> req[t].write, sector |-> SectorOf(t),
                            data |-> IF req[t].write THEN buf[t] ELSE "none"]
<1>1. Pending[t] = AbstractOp(t) /\ AbstractOp(t)' = NoOp
  BY Zenon DEF Pending, AbstractOp
<1>2. Pending' = [Pending EXCEPT ![t] = NoOp]
  BY Zenon, <1>1, PendingOne
<1> QED BY Zenon, <1>1, <1>2, OpAsked DEF Abstract!End

LEMMA OnceFails ==
    ASSUME DiskInv, NEW t \in Thread, Asks(t), ~Asks(t)',
           \A u \in Thread \ {t} : AbstractOp(u)' = AbstractOp(u), UNCHANGED <<media, got>>
    PROVE  AtOnce
  BY Zenon, OnceEnds DEF AtOnce, Abstract!Next, Abstract!Fail

LEMMA OnceSame ==
    ASSUME \A u \in Thread : AbstractOp(u)' = AbstractOp(u), UNCHANGED <<media, got>> PROVE AtOnce
  BY Zenon, PendingSame DEF AtOnce

(* The sector is written when the card writes it.                          *)
LEMMA OnceCardWorks == ASSUME DiskInv, CardWorks PROVE AtOnce
<1> USE DEF CardWorks
<1>1. PICK t \in Thread : pc[t] = "wait"
  BY Zenon DEF DiskInv, DiskHeld
<1>2. \A u \in Thread : u # t => pc[u] # "wait"
  BY Zenon, <1>1 DEF DiskInv, DiskHeld, HasCard
<1>3. card.sect = SectorOf(t) /\ card.write = req[t].write /\ (req[t].write => card.buf = buf[t])
  BY Zenon, <1>1 DEF DiskInv, DiskWork
<1>4. card'.stat = "ok"
  BY Zenon DEF DiskInv, DiskTypes
<1>5. \A u \in Thread \ {t} : AbstractOp(u)' = AbstractOp(u)
  BY Zenon, <1>2, OpSame
<1>6. CASE ~req[t].write
  <2>1. AbstractOp(t)' = AbstractOp(t)
    BY Zenon, <1>6, OpSame
  <2> QED BY Zenon, <1>3, <1>5, <1>6, <2>1, OnceSame
<1>7. CASE req[t].write
  <2>1. Asks(t) /\ ~Asks(t)'
    BY Zenon, <1>1, <1>4, <1>7 DEF Asks
  <2>2. /\ Abstract!End(t)
        /\ Pending[t] = [write |-> req[t].write, sector |-> SectorOf(t), data |-> buf[t]]
    BY Zenon, <1>5, <1>7, <2>1, OnceEnds
  <2>3. Pending[t].write /\ Pending[t].sector = card.sect /\ Pending[t].data = card.buf
    BY <1>3, <1>7, <2>2
  <2>4. media' = [media EXCEPT ![Pending[t].sector] = Pending[t].data]
    BY Zenon, <1>3, <1>7, <2>3
  <2> QED BY Zenon, <2>2, <2>3, <2>4 DEF AtOnce, Abstract!Next, Abstract!Write
<1> QED BY Zenon, <1>6, <1>7

LEMMA OnceCardRefuses == ASSUME DiskInv, CardRefuses PROVE AtOnce
<1> USE DEF CardRefuses
<1>1. PICK t \in Thread : pc[t] = "wait"
  BY Zenon DEF DiskInv, DiskHeld
<1>2. \A u \in Thread : u # t => pc[u] # "wait"
  BY Zenon, <1>1 DEF DiskInv, DiskHeld, HasCard
<1>3. card'.stat \in {"invsect", "media"}
  BY Zenon DEF DiskInv, DiskTypes
<1>4. \A u \in Thread \ {t} : AbstractOp(u)' = AbstractOp(u)
  BY Zenon, <1>2, OpSame
<1>5. CASE ~req[t].write
  <2>1. AbstractOp(t)' = AbstractOp(t)
    BY Zenon, <1>5, OpSame
  <2> QED BY Zenon, <1>4, <2>1, OnceSame
<1>6. CASE req[t].write
  <2>1. Asks(t) /\ ~Asks(t)'
    BY Zenon, <1>1, <1>3, <1>6 DEF Asks
  <2> QED BY Zenon, <1>4, <2>1, OnceFails
<1> QED BY Zenon, <1>5, <1>6

LEMMA OnceIrq == ASSUME DiskInv, lhd_irq PROVE AtOnce
<1> USE DEF lhd_irq
<1>1. card.stat # "working" /\ card'.stat # "working"
  BY Zenon DEF DiskInv, DiskTypes
<1>2. \A u \in Thread : AbstractOp(u)' = AbstractOp(u)
  BY Zenon, <1>1, OpSame
<1> QED BY Zenon, <1>2, OnceSame

(* A step of thread t at which it neither asks for a sector nor gets it.   *)
LEMMA OnceStep ==
    ASSUME DiskInv, NEW t \in Thread, pc' = [pc EXCEPT ![t] = pc'[t]],
           \A u \in Thread \ {t} : req'[u] = req[u] /\ i'[u] = i[u] /\ buf'[u] = buf[u],
           pc[t] = "start" \/ card'.stat = card.stat, UNCHANGED <<media, got>>,
           \/ ~Asks(t) /\ ~Asks(t)'
           \/ Asks(t) /\ Asks(t)' /\ req'[t] = req[t] /\ i'[t] = i[t] /\ buf'[t] = buf[t]
    PROVE  AtOnce
<1>1. ASSUME NEW u \in Thread \ {t} PROVE AbstractOp(u)' = AbstractOp(u)
  <2>1. pc'[u] = pc[u]
    BY Zenon DEF DiskInv, DiskTypes
  <2>2. pc[t] = "start" => pc[u] # "wait"
    BY Zenon DEF DiskInv, DiskHeld, HasCard
  <2> QED BY Zenon, <2>1, <2>2, OpSame
<1>2. AbstractOp(t)' = AbstractOp(t)
  BY Zenon DEF AbstractOp, NoOp
<1> QED BY Zenon, <1>1, <1>2, OnceSame

LEMMA OnceAsk == ASSUME DiskInv, NEW t \in Thread, NEW r \in Requests, lhd_io(t, r) PROVE AtOnce
<1>1. pc' = [pc EXCEPT ![t] = pc'[t]] /\ pc'[t] \in {"idle", "loop"}
  BY DEF DiskInv, DiskTypes, lhd_io, Goto
<1>2. ~Asks(t) /\ ~Asks(t)'
  BY Zenon, <1>1 DEF Asks, lhd_io
<1> QED BY Zenon, <1>1, <1>2, OnceStep DEF DiskInv, DiskTypes, lhd_io

LEMMA OnceLoopEnd == ASSUME DiskInv, NEW t \in Thread, LoopEnd(t) PROVE AtOnce
<1> USE DEF LoopEnd, Return, Goto
<1>1. ~Asks(t) /\ ~Asks(t)'
  BY Zenon DEF Asks, DiskInv, DiskTypes
<1> QED BY Zenon, <1>1, OnceStep DEF DiskInv, DiskTypes

LEMMA OnceNextSector == ASSUME DiskInv, NEW t \in Thread, NextSector(t) PROVE AtOnce
<1>1. DiskInv'
  BY Zenon, DiskNextSector
<1> USE DEF NextSector, Goto
<1>2. ~Asks(t) /\ Asks(t)'
  BY Zenon DEF Asks, DiskInv, DiskTypes
<1>3. \A u \in Thread \ {t} : AbstractOp(u)' = AbstractOp(u)
  BY Zenon, OpSame DEF DiskInv, DiskTypes
<1>4. Pending' = [Pending EXCEPT ![t] = AbstractOp(t)']
  BY Zenon, <1>3, PendingOne
<1>5. AbstractOp(t)' \in [write : BOOLEAN, sector : 0..(Width - 1), data : Value \cup {"none"}]
  <2>1. SectorOf(t) \in 0..(Width - 1)
    BY Zenon, SectorInWidth
  <2>2. AbstractOp(t)' = [write |-> req[t].write, sector |-> SectorOf(t),
                         data |-> IF req[t].write THEN buf'[t] ELSE "none"]
    BY Zenon, <1>2 DEF AbstractOp, SectorOf
  <2>3. req[t].write \in BOOLEAN
    BY Zenon DEF DiskInv, DiskTypes, Request
  <2>4. buf'[t] \in Value
    BY Zenon, <1>1 DEF DiskInv, DiskTypes
  <2> QED BY <2>1, <2>2, <2>3, <2>4
<1>6. Pending[t] = NoOp
  BY Zenon, <1>2 DEF Pending, AbstractOp
<1> QED BY Zenon, <1>4, <1>5, <1>6 DEF AtOnce, Abstract!Next, Abstract!Ask

LEMMA OnceClear == ASSUME DiskInv, NEW t \in Thread, Clear(t) PROVE AtOnce
<1> USE DEF Clear, Goto
<1>1. Asks(t) /\ Asks(t)'
  BY Zenon DEF Asks, DiskInv, DiskTypes
<1> QED BY Zenon, <1>1, OnceStep DEF DiskInv, DiskTypes

LEMMA OnceFill == ASSUME DiskInv, NEW t \in Thread, Fill(t) PROVE AtOnce
<1> USE DEF Fill, Goto
<1>1. Asks(t) /\ Asks(t)' /\ card'.stat = card.stat
  BY Zenon DEF Asks, DiskInv, DiskTypes
<1> QED BY Zenon, <1>1, OnceStep DEF DiskInv, DiskTypes

LEMMA OnceFillFails == ASSUME DiskInv, NEW t \in Thread, FillFails(t) PROVE AtOnce
<1> USE DEF FillFails, Return, Goto
<1>1. Asks(t) /\ ~Asks(t)'
  BY Zenon DEF Asks, DiskInv, DiskTypes
<1>2. \A u \in Thread \ {t} : AbstractOp(u)' = AbstractOp(u)
  BY Zenon, OpSame DEF DiskInv, DiskTypes
<1> QED BY Zenon, <1>1, <1>2, OnceFails

LEMMA OnceStart == ASSUME DiskInv, NEW t \in Thread, StartIO(t) PROVE AtOnce
<1> USE DEF StartIO, Goto
<1>1. Asks(t) /\ Asks(t)'
  BY Zenon DEF Asks, DiskInv, DiskTypes
<1> QED BY Zenon, <1>1, OnceStep DEF DiskInv, DiskTypes

LEMMA OnceWaitDone == ASSUME DiskInv, NEW t \in Thread, WaitDone(t) PROVE AtOnce
<1> USE DEF WaitDone, Goto
<1>1. card.stat = "idle"
  BY DEF DiskInv, DiskTypes, DiskHeld
<1>2. pc'[t] = "result"
  BY Zenon DEF DiskInv, DiskTypes
<1>3. (Asks(t) <=> ~req[t].write) /\ (Asks(t)' <=> ~req[t].write)
  BY Zenon, <1>1, <1>2 DEF Asks
<1> QED BY Zenon, <1>3, OnceStep DEF DiskInv, DiskTypes

(* The sector is read when the data leave the card, where they still are   *)
(* those of the sector.                                                    *)
LEMMA OnceFetch == ASSUME DiskInv, NEW t \in Thread, Fetch(t) PROVE AtOnce
<1> USE DEF Fetch, Goto
<1>1. pc'[t] = "release" /\ ~Asks(t)'
  BY Zenon DEF DiskInv, DiskTypes, Asks
<1>2. \A u \in Thread \ {t} : AbstractOp(u)' = AbstractOp(u)
  BY Zenon, OpSame DEF DiskInv, DiskTypes
<1>3. CASE got' = got /\ req[t].write
  <2>1. ~Asks(t)
    BY Zenon, <1>3 DEF Asks
  <2> QED BY Zenon, <1>1, <1>3, <2>1, OnceStep
<1>4. CASE got' = got /\ ~req[t].write
  <2>1. Asks(t)
    BY Zenon, <1>4 DEF Asks
  <2> QED BY Zenon, <1>1, <1>2, <1>4, <2>1, OnceFails
<1>5. CASE lh_result = "ok" /\ ~req[t].write /\ got' = [got EXCEPT ![t] = card.buf]
  <2>1. Asks(t)
    BY Zenon, <1>5 DEF Asks
  <2>2. /\ Abstract!End(t)
        /\ Pending[t] = [write |-> req[t].write, sector |-> SectorOf(t), data |-> "none"]
    BY Zenon, <1>1, <1>2, <1>5, <2>1, OnceEnds
  <2>3. SectorOf(t) \in Sector /\ card.buf = media[SectorOf(t)]
    BY Zenon, <1>5 DEF DiskInv, DiskWork, Moved
  <2>4. ~Pending[t].write /\ Pending[t].sector = SectorOf(t)
    BY <1>5, <2>2
  <2> QED BY Zenon, <1>5, <2>2, <2>3, <2>4 DEF AtOnce, Abstract!Next, Abstract!Read
<1> QED BY Zenon, <1>3, <1>4, <1>5

LEMMA OnceRelease == ASSUME DiskInv, NEW t \in Thread, Release(t) PROVE AtOnce
<1> USE DEF Release, Return, Goto
<1>1. pc' = [pc EXCEPT ![t] = pc'[t]] /\ pc'[t] \in {"idle", "loop"}
  BY Zenon DEF DiskInv, DiskTypes
<1>2. ~Asks(t) /\ ~Asks(t)'
  BY Zenon, <1>1 DEF Asks
<1> QED BY Zenon, <1>1, <1>2, OnceStep DEF DiskInv, DiskTypes

LEMMA OnceNext == ASSUME DiskInv, NextDisk PROVE AtOnce
<1>1. CASE CardWorks
  BY Zenon, <1>1, OnceCardWorks
<1>2. CASE CardRefuses
  BY Zenon, <1>2, OnceCardRefuses
<1>3. CASE lhd_irq
  BY Zenon, <1>3, OnceIrq
<1>4. CASE StoppedDisk
  BY Zenon, <1>4, OnceSame, OpSame DEF StoppedDisk, varsDisk
<1>5. ASSUME NEW t \in Thread, Step(t) PROVE AtOnce
  BY Zenon, <1>5, OnceLoopEnd, OnceNextSector, OnceClear, OnceFill, OnceFillFails, OnceStart, OnceWaitDone,
     OnceFetch, OnceRelease DEF Step
<1>6. ASSUME NEW t \in Thread, NEW r \in Requests, lhd_io(t, r) PROVE AtOnce
  BY Zenon, <1>6, OnceAsk
<1> QED BY Zenon, <1>1, <1>2, <1>3, <1>4, <1>5, <1>6 DEF NextDisk
-----------------------------------------------------------------------------
(* The console: what leaves a half of its invariant alone keeps it.        *)

LEMMA OutputSame ==
    ASSUME OutputInv, UNCHANGED <<the_console, delayed, output, panicked>>,
           irq' \subseteq {"start", "input"}, "start" \in irq' => "start" \in irq
    PROVE  OutputInv'
<1> USE DEF output
<1>1. ConsoleTypes'
  BY Zenon DEF OutputInv, ConsoleTypes
<1>2. ConsolePort'
  BY Zenon DEF OutputInv, ConsolePort, Polls, InUse
<1>3. ConsoleRight'
  BY Zenon DEF OutputInv, ConsoleRight
<1>4. OutputKept'
  BY Zenon DEF OutputInv, OutputKept, InPort
<1> QED BY Zenon, <1>1, <1>2, <1>3, <1>4 DEF OutputInv

LEMMA InputSame ==
    ASSUME InputInv, UNCHANGED input, "input" \in irq' => "input" \in irq
    PROVE  InputInv'
<1> USE DEF input
<1>1. RingTypes'
  BY Zenon DEF InputInv, RingTypes
<1>2. ConsoleRing'
  BY Zenon DEF InputInv, ConsoleRing, Behind, Place, Reading
<1>3. ConsoleOrder'
  BY Zenon DEF InputInv, ConsoleOrder
<1> QED BY Zenon, <1>1, <1>2, <1>3 DEF InputInv

LEMMA CharNotNull == ASSUME NEW p, NEW c PROVE [by |-> p, ch |-> c] # NULL
  BY Zenon DEF NULL

(* What p has said and has still to say.                                   *)
Rest(p) == IF p = Boot THEN delayed ELSE << >>
Whole(p) == out[p] \o InPort(p) \o Rest(p) \o todo[p]

LEMMA WholeKept ==
    ASSUME OutputInv, \A p \in Printer : Whole(p)' = Whole(p) PROVE OutputKept'
  BY Zenon DEF OutputInv, OutputKept, Whole, Rest, Says

LEMMA WholeTypes ==
    ASSUME OutputInv, NEW p \in Printer
    PROVE  /\ out[p] \in Text /\ todo[p] \in Text
           /\ InPort(p) \in Text /\ Rest(p) \in Text
<1>1. sending # NULL => sending.ch \in Chars
  BY Zenon DEF OutputInv, ConsoleTypes
<1>2. InPort(p) \in Text
  BY Zenon, <1>1, TextIs DEF InPort
<1> QED BY Zenon, <1>2, TextIs DEF OutputInv, ConsoleTypes, Rest

(* A character goes into the port: it was the next, and the port is free.  *)
LEMMA WholeSends ==
    ASSUME OutputInv, NEW p \in Printer, sending = NULL, the_console,
           todo[p] # << >>, sending' = Char(p), Said(p), UNCHANGED <<out, delayed>>
    PROVE  OutputKept'
<1>1. ASSUME NEW q \in Printer, q # p PROVE Whole(q)' = Whole(q)
  BY Zenon, <1>1, CharNotNull DEF Whole, Rest, InPort, Char, Said, OutputInv, ConsoleTypes
<1>2. Whole(p)' = Whole(p)
  <2>1. delayed = << >>
    BY Zenon DEF OutputInv, ConsolePort
  <2>2. InPort(p)' = <<Head(todo[p])>> /\ InPort(p) = << >>
    BY Zenon, CharNotNull DEF InPort, Char
  <2>3. todo'[p] = Tail(todo[p]) /\ out'[p] = out[p] /\ delayed' = << >>
    BY Zenon, <2>1 DEF Said, OutputInv, ConsoleTypes
  <2>4. /\ out[p] \in Text /\ todo[p] \in Text /\ << >> \in Text
        /\ Tail(todo[p]) \in Text /\ <<Head(todo[p])>> \in Text
    BY Zenon, TextIs, WholeTypes
  <2>5. Whole(p) = out[p] \o todo[p]
    BY Zenon, <2>1, <2>2, <2>4, TextEmpty DEF Whole, Rest
  <2>6. Whole(p)' = (out[p] \o <<Head(todo[p])>>) \o Tail(todo[p])
    <3>1. out[p] \o <<Head(todo[p])>> \in Text
      BY Zenon, <2>4, TextIs
    <3>2. Whole(p)' = ((out[p] \o <<Head(todo[p])>>) \o << >>) \o Tail(todo[p])
      BY Zenon, <2>2, <2>3 DEF Whole, Rest
    <3> QED BY Zenon, <3>1, <3>2, TextEmpty
  <2>7. (out[p] \o <<Head(todo[p])>>) \o Tail(todo[p])
        = out[p] \o (<<Head(todo[p])>> \o Tail(todo[p]))
    BY <2>4, TextAssoc, Zenon
  <2>8. <<Head(todo[p])>> \o Tail(todo[p]) = todo[p]
    BY <2>4, TextHead, Zenon
  <2> QED BY <2>5, <2>6, <2>7, <2>8, Zenon
<1> QED BY Zenon, <1>1, <1>2, WholeKept

LEMMA ConsolePortSends == ASSUME OutputInv, PortSends PROVE OutputInv'
<1> USE DEF PortSends
<1>1. sending.by \in Printer /\ sending.ch \in Chars
  BY Zenon DEF OutputInv, ConsoleTypes
<1>2. ~wirq.active /\ InUse /\ wirq' = [wirq EXCEPT !.active = TRUE] /\ sending' = NULL
  BY Zenon DEF OutputInv, ConsolePort
<1>3. ConsoleTypes'
  BY Zenon, <1>1, TextAppend, TextIs DEF OutputInv, ConsoleTypes, Registers
<1>4. ConsolePort'
  BY Zenon, <1>2 DEF OutputInv, ConsoleTypes, Registers, ConsolePort, Polls, InUse
<1>5. ConsoleRight'
  BY Zenon DEF OutputInv, ConsoleRight
<1>6. ASSUME NEW p \in Printer PROVE Whole(p)' = Whole(p)
  <2>1. CASE p # sending.by
    BY Zenon, <2>1 DEF Whole, Rest, InPort, OutputInv, ConsoleTypes
  <2>2. CASE p = sending.by
    <3>1. InPort(p) = <<sending.ch>> /\ InPort(p)' = << >>
      BY Zenon, <2>2 DEF InPort
    <3>2. out'[p] = Append(out[p], sending.ch)
      BY Zenon, <2>2 DEF OutputInv, ConsoleTypes
    <3>3. out'[p] = out[p] \o <<sending.ch>> /\ out'[p] \in Text
      BY <1>1, <3>2, TextAppend, TextIs, WholeTypes
    <3>4. out'[p] \o << >> = out[p] \o InPort(p)
      BY Zenon, <3>1, <3>3, TextEmpty
    <3> QED BY Zenon, <3>1, <3>4 DEF Whole, Rest
  <2> QED BY Zenon, <2>1, <2>2
<1> QED BY Zenon, <1>3, <1>4, <1>5, <1>6, WholeKept DEF OutputInv

LEMMA OutputIrq == ASSUME OutputInv, lser_irq PROVE OutputInv'
<1> USE DEF lser_irq
<1>1. \A p \in Printer : ~Polls(p)
  BY Zenon, ConsoleAssumption DEF OutputInv, ConsoleTypes, ConsolePort, Polls, Printer
<1>2. wirq.active => ls_wbusy /\ sending = NULL
  BY Zenon, <1>1 DEF OutputInv, ConsolePort, InUse, Polls
<1>3. On \in Registers /\ ~On.active
  BY Zenon DEF On, Off, Registers
<1>4. ConsoleTypes'
  BY Zenon, <1>3 DEF OutputInv, ConsoleTypes
<1>5. ConsolePort'
  <2>1. CASE wirq.active
    BY Zenon, <1>1, <1>2, <1>3, <2>1 DEF OutputInv, ConsolePort, Polls, InUse
  <2>2. CASE ~wirq.active
    BY Zenon, <2>2 DEF OutputInv, ConsolePort, Polls, InUse
  <2> QED BY Zenon, <2>1, <2>2
<1>6. ConsoleRight'
  BY Zenon, <1>2 DEF OutputInv, ConsoleTypes, ConsoleRight
<1>7. OutputKept'
  BY Zenon DEF OutputInv, OutputKept, InPort
<1> QED BY Zenon, <1>4, <1>5, <1>6, <1>7 DEF OutputInv

LEMMA InputIrq == ASSUME InputInv, lser_irq PROVE InputInv'
<1> USE DEF lser_irq
<1>1. RingTypes'
  BY DEF InputInv, RingTypes
<1>2. ConsoleRing'
  BY Zenon DEF InputInv, ConsoleRing, Behind, Place, Reading
<1>3. ConsoleOrder'
  BY Zenon DEF InputInv, ConsoleOrder, RingTypes
<1> QED BY Zenon, <1>1, <1>2, <1>3 DEF InputInv

LEMMA ConsoleStart == ASSUME OutputInv, con_start PROVE OutputInv'
<1> USE DEF con_start
<1>1. cs_wsem = 0 /\ ~ls_wbusy /\ \A p \in Printer : wpc[p] # "send"
  BY DEF OutputInv, ConsoleTypes, ConsoleRight
<1>2. ConsoleTypes'
  BY <1>1 DEF OutputInv, ConsoleTypes
<1>3. ConsolePort'
  BY Zenon DEF OutputInv, ConsolePort, Polls, InUse
<1>4. ConsoleRight'
  BY Zenon, <1>1 DEF OutputInv, ConsoleTypes, ConsoleRight
<1>5. OutputKept'
  BY Zenon DEF OutputInv, OutputKept, InPort
<1> QED BY Zenon, <1>2, <1>3, <1>4, <1>5 DEF OutputInv

LEMMA ConsoleDelayed == ASSUME OutputInv, putch_delayed PROVE OutputInv'
<1> USE DEF putch_delayed, At
<1>0. Boot \in Printer
  BY Zenon DEF Printer
<1>1. Len(delayed) < DelaySize /\ Len(delayed) < Early
  BY ConsoleAssumption DEF OutputInv, ConsoleTypes
<1>2. /\ Head(todo[Boot]) \in Chars /\ Tail(todo[Boot]) \in Text
      /\ <<Head(todo[Boot])>> \in Text
      /\ <<Head(todo[Boot])>> \o Tail(todo[Boot]) = todo[Boot]
  BY Zenon, <1>0, TextIs, TextHead, WholeTypes
<1>3. delayed' = Append(delayed, Head(todo[Boot])) /\ Said(Boot) /\ UNCHANGED panicked
  BY Zenon, <1>1
<1>4. ConsoleTypes'
  <2>1. delayed \in Text /\ Len(delayed) + 1 <= Early
    BY <1>1, ConsoleAssumption DEF OutputInv, ConsoleTypes, Text
  <2>2. delayed' \in Text /\ Len(delayed') = Len(delayed) + 1
    BY <1>2, <1>3, <2>1 DEF Text
  <2>3. Len(delayed') <= Early
    BY Zenon, <2>1, <2>2
  <2> QED BY Zenon, <1>2, <1>3, <2>2, <2>3 DEF OutputInv, ConsoleTypes, Said
<1>5. ConsolePort'
  BY Zenon DEF OutputInv, ConsolePort, Polls, InUse
<1>6. ConsoleRight'
  BY Zenon DEF OutputInv, ConsoleRight
<1>7. ASSUME NEW p \in Printer PROVE Whole(p)' = Whole(p)
  <2>1. CASE p # Boot
    BY Zenon, <1>3, <2>1 DEF Whole, Rest, InPort, OutputInv, ConsoleTypes, Said
  <2>2. CASE p = Boot
    <3> DEFINE a == out[Boot] \o InPort(Boot)
    <3>1. a \in Text /\ delayed \in Text /\ a \o delayed \in Text
      BY Zenon, <1>0, WholeTypes, TextIs DEF OutputInv, ConsoleTypes
    <3>2. todo'[Boot] = Tail(todo[Boot])
      BY Zenon, <1>0, <1>3 DEF Said, OutputInv, ConsoleTypes
    <3>3. Whole(Boot)' = (a \o Append(delayed, Head(todo[Boot]))) \o Tail(todo[Boot])
      BY Zenon, <1>3, <3>2 DEF Whole, Rest, InPort
    <3>4. a \o Append(delayed, Head(todo[Boot])) = (a \o delayed) \o <<Head(todo[Boot])>>
      <4>1. Append(delayed, Head(todo[Boot])) = delayed \o <<Head(todo[Boot])>>
        BY <1>2, <3>1, TextAppend, Zenon
      <4>2. (a \o delayed) \o <<Head(todo[Boot])>> = a \o (delayed \o <<Head(todo[Boot])>>)
        <5> HIDE DEF a
        <5> QED BY <1>2, <3>1, TextAssoc, Zenon
      <4> QED BY <4>1, <4>2, Zenon
    <3>5. Whole(Boot)' = (a \o delayed) \o (<<Head(todo[Boot])>> \o Tail(todo[Boot]))
      <4> HIDE DEF a
      <4>1. ((a \o delayed) \o <<Head(todo[Boot])>>) \o Tail(todo[Boot])
            = (a \o delayed) \o (<<Head(todo[Boot])>> \o Tail(todo[Boot]))
        BY <1>2, <3>1, TextAssoc, Zenon
      <4> QED BY <3>3, <3>4, <4>1, Zenon
    <3> QED BY Zenon, <1>2, <2>2, <3>5 DEF Whole, Rest
  <2> QED BY Zenon, <2>1, <2>2
<1> QED BY Zenon, <1>4, <1>5, <1>6, <1>7, WholeKept DEF OutputInv

LEMMA ConsoleConfig == ASSUME OutputInv, config_con PROVE OutputInv'
<1> USE DEF config_con
<1>0. Boot \in Printer
  BY Zenon DEF Printer
<1>1. delayed \in Text /\ todo[Boot] \in Text
  BY Zenon, <1>0 DEF OutputInv, ConsoleTypes
<1>2. delayed \o todo[Boot] \in Text
  BY Zenon, <1>1, TextIs
<1>3. ConsoleTypes'
  <2>1. delayed' \in Text /\ Len(delayed') <= Early
    BY TextIs, ConsoleAssumption
  <2> QED BY Zenon, <1>2, <2>1 DEF OutputInv, ConsoleTypes
<1>4. ConsolePort'
  BY Zenon DEF OutputInv, ConsolePort, Polls, InUse
<1>5. ConsoleRight'
  BY Zenon DEF OutputInv, ConsoleRight
<1>6. ASSUME NEW p \in Printer PROVE Whole(p)' = Whole(p)
  <2>1. CASE p # Boot
    BY Zenon, <2>1 DEF Whole, Rest, InPort, OutputInv, ConsoleTypes
  <2>2. CASE p = Boot
    <3> DEFINE a == out[Boot] \o InPort(Boot)
    <3>1. a \in Text
      BY Zenon, <1>0, WholeTypes, TextIs
    <3>2. todo'[Boot] = delayed \o todo[Boot]
      BY Zenon, <1>0 DEF OutputInv, ConsoleTypes
    <3>3. Whole(Boot)' = (a \o << >>) \o (delayed \o todo[Boot])
      BY Zenon, <3>2 DEF Whole, Rest, InPort
    <3>4. Whole(Boot) = (a \o delayed) \o todo[Boot]
      BY Zenon DEF Whole, Rest
    <3>5. a \o << >> = a /\ (a \o delayed) \o todo[Boot] = a \o (delayed \o todo[Boot])
      <4> HIDE DEF a
      <4> QED BY <1>1, <3>1, TextEmpty, TextAssoc, Zenon
    <3> QED BY <2>2, <3>3, <3>4, <3>5, Zenon
  <2> QED BY Zenon, <2>1, <2>2
<1> QED BY Zenon, <1>3, <1>4, <1>5, <1>6, WholeKept DEF OutputInv

LEMMA ConsolePutch ==
    ASSUME OutputInv, NEW p \in Printer, putch_intr(p) PROVE OutputInv'
<1> USE DEF putch_intr, At, Moves
<1>1. cs_wsem = 1 /\ cs_wsem' = 0 /\ wpc[p] = "putch" /\ the_console
  BY DEF OutputInv, ConsoleTypes
<1>2. ConsoleTypes'
  BY <1>1 DEF OutputInv, ConsoleTypes
<1>3. wpc'[p] = "send" /\ \A q \in Printer : q # p => wpc'[q] = wpc[q]
  BY Zenon DEF OutputInv, ConsoleTypes
<1>4. ConsolePort'
  BY Zenon, <1>1, <1>3 DEF OutputInv, ConsolePort, Polls, InUse
<1>5. ConsoleRight'
  BY <1>1, <1>3 DEF OutputInv, ConsoleRight
<1>6. OutputKept'
  BY Zenon DEF OutputInv, OutputKept, InPort
<1> QED BY Zenon, <1>2, <1>4, <1>5, <1>6 DEF OutputInv

(* When nobody holds the lock, the port is in use only if it is said so.   *)
LEMMA PortFree ==
    ASSUME OutputInv, ls_lock = "none", ~ls_wbusy PROVE sending = NULL /\ ~wirq.active
<1>1. \A p \in Printer : ~Polls(p)
  BY Zenon, ConsoleAssumption DEF OutputInv, ConsoleTypes, ConsolePort, Polls, Printer
<1> QED BY Zenon, <1>1 DEF OutputInv, ConsolePort, InUse, Polls

LEMMA CharType ==
    ASSUME OutputInv, NEW p \in Printer, todo[p] # << >>
    PROVE  Char(p) \in [by : Printer, ch : Chars] /\ Char(p) # NULL /\ Tail(todo[p]) \in Text
<1>1. Head(todo[p]) \in Chars /\ Tail(todo[p]) \in Text
  BY Zenon, TextIs, WholeTypes
<1> QED BY Zenon, <1>1, CharNotNull DEF Char

LEMMA ConsoleWrite ==
    ASSUME OutputInv, NEW p \in Printer, lser_write(p) PROVE OutputInv'
<1> USE DEF lser_write, At
<1>1. wpc[p] = "send" /\ ~ls_wbusy /\ cs_wsem = 0 /\ "start" \notin irq /\ the_console
  BY Zenon DEF OutputInv, ConsoleRight, ConsolePort
<1>2. sending = NULL /\ ~wirq.active
  BY Zenon, <1>1, PortFree
<1>3. ls_wbusy' = TRUE /\ sending' = Char(p) /\ Said(p) /\ Moves(p, "putch") /\ panicked' = panicked
  BY Zenon, <1>1
<1>4. Char(p) \in [by : Printer, ch : Chars] /\ Char(p) # NULL /\ Tail(todo[p]) \in Text
  BY Zenon, CharType
<1>5. ConsoleTypes'
  BY Zenon, <1>3, <1>4 DEF OutputInv, ConsoleTypes, Said, Moves
<1>6. wpc'[p] = "putch" /\ \A q \in Printer : q # p => wpc'[q] = wpc[q]
  BY Zenon, <1>3 DEF OutputInv, ConsoleTypes, Moves
<1>7. ConsolePort'
  <2>1. \A q \in Printer : ~Polls(q)
    BY Zenon, ConsoleAssumption DEF OutputInv, ConsoleTypes, ConsolePort, Polls, Printer
  <2> QED BY Zenon, <1>1, <1>2, <1>3, <1>4, <1>6, <2>1 DEF OutputInv, ConsolePort, Polls, InUse
<1>8. ConsoleRight'
  BY <1>1, <1>3, <1>6 DEF OutputInv, ConsoleRight
<1>9. OutputKept'
  BY Zenon, <1>1, <1>2, <1>3, WholeSends
<1> QED BY Zenon, <1>5, <1>7, <1>8, <1>9 DEF OutputInv

LEMMA ConsolePolled ==
    ASSUME OutputInv, NEW p \in Printer, lser_writepolled(p) PROVE OutputInv'
<1> USE DEF lser_writepolled, At
<1>1. \A q \in Printer : ~Polls(q)
  BY Zenon, ConsoleAssumption DEF OutputInv, ConsoleTypes, ConsolePort, Polls, Printer
<1>2. CASE ls_wbusy
  <2>1. Moves(p, "poll") /\ UNCHANGED <<wirq, sending, todo>>
    BY Zenon, <1>2
  <2>2. ConsoleTypes'
    BY Zenon, <2>1 DEF OutputInv, ConsoleTypes, Moves
  <2>3. wpc'[p] = "poll" /\ \A q \in Printer : q # p => wpc'[q] = wpc[q]
    BY Zenon, <2>1 DEF OutputInv, ConsoleTypes, Moves
  <2>4. ConsolePort'
    BY Zenon, <1>1, <1>2, <2>1, <2>3 DEF OutputInv, ConsolePort, Polls, InUse
  <2>5. ConsoleRight'
    BY Zenon, <2>3 DEF OutputInv, ConsoleRight
  <2>6. OutputKept'
    BY Zenon, <2>1 DEF OutputInv, OutputKept, InPort
  <2> QED BY Zenon, <2>2, <2>4, <2>5, <2>6 DEF OutputInv
<1>3. CASE ~ls_wbusy
  <2>1. wirq' = Off /\ sending' = Char(p) /\ Said(p) /\ Moves(p, "clear")
    BY Zenon, <1>3
  <2>2. sending = NULL
    BY Zenon, <1>3, PortFree
  <2>3. Char(p) \in [by : Printer, ch : Chars] /\ Char(p) # NULL /\ Tail(todo[p]) \in Text
    BY Zenon, CharType
  <2>4. Off \in Registers /\ ~Off.active
    BY Zenon DEF Off, Registers
  <2>5. ConsoleTypes'
    BY Zenon, <2>1, <2>3, <2>4 DEF OutputInv, ConsoleTypes, Said, Moves
  <2>6. wpc'[p] = "clear" /\ \A q \in Printer : q # p => wpc'[q] = wpc[q]
    BY Zenon, <2>1 DEF OutputInv, ConsoleTypes, Moves
  <2>7. ConsolePort'
    BY Zenon, <1>1, <1>3, <2>1, <2>3, <2>4, <2>6 DEF OutputInv, ConsolePort, Polls, InUse
  <2>8. ConsoleRight'
    BY Zenon, <2>6 DEF OutputInv, ConsoleRight
  <2>9. OutputKept'
    BY Zenon, <2>1, <2>2, WholeSends
  <2> QED BY Zenon, <2>5, <2>7, <2>8, <2>9 DEF OutputInv
<1> QED BY Zenon, <1>2, <1>3

LEMMA ConsolePollSend ==
    ASSUME OutputInv, NEW p \in Printer, PollSend(p) PROVE OutputInv'
<1> USE DEF PollSend, At
<1>1. ls_lock = p /\ ls_wbusy /\ the_console /\ sending = NULL
  BY Zenon DEF OutputInv, ConsolePort, Polls
<1>2. Char(p) \in [by : Printer, ch : Chars] /\ Char(p) # NULL /\ Tail(todo[p]) \in Text
  BY Zenon, CharType
<1>3. wirq' \in Registers /\ ~wirq'.active
  BY Zenon DEF On, Off, Registers
<1>4. ConsoleTypes'
  BY Zenon, <1>2, <1>3 DEF OutputInv, ConsoleTypes, Said, Moves
<1>5. wpc'[p] = "leave" /\ \A q \in Printer : q # p => wpc'[q] = wpc[q]
  BY Zenon DEF OutputInv, ConsoleTypes, Moves
<1>6. ConsolePort'
  BY Zenon, <1>1, <1>2, <1>3, <1>5 DEF OutputInv, ConsolePort, Polls, InUse
<1>7. ConsoleRight'
  BY Zenon, <1>5 DEF OutputInv, ConsoleRight
<1>8. OutputKept'
  BY Zenon, <1>1, WholeSends
<1> QED BY Zenon, <1>4, <1>6, <1>7, <1>8 DEF OutputInv

LEMMA ConsolePollEnd ==
    ASSUME OutputInv, NEW p \in Printer, PollEnd(p) PROVE OutputInv'
<1> USE DEF PollEnd
<1>1. ls_lock = p /\ the_console /\ sending = NULL
  BY Zenon DEF OutputInv, ConsolePort, Polls
<1>2. On \in Registers /\ ~On.active
  BY Zenon DEF On, Off, Registers
<1>3. ConsoleTypes'
  BY Zenon, <1>2 DEF OutputInv, ConsoleTypes, Moves
<1>4. wpc'[p] = "putch" /\ \A q \in Printer : q # p => wpc'[q] = wpc[q]
  BY Zenon DEF OutputInv, ConsoleTypes, Moves
<1>5. \A q \in Printer : q # p => ~Polls(q)
  BY Zenon, <1>1 DEF OutputInv, ConsolePort
<1>6. ConsolePort'
  <2>1. \A q \in Printer : ~Polls(q)' /\ ls_lock' # q
    BY Zenon, <1>4, <1>5, ConsoleAssumption DEF Polls, Printer
  <2>2. CASE wpc[p] = "clear"
    BY Zenon, <1>1, <1>2, <1>4, <1>5, <2>1, <2>2 DEF OutputInv, ConsolePort, Polls, InUse
  <2>3. CASE wpc[p] = "leave"
    BY Zenon, <1>1, <1>4, <1>5, <2>1, <2>3 DEF OutputInv, ConsolePort, Polls, InUse
  <2> QED BY Zenon, <2>2, <2>3
<1>7. ConsoleRight'
  BY Zenon, <1>4 DEF OutputInv, ConsoleRight
<1>8. OutputKept'
  BY Zenon DEF OutputInv, OutputKept, InPort
<1> QED BY Zenon, <1>3, <1>6, <1>7, <1>8 DEF OutputInv

LEMMA ConsoleType == ASSUME InputInv, Type PROVE InputInv'
<1> USE DEF Type
<1>1. RingTypes'
  BY DEF InputInv, RingTypes
<1>2. ConsoleRing'
  BY Zenon DEF InputInv, ConsoleRing, Behind, Place, Reading
<1>3. ConsoleOrder'
  BY DEF InputInv, ConsoleOrder, RingTypes
<1> QED BY Zenon, <1>1, <1>2, <1>3 DEF InputInv

(* The places of the ring are apart.                                       *)
LEMMA PlacesApart ==
    ASSUME RingTypes, NEW k \in 0..(RingSize - 1), NEW l \in 0..(RingSize - 1)
    PROVE  Place(k) \in 0..(RingSize - 1) /\ (Place(k) = Place(l) => k = l)
  BY ConsoleAssumption DEF RingTypes, Place

LEMMA ConsoleInput == ASSUME InputInv, con_input PROVE InputInv'
<1> USE DEF con_input
<1>0. RingSize \in Nat \ {0}
  BY Zenon, ConsoleAssumption
<1>1. CASE (head + 1) % RingSize = tail
  <2>1. UNCHANGED input /\ irq' = {}
    BY Zenon, <1>1 DEF input
  <2> QED BY Zenon, <2>1, InputSame
<1>2. CASE (head + 1) % RingSize # tail
  <2> DEFINE b == Behind
  <2>1. /\ gotchars' = [gotchars EXCEPT ![head] = ch] /\ head' = (head + 1) % RingSize
        /\ cs_rsem' = cs_rsem + 1 /\ accepted' = Append(accepted, ch)
    BY Zenon, <1>2
  <2>2. /\ Len(accepted') = Len(accepted) + 1 /\ accepted'[Len(accepted) + 1] = ch
        /\ \A n \in 1..Len(accepted) : accepted'[n] = accepted[n]
        /\ accepted' \in Seq(Nat)
    BY <2>1 DEF InputInv, RingTypes
  <2>3. b \in 0..Len(accepted) /\ b <= RingSize - 1 /\ head = Place(b) /\ Behind' = b + 1
    <3>1. Len(accepted) \in Nat /\ Len(taken) \in Nat
      BY DEF InputInv, RingTypes
    <3>2. Behind' = Behind + 1
      BY <2>2, <3>1 DEF Behind, Reading
    <3>3. Behind \in Nat
      BY <3>1 DEF InputInv, ConsoleRing, Behind
    <3> QED BY <3>1, <3>2, <3>3 DEF InputInv, ConsoleRing
  <2>4. head' = IF head + 1 < RingSize THEN head + 1 ELSE 0
    <3>1. head \in Nat /\ RingSize \in Nat /\ head < RingSize
      BY <1>0 DEF InputInv, RingTypes
    <3> QED BY Zenon, <2>1, <3>1, ModNext
  <2>5. b + 1 <= RingSize - 1 /\ head' = Place(b + 1)
    BY <1>0, <1>2, <2>1, <2>3, <2>4 DEF InputInv, RingTypes, Place
  <2>6. RingTypes'
    BY <1>0, <2>1, <2>2, <2>4 DEF InputInv, RingTypes
  <2>7. ASSUME NEW k \in 0..b
        PROVE  gotchars'[Place(k)] = accepted'[Len(accepted) - b + k + 1]
    <3>1. Place(k) \in 0..(RingSize - 1) /\ (Place(k) = head <=> k = b)
      BY <1>0, <2>3, PlacesApart DEF InputInv
    <3>2. CASE k = b
      BY <2>1, <2>2, <2>3, <3>1, <3>2 DEF InputInv, RingTypes
    <3>3. CASE k # b
      <4>1. k \in 0..(b - 1)
        BY <2>3, <3>3
      <4>2. gotchars'[Place(k)] = gotchars[Place(k)]
        BY Zenon, <2>1, <3>1, <3>3 DEF InputInv, RingTypes
      <4>3. gotchars[Place(k)] = accepted[Len(accepted) - b + k + 1]
        BY Zenon, <4>1 DEF InputInv, ConsoleRing
      <4>4. Len(accepted) - b + k + 1 \in 1..Len(accepted)
        <5> HIDE DEF b
        <5> QED BY <2>3, <4>1 DEF InputInv, RingTypes
      <4> QED BY Zenon, <2>2, <4>2, <4>3, <4>4
    <3> QED BY Zenon, <3>2, <3>3
  <2>8. ConsoleRing'
    <3>1. tail' = tail /\ taken' = taken /\ rpc' = rpc /\ rloc' = rloc
      BY Zenon
    <3>2. Len(accepted') - Behind' = Len(accepted) - b
      BY <2>2, <2>3 DEF InputInv, RingTypes
    <3>3. \A k \in 0..(Behind' - 1) :
             gotchars'[Place(k)'] = accepted'[Len(accepted') - Behind' + k + 1]
      BY <2>2, <2>3, <2>7, <3>1, <3>2 DEF Place
    <3>4. Len(taken) <= Len(accepted') /\ cs_rsem' = Len(accepted') - Len(taken)
      BY <2>1, <2>2 DEF InputInv, RingTypes, ConsoleRing
    <3>5. \A k \in 1..Len(taken) : taken[k] = accepted'[k]
      BY <2>2 DEF InputInv, RingTypes, ConsoleRing
    <3>6. (Behind <= Len(accepted) /\ Behind <= RingSize - 1 /\ head = Place(Behind))'
      BY <2>2, <2>3, <2>5, <3>1 DEF Place
    <3>7. \A r \in Reader : rpc'[r] = "got" => rloc'[r] = Place(1)'
      BY Zenon, <3>1 DEF InputInv, ConsoleRing, Place
    <3> QED BY Zenon, <3>1, <3>3, <3>4, <3>5, <3>6, <3>7 DEF ConsoleRing
  <2>9. ConsoleOrder'
    <3>1. ch \in Nat /\ ch <= typed /\ typed' = typed /\ rirq' = rirq /\ irq' = {}
      BY DEF InputInv, RingTypes
    <3>2. \A n \in 1..Len(accepted) : accepted[n] < ch /\ accepted[n] \in Nat
      BY DEF InputInv, ConsoleOrder, RingTypes
    <3>3. \A n \in 1..Len(accepted') : accepted'[n] = ch \/ n \in 1..Len(accepted)
      BY <2>2 DEF InputInv, RingTypes
    <3>4. ASSUME NEW m \in 1..Len(accepted'), NEW n \in 1..Len(accepted'), m < n
          PROVE  accepted'[m] < accepted'[n]
      <4>1. m \in 1..Len(accepted)
        BY <2>2, <3>4 DEF InputInv, RingTypes
      <4>2. CASE n \in 1..Len(accepted)
        BY Zenon, <2>2, <3>4, <4>1, <4>2 DEF InputInv, ConsoleOrder
      <4>3. CASE n = Len(accepted) + 1
        BY Zenon, <2>2, <3>2, <4>1, <4>3
      <4> QED BY <2>2, <4>2, <4>3 DEF InputInv, RingTypes
    <3>5. \A n \in 1..Len(accepted') : accepted'[n] <= typed /\ (rirq # 0 => accepted'[n] < rirq)
      BY Zenon, <2>2, <3>1, <3>2, <3>3 DEF InputInv, ConsoleOrder, RingTypes
    <3> QED BY Zenon, <3>1, <3>4, <3>5 DEF ConsoleOrder
  <2> QED BY Zenon, <2>6, <2>8, <2>9 DEF InputInv
<1> QED BY Zenon, <1>1, <1>2

LEMMA ConsoleGetch ==
    ASSUME OneReader, InputInv, NEW r \in Reader, getch_intr(r) PROVE InputInv'
<1> USE DEF getch_intr
<1>1. \A s \in Reader : s = r
  BY Zenon DEF OneReader
<1>2. ~Reading /\ Reading'
  BY Zenon, <1>1 DEF Reading, InputInv, RingTypes
<1>3. Len(accepted) \in Nat /\ Len(taken) \in Nat /\ tail \in 0..(RingSize - 1) /\ RingSize \in Nat \ {0}
  BY ConsoleAssumption DEF InputInv, RingTypes
<1>4. Behind = Len(accepted) - Len(taken) /\ Behind >= 1
  BY <1>2, <1>3 DEF InputInv, ConsoleRing, Behind
<1>5. gotchars[tail] = accepted[Len(taken) + 1]
  <2>1. Place(0) = tail
    BY <1>3 DEF Place
  <2>2. 0 \in 0..(Behind - 1)
    BY <1>3, <1>4
  <2>3. gotchars[Place(0)] = accepted[Len(accepted) - Behind + 0 + 1]
    BY Zenon, <2>2 DEF InputInv, ConsoleRing
  <2> QED BY <1>3, <1>4, <2>1, <2>3
<1>6. /\ Len(taken') = Len(taken) + 1 /\ taken'[Len(taken) + 1] = gotchars[tail]
      /\ \A k \in 1..Len(taken) : taken'[k] = taken[k]
      /\ taken' \in Seq(Nat)
  BY <1>3 DEF InputInv, RingTypes
<1>7. (tail + 1) % RingSize = Place(1) /\ Place(1) \in 0..(RingSize - 1)
  <2>1. tail \in Nat /\ RingSize \in Nat /\ tail < RingSize
    BY <1>3
  <2>2. (tail + 1) % RingSize = IF tail + 1 < RingSize THEN tail + 1 ELSE 0
    BY Zenon, <2>1, ModNext
  <2> QED BY <2>1, <2>2 DEF Place
<1>8. RingTypes'
  BY Zenon, <1>6, <1>7 DEF InputInv, RingTypes
<1>9. ConsoleRing'
  <2>1. Behind' = Behind
    BY <1>2, <1>3, <1>4, <1>6 DEF Behind
  <2>2. \A k \in 1..Len(taken') : taken'[k] = accepted[k]
    BY <1>3, <1>5, <1>6 DEF InputInv, ConsoleRing
  <2>3. Len(taken') <= Len(accepted) /\ cs_rsem' = Len(accepted) - Len(taken')
    BY <1>3, <1>4, <1>6 DEF InputInv, ConsoleRing
  <2>4. (head = Place(Behind))' /\ \A k \in 0..(Behind - 1) : gotchars'[Place(k)'] = gotchars[Place(k)]
    BY Zenon, <2>1 DEF InputInv, ConsoleRing, Place
  <2>5. \A s \in Reader : rloc'[s] = Place(1)'
    BY Zenon, <1>1, <1>7 DEF InputInv, RingTypes, Place
  <2> QED BY Zenon, <2>1, <2>2, <2>3, <2>4, <2>5 DEF InputInv, ConsoleRing
<1>10. ConsoleOrder'
  BY Zenon DEF InputInv, ConsoleOrder
<1> QED BY Zenon, <1>8, <1>9, <1>10 DEF InputInv

LEMMA ConsoleTaken ==
    ASSUME OneReader, InputInv, NEW r \in Reader, Taken(r) PROVE InputInv'
<1> USE DEF Taken
<1>1. \A s \in Reader : s = r
  BY Zenon DEF OneReader
<1>2. Reading /\ ~Reading'
  BY Zenon, <1>1 DEF Reading, InputInv, RingTypes
<1>3. /\ Len(accepted) \in Nat /\ Len(taken) \in Nat /\ tail \in 0..(RingSize - 1)
      /\ RingSize \in Nat \ {0}
  BY ConsoleAssumption DEF InputInv, RingTypes
<1>4. Behind \in Nat /\ Behind >= 1 /\ Behind <= RingSize - 1 /\ Behind' = Behind - 1
  BY <1>2, <1>3 DEF InputInv, ConsoleRing, Behind
<1>5. tail' = Place(1) /\ tail' \in 0..(RingSize - 1)
  BY Zenon, <1>3 DEF InputInv, ConsoleRing, RingTypes, Place
<1>6. \A k \in 0..(RingSize - 2) : Place(k)' = Place(k + 1)
  BY <1>3, <1>5 DEF Place
<1>7. RingTypes'
  BY Zenon, <1>5 DEF InputInv, RingTypes
<1>8. ConsoleRing'
  <2>1. head' = Place(Behind)'
    <3>1. Behind - 1 \in 0..(RingSize - 2)
      BY <1>3, <1>4
    <3>2. Place(Behind - 1 + 1) = head
      BY <1>4 DEF InputInv, ConsoleRing
    <3> HIDE DEF Behind
    <3> QED BY <1>3, <1>4, <1>5, <3>1, <3>2 DEF Place
  <2>2. ASSUME NEW k \in 0..(Behind' - 1)
        PROVE  gotchars'[Place(k)'] = accepted'[Len(accepted') - Behind' + k + 1]
    <3>1. k + 1 \in 0..(Behind - 1) /\ k \in 0..(RingSize - 2)
      BY <1>3, <1>4
    <3>2. gotchars[Place(k + 1)] = accepted[Len(accepted) - Behind + (k + 1) + 1]
      BY Zenon, <3>1 DEF InputInv, ConsoleRing
    <3>3. Len(accepted) - Behind + (k + 1) + 1 = Len(accepted) - Behind' + k + 1
      BY <1>3, <1>4
    <3> QED BY Zenon, <1>6, <3>1, <3>2, <3>3
  <2>3. \A s \in Reader : rpc'[s] # "got"
    BY Zenon, <1>2 DEF Reading
  <2>4. Behind' <= RingSize - 1 /\ Behind' <= Len(accepted')
    BY <1>3, <1>4 DEF InputInv, ConsoleRing
  <2> QED BY Zenon, <2>1, <2>2, <2>3, <2>4 DEF InputInv, ConsoleRing
<1>9. ConsoleOrder'
  BY Zenon DEF InputInv, ConsoleOrder
<1> QED BY Zenon, <1>7, <1>8, <1>9 DEF InputInv

(* What con_io makes of a line is a text.                                  *)
LEMMA SaysIsText == ASSUME CountingDevices, NEW p PROVE Says(p) \in Text
<1> DEFINE Where(k) == k + Cardinality({l \in 1..k : Line[l] = "nl"})
<1>1. \A k \in Nat : Where(k) \in Nat
  <2>1. ASSUME NEW k \in Nat PROVE Where(k) \in Nat
    <3>1. {l \in 1..k : Line[l] = "nl"} \in SUBSET (1..k)
      BY Zenon
    <3>2. Cardinality({l \in 1..k : Line[l] = "nl"}) \in Nat
      <4>1. IsFiniteSet(1..k)
        BY Zenon DEF CountingDevices
      <4>2. ASSUME NEW S, IsFiniteSet(S), NEW T \in SUBSET S PROVE Cardinality(T) \in Nat
        BY <4>2, Zenon DEF CountingDevices
      <4> QED BY Zenon, <3>1, <4>1, <4>2
    <3> QED BY <3>2
  <2> QED BY Zenon, <2>1
<1>2. Len(Line) \in Nat /\ \A k \in 1..Len(Line) : Line[k] \in Chars
  BY ConsoleAssumption
<1>3. con_io(Line) = [n \in 1..Where(Len(Line)) |->
                         IF \E k \in 1..Len(Line) : Where(k) = n
                         THEN Line[CHOOSE k \in 1..Len(Line) : Where(k) = n]
                         ELSE "cr"]
  BY Zenon DEF con_io
<1> HIDE DEF Where
<1>4. ASSUME NEW n
      PROVE  (IF \E k \in 1..Len(Line) : Where(k) = n
              THEN Line[CHOOSE k \in 1..Len(Line) : Where(k) = n] ELSE "cr") \in Chars
  BY Zenon, <1>2 DEF Chars
<1>5. con_io(Line) \in [1..Where(Len(Line)) -> Chars]
  BY Zenon, <1>3, <1>4
<1>6. con_io(Line) \in Text
  <2>1. ASSUME NEW n \in Nat PROVE [1..n -> Chars] \subseteq Seq(Chars)
    OBVIOUS
  <2> QED BY Zenon, <1>1, <1>2, <1>5, <2>1 DEF Text
<1> QED BY Zenon, <1>6, ConsoleAssumption DEF Says, Text

LEMMA ConsoleInit == ASSUME CountingDevices, InitConsole PROVE OutputInv /\ InputInv
<1> USE DEF InitConsole
<1>1. On \in Registers /\ ~On.active
  BY Zenon DEF On, Off, Registers
<1>2. << >> \in Text /\ Len(<< >>) = 0 /\ \A p \in Printer : Says(p) \in Text
  BY Zenon, TextIs, SaysIsText
<1>3. ConsoleTypes
  <2>1. Len(delayed) <= Early /\ delayed \in Text
    BY <1>2, ConsoleAssumption
  <2>2. todo \in [Printer -> Text] /\ out \in [Printer -> Text]
    BY Zenon, <1>2
  <2>3. wpc \in [Printer -> {"putch", "send", "poll", "clear", "leave"}]
    BY Zenon
  <2>4. the_console \in BOOLEAN /\ ls_wbusy \in BOOLEAN /\ irq \subseteq {"start", "input"}
    BY Zenon
  <2>5. cs_wsem \in 0..1 /\ ls_lock \in Polled \cup {"none"} /\ panicked = "no"
    BY SMT
  <2>6. wirq \in Registers /\ sending \in {NULL} \cup [by : Printer, ch : Chars]
    BY Zenon, <1>1
  <2> QED BY <2>1, <2>2, <2>3, <2>4, <2>5, <2>6, Zenon DEF ConsoleTypes
<1>4. ConsolePort
  BY Zenon, <1>1, ConsoleAssumption DEF ConsolePort, Polls, InUse, Printer
<1>5. ConsoleRight
  BY Zenon DEF ConsoleRight
<1>6. OutputKept
  <2>1. ASSUME NEW p \in Printer
        PROVE  out[p] \o InPort(p) \o (IF p = Boot THEN delayed ELSE << >>) \o todo[p] = Says(p)
    <3>1. out[p] = << >> /\ InPort(p) = << >> /\ delayed = << >> /\ todo[p] = Says(p)
      BY Zenon DEF InPort
    <3> QED BY Zenon, <1>2, <3>1, TextEmpty
  <2> QED BY Zenon, <2>1 DEF OutputKept
<1>7. RingTypes
  BY ConsoleAssumption DEF RingTypes
<1>8. ConsoleRing
  BY ConsoleAssumption DEF ConsoleRing, Behind, Place, Reading
<1>9. ConsoleOrder
  BY DEF ConsoleOrder
<1> QED BY Zenon, <1>3, <1>4, <1>5, <1>6, <1>7, <1>8, <1>9 DEF OutputInv, InputInv

LEMMA ConsoleStutter == ASSUME ConsoleInv, UNCHANGED varsConsole PROVE ConsoleInv'
<1>1. OutputInv'
  BY Zenon, OutputSame DEF ConsoleInv, OutputInv, varsConsole, ConsoleTypes
<1>2. InputInv => InputInv'
  BY Zenon, InputSame DEF varsConsole
<1> QED BY <1>1, <1>2, Zenon DEF ConsoleInv, OneReader

LEMMA OutputNext == ASSUME OutputInv, NextConsole PROVE OutputInv'
<1>0. irq \subseteq {"start", "input"}
  BY Zenon DEF OutputInv, ConsoleTypes
<1>1. CASE PortSends \/ con_start \/ putch_delayed \/ config_con
  BY Zenon, <1>1, ConsolePortSends, ConsoleStart, ConsoleDelayed, ConsoleConfig
<1>2. CASE lser_irq
  BY Zenon, <1>2, OutputIrq
<1>3. CASE Type
  BY Zenon, <1>0, <1>3, OutputSame DEF Type
<1>4. CASE con_input
  BY Zenon, <1>0, <1>4, OutputSame DEF con_input
<1>5. CASE StoppedConsole
  BY Zenon, <1>0, <1>5, OutputSame DEF StoppedConsole, varsConsole
<1>6. ASSUME NEW p \in Printer, Prints(p) PROVE OutputInv'
  <2>1. CASE lser_poll_until_write(p)
    BY Zenon, <1>0, <2>1, OutputSame DEF lser_poll_until_write, varsConsole
  <2> QED BY Zenon, <1>6, <2>1, ConsolePutch, ConsoleWrite, ConsolePolled, ConsolePollSend, ConsolePollEnd
         DEF Prints
<1>7. ASSUME NEW r \in Reader, getch_intr(r) \/ Taken(r) PROVE OutputInv'
  BY Zenon, <1>0, <1>7, OutputSame DEF getch_intr, Taken
<1> QED BY Zenon, <1>1, <1>2, <1>3, <1>4, <1>5, <1>6, <1>7 DEF NextConsole, Interrupt

LEMMA InputNext == ASSUME OneReader, InputInv, NextConsole PROVE InputInv'
<1>1. CASE PortSends \/ putch_delayed \/ config_con
  BY Zenon, <1>1, InputSame DEF PortSends, putch_delayed, config_con
<1>2. CASE con_start
  BY Zenon, <1>2, InputSame DEF con_start
<1>3. CASE Type \/ lser_irq \/ con_input
  BY Zenon, <1>3, ConsoleType, InputIrq, ConsoleInput
<1>4. CASE StoppedConsole
  BY Zenon, <1>4, InputSame DEF StoppedConsole, varsConsole
<1>5. ASSUME NEW p \in Printer, Prints(p) PROVE InputInv'
  <2>1. UNCHANGED input /\ irq' = irq
    BY Zenon, <1>5 DEF Prints, putch_intr, lser_write, lser_writepolled, lser_poll_until_write, PollSend,
                PollEnd, varsConsole
  <2> QED BY Zenon, <2>1, InputSame
<1>6. ASSUME NEW r \in Reader, getch_intr(r) \/ Taken(r) PROVE InputInv'
  BY Zenon, <1>6, ConsoleGetch, ConsoleTaken
<1> QED BY Zenon, <1>1, <1>2, <1>3, <1>4, <1>5, <1>6 DEF NextConsole, Interrupt

LEMMA ConsoleNext == ASSUME ConsoleInv, NextConsole PROVE ConsoleInv'
<1>1. OutputInv'
  BY Zenon, OutputNext DEF ConsoleInv
<1>2. OneReader => InputInv'
  BY Zenon, InputNext DEF ConsoleInv
<1> QED BY <1>1, <1>2, Zenon DEF ConsoleInv, OneReader

LEMMA ConsoleSafe ==
    ASSUME OutputInv, InputInv PROVE TypeConsole /\ NoConsolePanic /\ OutputKept /\ InputInOrder
<1> USE DEF OutputInv, InputInv
<1>0. Len(accepted) \in Nat /\ Len(taken) \in Nat /\ RingSize \in Nat \ {0}
  BY ConsoleAssumption DEF RingTypes
<1>1. cs_rsem \in 0..(RingSize - 1)
  BY <1>0 DEF ConsoleRing, Behind
<1>2. TypeConsole
  <2>1. Len(delayed) <= DelaySize
    BY ConsoleAssumption, TextIs DEF ConsoleTypes, Text
  <2> QED BY Zenon, <1>1, <2>1 DEF TypeConsole, ConsoleTypes, RingTypes
<1>3. taken = SubSeq(accepted, 1, Len(taken))
  BY DEF RingTypes, ConsoleRing
<1>4. ASSUME \A r \in Reader : rpc[r] = "getch" PROVE (head - tail) % RingSize = cs_rsem
  <2>1. ~Reading
    BY Zenon, <1>4 DEF Reading
  <2>2. head = Place(cs_rsem)
    BY <1>0, <2>1 DEF ConsoleRing, Behind
  <2>3. tail \in 0..(RingSize - 1)
    BY Zenon DEF RingTypes
  <2>4. CASE tail + cs_rsem < RingSize
    <3>1. head - tail = cs_rsem
      BY <1>0, <1>1, <2>2, <2>3, <2>4 DEF Place
    <3> QED BY <1>0, <1>1, <3>1, ModSmall
  <2>5. CASE tail + cs_rsem >= RingSize
    <3>1. head - tail = cs_rsem - RingSize
      BY <1>0, <1>1, <2>2, <2>3, <2>5 DEF Place
    <3>2. head - tail \in Int /\ head - tail < 0 /\ head - tail + RingSize = cs_rsem
      BY <1>0, <1>1, <3>1
    <3> QED BY <1>0, <1>1, <3>2, ModBelow
  <2> QED BY <1>0, <1>1, <2>3, <2>4, <2>5
<1>5. InputInOrder
  BY Zenon, <1>3, <1>4 DEF InputInOrder, ConsoleRing, ConsoleOrder
<1> QED BY Zenon, <1>2, <1>5 DEF NoConsolePanic, ConsoleTypes
-----------------------------------------------------------------------------
(* The bus.  What a step leaves alone.                                     *)
LEMMA SlotsSame ==
    ASSUME BusTypes, BusSlots, UNCHANGED <<hw, boot, slotsinuse, irqfuncs, devdata>>,
           failed' \in Nat, failed' >= failed
    PROVE  BusSlots'
<1>1. failed' = 0 => failed = 0
  BY DEF BusTypes
<1> QED BY Zenon, <1>1 DEF BusSlots, HasDriver, Attaching

LEMMA ClockSame ==
    ASSUME BusClock, UNCHANGED <<hw, boot, slotsinuse, service>> PROVE BusClock'
  BY Zenon DEF BusClock

LEMMA LinesSame ==
    ASSUME BusLines, UNCHANGED <<hw, irqfuncs, enabled, line, scan>> PROVE BusLines'
  BY Zenon DEF BusLines

LEMMA DudsSame ==
    ASSUME BusTypes, BusDuds, UNCHANGED <<hw, irqfuncs, line, scan, duds>>,
           failed' \in Nat, failed' >= failed, bus_panic' = None => bus_panic = None
    PROVE  BusDuds'
<1>1. duds <= failed => duds <= failed'
  BY DEF BusTypes
<1> QED BY Zenon, <1>1 DEF BusDuds, Unseen

LEMMA CpusSame ==
    ASSUME BusCpus, UNCHANGED <<hw, allcpus, cram, hatched, sem>>,
           boot'.at = boot.at
              \/ {boot.at, boot'.at} \subseteq {"init", "cpus"}
              \/ {boot.at, boot'.at} \subseteq {"probe", "mark", "attach", "config"}
    PROVE  BusCpus'
<1>1. /\ boot'.at \in {"init", "cpus"} <=> boot.at \in {"init", "cpus"}
      /\ boot'.at \in {"wait", "done"} <=> boot.at \in {"wait", "done"}
      /\ boot'.at = "done" <=> boot.at = "done"
  BY Zenon
<1>2. Others' = Others /\ \A c : Rank(c)' = Rank(c)
  BY Zenon DEF Others, Rank
<1>3. /\ allcpus' = IF boot'.at \in {"init", "cpus"} \/ hw'.uni THEN <<0>>
                    ELSE <<hw'.self>> \o Ascending(Others)
      /\ sem' = IF boot'.at = "done" THEN 0 ELSE Cardinality(hatched')
      /\ boot'.at = "done" /\ ~hw'.uni => hatched' = Others
      /\ hatched' \subseteq hw'.cpus /\ \A c \in hatched' : cram'[c] # 0
  BY Zenon, <1>1 DEF BusCpus
<1>4. cram' = [c \in hw'.cpus |-> IF boot'.at \notin {"wait", "done"} \/ hw'.uni \/ c = hw'.self
                                  THEN 0 ELSE Rank(c)]
  BY Zenon, <1>1 DEF BusCpus
<1> QED BY Zenon, <1>2, <1>3, <1>4 DEF BusCpus

LEMMA BusTimeSame == ASSUME TimeIsNow, UNCHANGED <<span, ts>> PROVE TimeIsNow'
  BY Zenon DEF TimeIsNow

(* The steps that leave the panic and the clock as they are.               *)
BusRest == BusSlots /\ BusClock /\ BusLines /\ BusDuds /\ BusCpus
LEMMA BusParts ==
    ASSUME BusInv, BusTypes', BusRest', bus_panic = None, UNCHANGED <<bus_panic, span, ts>>
    PROVE  BusInv'
<1>1. NoBusPanic'
  BY Zenon DEF NoBusPanic
<1>2. TimeIsNow'
  BY Zenon, BusTimeSame DEF BusInv
<1> QED BY Zenon, <1>1, <1>2 DEF BusInv, BusRest

LEMMA ControllerPlain ==
    ASSUME BusTypes
    PROVE  Controller \in Slot /\ ~HasDriver(Controller) /\ hw.dev[Controller] # "ltimer"
  BY BusAssumption DEF BusTypes, Controller, Slot, HasDriver

LEMMA BusInit == ASSUME CountingDevices, InitBus PROVE BusInv
<1> USE DEF InitBus
<1>1. 0 \in Slot /\ NSlots \in Nat /\ hw.early \subseteq Slot
  BY BusAssumption DEF Slot
<1>2. BusTypes
  <2>1. boot \in [at : Stages, drv : Nat \ {0}, slot : Slot]
    BY <1>1 DEF Stages
  <2>2. scan \in [on : BOOLEAN, slot : 0..NSlots, irqs : SUBSET Slot, duds : 0..NSlots]
    BY <1>1 DEF Idle
  <2>3. irqfuncs \in [Slot -> Interrupting \cup {None}] /\ devdata \in [Slot -> 0..NSlots]
    BY <1>1
  <2>4. service \in [Services -> 0..NSlots]
    BY <1>1 DEF Services
  <2> QED BY Zenon, <1>1, <2>1, <2>2, <2>3, <2>4 DEF BusTypes
<1>3. BusSlots
  BY <1>1, BusAssumption DEF BusSlots
<1>4. BusClock /\ BusLines
  BY Zenon DEF BusClock, BusLines, Idle
<1>5. BusDuds
  BY <1>1, BusAssumption DEF BusDuds, Idle
<1>6. BusCpus
  BY Zenon DEF BusCpus, CountingDevices
<1>7. NoBusPanic /\ TimeIsNow
  BY DEF NoBusPanic, TimeIsNow
<1> QED BY Zenon, <1>2, <1>3, <1>4, <1>5, <1>6, <1>7 DEF BusInv

LEMMA BusAttachInit == ASSUME BusInv, lamebus_init PROVE BusInv'
<1> USE DEF lamebus_init, Boots, BootTo, cpus, clock
<1>0. Controller \in Slot /\ hw.dev[Controller] # "ltimer"
  BY Zenon, ControllerPlain DEF BusInv
<1>1. \A s \in Slot : irqfuncs[s] = None
  BY Zenon DEF BusInv, BusSlots
<1>2. enabled = {}
  BY Zenon, <1>1 DEF BusInv, BusTypes, BusLines
<1>3. boot'.at = "cpus" /\ boot'.drv = boot.drv /\ boot' \in [at : Stages, drv : Nat \ {0}, slot : Slot]
  BY Zenon DEF BusInv, BusTypes, Stages
<1>4. BusTypes'
  <2>1. irqfuncs' \in [Slot -> Interrupting \cup {None}] /\ devdata' \in [Slot -> 0..NSlots]
    BY BusAssumption
  <2> QED BY Zenon, <1>0, <1>3, <2>1 DEF BusInv, BusTypes
<1>5. BusSlots'
  <2>1. \A s \in Slot : irqfuncs'[s] = None /\ devdata'[s] = NSlots
    BY Zenon
  <2>2. failed' = 0 => \A n \in DOMAIN Drivers, s \in Slot :
                         n < boot'.drv /\ hw'.dev[s] = Drivers[n] => s \in slotsinuse'
    BY Zenon, <1>3 DEF BusInv, BusSlots
  <2> QED BY Zenon, <1>3, <2>1, <2>2 DEF BusSlots
<1>6. BusClock'
  BY Zenon, <1>0 DEF BusClock
<1>7. BusLines'
  BY Zenon, <1>2 DEF BusInv, BusLines
<1>8. BusDuds'
  BY DEF BusInv, BusTypes, BusDuds
<1>9. BusCpus'
  BY Zenon, <1>3, CpusSame DEF BusInv
<1> QED BY Zenon, <1>4, <1>5, <1>6, <1>7, <1>8, <1>9, BusParts DEF BusRest

LEMMA BusFindCpus == ASSUME BusInv, lamebus_find_cpus PROVE BusInv'
<1> USE DEF lamebus_find_cpus, Boots, BootTo, bus, clock
<1>1. /\ boot'.at = "probe" /\ boot'.drv = boot.drv /\ boot'.slot = boot.slot
      /\ boot' \in [at : Stages, drv : Nat \ {0}, slot : Slot]
  BY Zenon DEF BusInv, BusTypes, Stages
<1>2. BusTypes'
  BY Zenon, <1>1 DEF BusInv, BusTypes
<1>3. BusSlots'
  BY Zenon, <1>1 DEF BusInv, BusSlots, HasDriver, Attaching
<1>4. BusClock'
  BY Zenon, <1>1 DEF BusInv, BusClock
<1>5. BusLines'
  BY Zenon, LinesSame DEF BusInv
<1>6. BusDuds'
  BY DudsSame DEF BusInv, BusTypes
<1>7. BusCpus'
  BY Zenon, <1>1 DEF BusInv, BusCpus, Others, Rank
<1> QED BY Zenon, <1>2, <1>3, <1>4, <1>5, <1>6, <1>7, BusParts DEF BusRest

LEMMA BusProbe == ASSUME CountingDevices, BusInv, lamebus_probe PROVE BusInv'
<1> USE DEF lamebus_probe, Boots, bus, cpus, clock
<1>1. boot.drv \in DOMAIN Drivers /\ boot.drv \in Nat \ {0}
  BY BusAssumption DEF BusInv, BusTypes
<1>2. /\ boot'.at \in {"probe", "mark"} /\ boot' \in [at : Stages, drv : Nat \ {0}, slot : Slot]
      /\ boot'.at = "mark" => boot'.drv = boot.drv /\ Fits(boot'.slot)
      /\ boot'.at = "probe" => boot'.drv = boot.drv + 1 /\ \A s \in Slot : ~Fits(s)
  <2>1. CASE \E s \in Slot : Fits(s)
    <3> DEFINE F == {s \in Slot : Fits(s)}
    <3>1. F \in SUBSET Nat /\ F # {}
      BY <2>1, BusAssumption DEF Slot
    <3>2. \E s \in F : \A r \in F : s <= r
      <4> HIDE DEF F
      <4> QED BY <3>1, Zenon DEF CountingDevices
    <3>3. FirstFit \in Slot /\ Fits(FirstFit)
      BY Zenon, <3>2 DEF FirstFit
    <3>4. boot' = [boot EXCEPT !.at = "mark", !.slot = FirstFit]
      BY Zenon, <2>1
    <3> HIDE DEF F
    <3> QED BY Zenon, <3>3, <3>4 DEF BusInv, BusTypes, Stages
  <2>2. CASE ~\E s \in Slot : Fits(s)
    <3>1. boot' = [boot EXCEPT !.drv = @ + 1, !.at = "probe"]
      BY Zenon, <2>2 DEF NextDriver
    <3>2. boot.drv + 1 \in Nat \ {0}
      BY <1>1
    <3> QED BY Zenon, <2>2, <3>1, <3>2 DEF BusInv, BusTypes, Stages
  <2> QED BY Zenon, <2>1, <2>2
<1>3. BusTypes'
  BY Zenon, <1>2 DEF BusInv, BusTypes
<1>4. BusSlots'
  <2>1. \A s \in Slot : ~Attaching(s) /\ ~Attaching(s)' /\ (HasDriver(s)' <=> HasDriver(s))
    BY Zenon, <1>2 DEF Attaching, HasDriver
  <2>2. failed' = 0 => \A n \in DOMAIN Drivers, s \in Slot :
                         n < boot'.drv /\ hw'.dev[s] = Drivers[n] => s \in slotsinuse'
    <3>1. CASE boot'.at = "mark"
      BY Zenon, <1>2, <3>1 DEF BusInv, BusSlots
    <3>2. CASE boot'.at = "probe"
      <4>1. \A n \in DOMAIN Drivers : n < boot'.drv => n < boot.drv \/ n = boot.drv
        BY <1>1, <1>2, <3>2, BusAssumption
      <4> QED BY Zenon, <1>2, <3>2, <4>1 DEF BusInv, BusSlots, Fits
    <3> QED BY Zenon, <1>2, <3>1, <3>2
  <2> QED BY Zenon, <1>1, <1>2, <2>1, <2>2 DEF BusInv, BusSlots, Fits
<1>5. BusClock'
  BY Zenon, <1>2 DEF BusInv, BusClock
<1>6. BusLines'
  BY Zenon, LinesSame DEF BusInv
<1>7. BusDuds'
  BY DudsSame DEF BusInv, BusTypes
<1>8. BusCpus'
  BY Zenon, <1>2, CpusSame DEF BusInv
<1> QED BY Zenon, <1>3, <1>4, <1>5, <1>6, <1>7, <1>8, BusParts DEF BusRest

LEMMA BusNomem == ASSUME BusInv, attach_nomem PROVE BusInv'
<1> USE DEF attach_nomem, Boots, NextDriver, bus, cpus, clock
<1>1. boot.drv \in Nat \ {0} /\ boot.drv + 1 \in Nat \ {0} /\ failed \in Nat /\ failed' > 0
  BY DEF BusInv, BusTypes
<1>2. /\ boot'.at = "probe" /\ boot' \in [at : Stages, drv : Nat \ {0}, slot : Slot]
      /\ boot'.slot = boot.slot
  BY Zenon, <1>1 DEF BusInv, BusTypes, Stages
<1>3. BusTypes'
  BY <1>1, <1>2 DEF BusInv, BusTypes
<1>4. BusSlots'
  BY <1>1, <1>2 DEF BusInv, BusSlots, HasDriver, Attaching
<1>5. BusClock'
  BY Zenon, <1>2 DEF BusInv, BusClock
<1>6. BusLines'
  BY Zenon, LinesSame DEF BusInv
<1>7. BusDuds'
  BY <1>1, DudsSame DEF BusInv
<1>8. BusCpus'
  BY Zenon, <1>2, CpusSame DEF BusInv
<1> QED BY Zenon, <1>3, <1>4, <1>5, <1>6, <1>7, <1>8, BusParts DEF BusRest

LEMMA BusMark == ASSUME BusInv, lamebus_mark PROVE BusInv'
<1> USE DEF lamebus_mark, Boots, cpus, clock
<1>s. PICK s0 \in Slot : s0 = boot.slot
  BY Zenon DEF BusInv, BusTypes
<1> USE <1>s
<1>1. /\ s0 \in Slot /\ s0 \notin slotsinuse /\ HasDriver(s0) /\ s0 # Controller
      /\ boot.drv \in DOMAIN Drivers /\ hw.dev[s0] = Drivers[boot.drv]
  BY Zenon DEF BusInv, BusTypes, BusSlots, HasDriver
<1>2. /\ slotsinuse' = slotsinuse \cup {s0} /\ bus_panic' = bus_panic
      /\ BootTo(IF hw.dev[s0] \in Interrupting THEN "attach" ELSE "config")
  BY Zenon, <1>1
<1>3. /\ boot'.at \in {"attach", "config"} /\ boot' \in [at : Stages, drv : Nat \ {0}, slot : Slot]
      /\ boot'.slot = s0 /\ boot'.drv = boot.drv
      /\ (boot'.at = "attach") <=> (hw.dev[s0] \in Interrupting)
  BY Zenon, <1>2 DEF BootTo, BusInv, BusTypes, Stages
<1>4. BusTypes'
  BY Zenon, <1>1, <1>2, <1>3 DEF BusInv, BusTypes
<1>5. BusSlots'
  <2>1. ASSUME NEW s \in Slot, s # s0
        PROVE  /\ Attaching(s)' <=> Attaching(s) 
               /\ HasDriver(s)' <=> HasDriver(s)
               /\ s \in slotsinuse' <=> s \in slotsinuse
    BY Zenon, <1>2, <1>3, <2>1 DEF Attaching, HasDriver
  <2>2. irqfuncs[s0] = None /\ devdata[s0] = NSlots /\ HasDriver(s0)' /\ s0 \in slotsinuse'
    <3>1. irqfuncs[s0] = None /\ devdata[s0] = NSlots
      BY Zenon, <1>1 DEF BusInv, BusSlots
    <3> QED BY Zenon, <1>1, <1>2, <3>1 DEF HasDriver
  <2>3. hw'.dev[s0] \in Interrupting => Attaching(s0)'
    BY Zenon, <1>3 DEF Attaching
  <2>4. ASSUME NEW s \in Slot
        PROVE (\/ s \notin slotsinuse /\ irqfuncs[s] = None /\ devdata[s] = NSlots
               \/ s = Controller /\ irqfuncs[s] = None
               \/ /\ s \in slotsinuse /\ HasDriver(s)
                  /\ IF hw.dev[s] \in Interrupting /\ ~Attaching(s)
                     THEN irqfuncs[s] = hw.dev[s] /\ devdata[s] = s
                     ELSE irqfuncs[s] = None /\ devdata[s] = NSlots)'
    <3>1. CASE s = s0
      BY <2>2, <2>3, <3>1, Zenon
    <3>2. CASE s # s0
      BY Zenon, <2>1, <3>2 DEF BusInv, BusSlots
    <3> QED BY Zenon, <3>1, <3>2
  <2> QED BY Zenon, <1>1, <1>2, <1>3, <2>4 DEF BusInv, BusSlots
<1>6. BusClock'
  BY Zenon, <1>2, <1>3 DEF BusInv, BusClock
<1>7. BusLines'
  BY Zenon, LinesSame DEF BusInv
<1>8. BusDuds'
  <2>1. failed' = failed /\ failed \in Nat
    BY Zenon DEF BusInv, BusTypes
  <2>2. UNCHANGED <<hw, irqfuncs, line, scan, duds>>
    BY Zenon
  <2> HIDE DEF lamebus_mark
  <2>3. failed' >= failed
    BY <2>1
  <2> QED BY <1>2, <2>1, <2>2, <2>3, DudsSame, Zenon DEF BusInv
<1>9. BusCpus'
  BY Zenon, <1>3, CpusSame DEF BusInv
<1> QED BY Zenon, <1>2, <1>4, <1>5, <1>6, <1>7, <1>8, <1>9, BusParts DEF BusRest

LEMMA BusAttach == ASSUME BusInv, lamebus_attach_interrupt PROVE BusInv'
<1> USE DEF lamebus_attach_interrupt, Boots, cpus, clock
<1>s. PICK s0 \in Slot : s0 = boot.slot
  BY Zenon DEF BusInv, BusTypes
<1> USE <1>s
<1>0. /\ s0 \in Slot /\ s0 \in slotsinuse /\ hw.dev[s0] \in Interrupting /\ s0 \in 0..NSlots
      /\ HasDriver(s0) /\ boot.drv \in DOMAIN Drivers
  <2>1. s0 \in Slot
    BY Zenon DEF BusInv, BusTypes
  <2>2. /\ s0 \in slotsinuse /\ hw.dev[s0] \in Interrupting /\ boot.drv \in DOMAIN Drivers
        /\ hw.dev[s0] = Drivers[boot.drv]
    BY Zenon DEF BusInv, BusSlots
  <2> HIDE DEF lamebus_attach_interrupt
  <2>3. s0 \in 0..NSlots
    BY BusAssumption DEF Slot
  <2>4. HasDriver(s0)
    BY Zenon, <2>2 DEF HasDriver
  <2> QED BY Zenon, <2>1, <2>2, <2>3, <2>4
<1>1. s0 # Controller
  BY Zenon, <1>0, ControllerPlain DEF BusInv
<1>2. irqfuncs[s0] = None /\ devdata[s0] = NSlots
  BY Zenon, <1>0, <1>1 DEF BusInv, BusSlots, Attaching
<1>3. /\ irqfuncs' = [irqfuncs EXCEPT ![s0] = hw.dev[s0]]
      /\ devdata' = [devdata EXCEPT ![s0] = s0]
      /\ BootTo("config") /\ bus_panic' = bus_panic
  BY Zenon, <1>0, <1>2
<1>4. /\ boot'.at = "config" /\ boot' \in [at : Stages, drv : Nat \ {0}, slot : Slot]
      /\ boot'.slot = s0 /\ boot'.drv = boot.drv
  BY Zenon, <1>3 DEF BootTo, BusInv, BusTypes, Stages
<1>5. BusTypes'
  <2>1. irqfuncs' \in [Slot -> Interrupting \cup {None}] /\ devdata' \in [Slot -> 0..NSlots]
    BY Zenon, <1>0, <1>3 DEF BusInv, BusTypes
  <2> QED BY Zenon, <1>4, <2>1 DEF BusInv, BusTypes
<1>6. irqfuncs'[s0] = hw.dev[s0] /\ devdata'[s0] = s0
  BY Zenon, <1>0, <1>3 DEF BusInv, BusTypes
<1>7. \A s \in Slot : s # s0 => irqfuncs'[s] = irqfuncs[s] /\ devdata'[s] = devdata[s]
  BY Zenon, <1>0, <1>3 DEF BusInv, BusTypes
<1>8. BusSlots'
  <2>1. ASSUME NEW s \in Slot
        PROVE (\/ s \notin slotsinuse /\ irqfuncs[s] = None /\ devdata[s] = NSlots
               \/ s = Controller /\ irqfuncs[s] = None
               \/ /\ s \in slotsinuse /\ HasDriver(s)
                  /\ IF hw.dev[s] \in Interrupting /\ ~Attaching(s)
                     THEN irqfuncs[s] = hw.dev[s] /\ devdata[s] = s
                     ELSE irqfuncs[s] = None /\ devdata[s] = NSlots)'
    <3>1. CASE s = s0
      BY Zenon, <1>0, <1>4, <1>6, <3>1 DEF HasDriver, Attaching
    <3>2. CASE s # s0
      <4>1. ~Attaching(s) /\ ~Attaching(s)' /\ (HasDriver(s)' <=> HasDriver(s))
        BY Zenon, <1>4, <3>2 DEF HasDriver, Attaching
      <4> QED BY Zenon, <1>7, <3>2, <4>1 DEF BusInv, BusSlots
    <3> QED BY Zenon, <3>1, <3>2
  <2> QED BY Zenon, <1>4, <2>1 DEF BusInv, BusSlots
<1>9. BusClock'
  BY Zenon, <1>4 DEF BusInv, BusClock
<1>10. None \notin Interrupting
  BY Zenon DEF None, Interrupting
<1>11. BusLines'
  BY Zenon, <1>0, <1>6, <1>7, <1>10 DEF BusInv, BusLines, BusTypes
<1>12. BusDuds'
  <2>1. scan.duds = 0 /\ scan' = scan /\ duds' = duds /\ failed' = failed /\ bus_panic' = bus_panic
    BY Zenon, <1>3 DEF BusInv, BusDuds
  <2>2. hw' = hw /\ line' = line
    BY Zenon
  <2> HIDE DEF lamebus_attach_interrupt
  <2>3. (scan.duds > 0)' => FALSE
    BY <2>1
  <2> QED BY Zenon, <2>1, <2>2, <2>3 DEF BusInv, BusDuds
<1>13. BusCpus'
  BY Zenon, <1>4, CpusSame DEF BusInv
<1> QED BY Zenon, <1>3, <1>5, <1>8, <1>9, <1>11, <1>12, <1>13, BusParts DEF BusRest

LEMMA BusConfig == ASSUME BusInv, Config PROVE BusInv'
<1> USE DEF Config, Boots, BootTo, bus, cpus, clock
<1>s. PICK s0 \in Slot : s0 = boot.slot
  BY Zenon DEF BusInv, BusTypes
<1> USE <1>s
<1>1. /\ s0 \in Slot /\ s0 \in slotsinuse /\ HasDriver(s0) /\ s0 # Controller
      /\ NSlots \in Nat /\ s0 \in 0..NSlots /\ s0 # NSlots
  <2>1. s0 \in Slot /\ s0 \in slotsinuse /\ HasDriver(s0)
    BY Zenon DEF BusInv, BusTypes, BusSlots, HasDriver
  <2> QED BY <2>1, ControllerPlain, BusAssumption DEF BusInv, Slot
<1>2. /\ boot'.at = "probe" /\ boot' \in [at : Stages, drv : Nat \ {0}, slot : Slot]
      /\ boot'.slot = s0 /\ boot'.drv = boot.drv
  BY Zenon DEF BusInv, BusTypes, Stages
<1>3. BusTypes'
  <2>1. service' \in [Services -> 0..NSlots]
    BY Zenon, <1>1 DEF BusInv, BusTypes
  <2>2. enabled' \subseteq Slot
    BY Zenon, <1>1 DEF BusInv, BusTypes
  <2> QED BY Zenon, <1>2, <2>1, <2>2 DEF BusInv, BusTypes
<1>4. BusSlots'
  BY <1>2 DEF BusInv, BusSlots, HasDriver, Attaching
<1>5. BusClock'
  <2>1. "rtclock" \in Services /\ DOMAIN service = Services
    BY Zenon DEF Services, BusInv, BusTypes
  <2>2. service["rtclock"] # NSlots => service'["rtclock"] # NSlots
    BY Zenon, <1>1, <2>1
  <2>3. hw.dev[s0] = "ltimer" => service'["rtclock"] # NSlots
    BY Zenon, <1>1, <2>1 DEF Offers
  <2> QED BY Zenon, <1>2, <2>2, <2>3 DEF BusInv, BusClock
<1>6. BusLines'
  <2>1. Wired(s0) => irqfuncs[s0] # None
    <3>1. "none" \notin Interrupting
      BY Zenon DEF Interrupting
    <3> QED BY Zenon, <1>1, <3>1 DEF Wired, BusInv, BusSlots, Attaching, None
  <2> QED BY Zenon, <2>1 DEF BusInv, BusLines
<1>7. BusDuds'
  BY DudsSame DEF BusInv, BusTypes
<1>8. BusCpus'
  BY Zenon, <1>2, CpusSame DEF BusInv
<1> QED BY Zenon, <1>3, <1>4, <1>5, <1>6, <1>7, <1>8, BusParts DEF BusRest

(* The numbers of the CPUs: among the others, c comes after those below.   *)
Below(S, c) == {d \in S : d < c}
LEMMA BelowCounts ==
    ASSUME CountingDevices, NEW S \in SUBSET Nat, IsFiniteSet(S), NEW c \in S
    PROVE  /\ Cardinality(Below(S, c)) \in Nat /\ Cardinality(Below(S, c)) < Cardinality(S)
           /\ Cardinality({d \in S : d <= c}) = Cardinality(Below(S, c)) + 1
           /\ Cardinality(S) \in Nat
<1>1. Below(S, c) \in SUBSET S /\ c \notin Below(S, c)
  BY DEF Below
<1>2. IsFiniteSet(Below(S, c)) /\ Cardinality(Below(S, c)) \in Nat /\ Cardinality(S) \in Nat
  BY <1>1, Zenon DEF CountingDevices
<1>3. {d \in S : d <= c} = Below(S, c) \cup {c}
  <2>1. c \in Nat /\ \A d \in S : d \in Nat
    BY Zenon
  <2>2. \A d \in S : d <= c <=> (d < c \/ d = c)
    BY <2>1
  <2> QED BY Zenon, <2>2 DEF Below
<1>4. Cardinality({d \in S : d <= c}) = Cardinality(Below(S, c)) + 1
  BY <1>1, <1>2, <1>3, Zenon DEF CountingDevices
<1>5. {d \in S : d <= c} \in SUBSET S
  BY Zenon
<1>6. Cardinality({d \in S : d <= c}) <= Cardinality(S)
  BY <1>5, Zenon DEF CountingDevices
<1> QED BY <1>2, <1>4, <1>6

LEMMA BelowOrders ==
    ASSUME CountingDevices, NEW S \in SUBSET Nat, IsFiniteSet(S), NEW c \in S, NEW e \in S,
           Cardinality(Below(S, c)) = Cardinality(Below(S, e))
    PROVE  c = e
<1>1. ASSUME NEW x \in S, NEW y \in S, x < y
      PROVE  Cardinality(Below(S, x)) # Cardinality(Below(S, y))
  <2>1. Below(S, x) \in SUBSET Below(S, y) /\ x \in Below(S, y) /\ x \notin Below(S, x)
    <3>1. x \in Nat /\ y \in Nat /\ \A d \in S : d \in Nat
      BY Zenon
    <3>2. ~(x < x) /\ \A d \in S : d < x => d < y
      BY <1>1, <3>1
    <3> QED BY Zenon, <1>1, <3>2 DEF Below
  <2>2. Below(S, y) \in SUBSET S
    BY Zenon DEF Below
  <2>3. IsFiniteSet(Below(S, y))
    BY <2>2, Zenon DEF CountingDevices
  <2> QED BY <2>1, <2>3, Zenon DEF CountingDevices
<1>2. c < e \/ e < c \/ c = e
  OBVIOUS
<1> QED BY <1>1, <1>2, Zenon

LEMMA AscendingRank ==
    ASSUME CountingDevices, NEW S \in SUBSET Nat, IsFiniteSet(S), NEW c \in S
    PROVE  LET r == Cardinality({d \in S : d <= c})
           IN  r \in 1..Cardinality(S) /\ Ascending(S)[r] = c
<1> DEFINE r == Cardinality({d \in S : d <= c})
<1>1. r \in 1..Cardinality(S) /\ r - 1 = Cardinality(Below(S, c))
  BY BelowCounts
<1>2. Ascending(S)[r] = CHOOSE e \in S : Cardinality(Below(S, e)) = r - 1
  BY Zenon, <1>1 DEF Ascending, Below
<1> HIDE DEF r
<1>3. \A e \in S : Cardinality(Below(S, e)) = r - 1 => e = c
  BY Zenon, <1>1, BelowOrders
<1>4. (CHOOSE e \in S : Cardinality(Below(S, e)) = r - 1) = c
  BY Zenon, <1>1, <1>3
<1> QED BY Zenon, <1>1, <1>2, <1>4 DEF r

LEMMA OthersFinite ==
    ASSUME CountingDevices, BusTypes
    PROVE  /\ Others \in SUBSET Nat /\ IsFiniteSet(Others) /\ Others \subseteq hw.cpus
           /\ IsFiniteSet(hw.cpus) /\ hw.self \in hw.cpus /\ hw.uni \in BOOLEAN
<1>1. IsFiniteSet(hw.cpus) /\ hw.cpus \subseteq Nat /\ hw.self \in hw.cpus /\ hw.uni \in BOOLEAN
  BY Zenon, BusAssumption DEF BusTypes
<1>2. Others \in SUBSET hw.cpus
  BY Zenon DEF Others
<1> QED BY <1>1, <1>2, Zenon DEF CountingDevices

LEMMA BusStartCpus == ASSUME CountingDevices, BusInv, lamebus_start_cpus PROVE BusInv'
<1> USE DEF lamebus_start_cpus, Boots, BootTo, bus, clock
<1>1. /\ boot'.at = "wait" /\ boot' \in [at : Stages, drv : Nat \ {0}, slot : Slot]
      /\ boot'.slot = boot.slot /\ boot'.drv = boot.drv
  BY Zenon DEF BusInv, BusTypes, Stages
<1>2. BusTypes'
  BY Zenon, <1>1 DEF BusInv, BusTypes
<1>3. BusSlots'
  BY Zenon, <1>1 DEF BusInv, BusSlots, HasDriver, Attaching
<1>4. BusClock'
  BY Zenon, <1>1 DEF BusInv, BusClock
<1>5. BusLines'
  BY Zenon, LinesSame DEF BusInv
<1>6. BusDuds'
  BY DudsSame DEF BusInv, BusTypes
<1>7. BusCpus'
  <2>1. hatched = {}
    BY Zenon DEF BusInv, BusCpus
  <2>2. Others' = Others /\ \A c : Rank(c)' = Rank(c)
    BY Zenon DEF Others, Rank
  <2>3. cram' = [c \in hw'.cpus |-> IF boot'.at \notin {"wait", "done"} \/ hw'.uni \/ c = hw'.self
                                    THEN 0 ELSE Rank(c)]
    BY Zenon, <1>1, OthersFinite DEF BusInv, BusCpus
  <2>4. allcpus' = IF boot'.at \in {"init", "cpus"} \/ hw'.uni THEN <<0>>
                   ELSE <<hw'.self>> \o Ascending(Others)
    BY Zenon, <1>1 DEF BusInv, BusCpus
  <2> QED BY Zenon, <1>1, <2>1, <2>2, <2>3, <2>4 DEF BusInv, BusCpus
<1> QED BY Zenon, <1>2, <1>3, <1>4, <1>5, <1>6, <1>7, BusParts DEF BusRest

LEMMA BusHatch ==
    ASSUME CountingDevices, BusInv, NEW c \in hw.cpus, cpu_hatch(c) PROVE BusInv'
<1> USE DEF cpu_hatch, bus, clock
<1>1. BusTypes'
  BY Zenon DEF BusInv, BusTypes
<1>2. BusSlots'
  BY SlotsSame DEF BusInv, BusTypes
<1>3. BusClock'
  BY Zenon, ClockSame DEF BusInv
<1>4. BusLines'
  BY Zenon, LinesSame DEF BusInv
<1>5. BusDuds'
  BY DudsSame DEF BusInv, BusTypes
<1>6. BusCpus'
  <2>1. c \in Others /\ boot.at \in {"wait", "done"} /\ ~hw.uni
    BY Zenon DEF BusInv, BusCpus, Others
  <2>2. boot.at # "done"
    BY Zenon, <2>1 DEF BusInv, BusCpus
  <2>3. IsFiniteSet(hatched)
    <3>1. IsFiniteSet(hw.cpus) /\ hatched \in SUBSET hw.cpus
      BY Zenon, OthersFinite DEF BusInv, BusCpus
    <3> QED BY <3>1, Zenon DEF CountingDevices
  <2>4. Cardinality(hatched') = Cardinality(hatched) + 1
    BY <2>3, Zenon DEF CountingDevices
  <2>5. Others' = Others /\ \A d : Rank(d)' = Rank(d)
    BY Zenon DEF Others, Rank
  <2>6. sem' = Cardinality(hatched') /\ hatched' \subseteq hw.cpus /\ \A d \in hatched' : cram[d] # 0
    BY Zenon, <2>2, <2>4 DEF BusInv, BusCpus
  <2>7. cram' = [d \in hw'.cpus |-> IF boot'.at \notin {"wait", "done"} \/ hw'.uni \/ d = hw'.self
                                    THEN 0 ELSE Rank(d)]
    BY Zenon DEF BusInv, BusCpus
  <2> QED BY Zenon, <2>2, <2>5, <2>6, <2>7 DEF BusInv, BusCpus
<1> QED BY Zenon, <1>1, <1>2, <1>3, <1>4, <1>5, <1>6, BusParts DEF BusRest

LEMMA OneAfter ==
    ASSUME NEW n \in Nat, NEW f, NEW x, f = [m \in 1..n |-> f[m]]
    PROVE  /\ Len(<<x>> \o f) = n + 1 /\ (<<x>> \o f)[1] = x
           /\ \A m \in 1..n : (<<x>> \o f)[m + 1] = f[m]
<1> DEFINE T == {x} \cup {f[m] : m \in 1..n}
<1>1. f \in [1..n -> T]
  BY Zenon
<1>2. f \in Seq(T) /\ Len(f) = n /\ <<x>> \in Seq(T)
  BY <1>1
<1> HIDE DEF T
<1> QED BY <1>2

LEMMA LenAllcpus ==
    ASSUME CountingDevices, BusInv, boot.at \notin {"init", "cpus"}, ~hw.uni
    PROVE  /\ Len(allcpus) = Cardinality(Others) + 1 /\ allcpus[1] = hw.self
           /\ \A n \in 1..Cardinality(Others) : allcpus[n + 1] = Ascending(Others)[n]
<1>1. Cardinality(Others) \in Nat
  BY OthersFinite, Zenon DEF CountingDevices, BusInv
<1>2. allcpus = <<hw.self>> \o Ascending(Others)
  BY Zenon DEF BusInv, BusCpus
<1>3. Ascending(Others) = [m \in 1..Cardinality(Others) |-> Ascending(Others)[m]]
  BY DEF Ascending
<1> QED BY <1>1, <1>2, <1>3, OneAfter

LEMMA BusStarted == ASSUME CountingDevices, BusInv, thread_start_cpus PROVE BusInv'
<1> USE DEF thread_start_cpus, Boots, BootTo, bus, clock
<1>1. /\ boot'.at = "done" /\ boot' \in [at : Stages, drv : Nat \ {0}, slot : Slot]
      /\ boot'.slot = boot.slot /\ boot'.drv = boot.drv
  BY Zenon DEF BusInv, BusTypes, Stages
<1>2. BusTypes'
  BY Zenon, <1>1 DEF BusInv, BusTypes
<1>3. BusSlots'
  BY Zenon, <1>1 DEF BusInv, BusSlots, HasDriver, Attaching
<1>4. BusClock'
  BY Zenon, <1>1 DEF BusInv, BusClock
<1>5. BusLines'
  BY Zenon, LinesSame DEF BusInv
<1>6. BusDuds'
  BY DudsSame DEF BusInv, BusTypes
<1>7. BusCpus'
  <2>1. ~hw.uni => hatched = Others
    <3> SUFFICES ASSUME ~hw.uni PROVE hatched = Others
      BY Zenon
    <3>1. Cardinality(hatched) = Cardinality(Others)
      <4>1. Cardinality(Others) \in Nat
        BY OthersFinite, Zenon DEF CountingDevices, BusInv
      <4>2. sem = Cardinality(hatched) /\ sem = Len(allcpus) - 1
        BY Zenon DEF BusInv, BusCpus
      <4> QED BY <4>1, <4>2, LenAllcpus
    <3>2. hatched \in SUBSET Others
      BY Zenon DEF BusInv, BusCpus, Others
    <3> QED BY <3>1, <3>2, OthersFinite, Zenon DEF CountingDevices, BusInv
  <2>2. Others' = Others /\ \A c : Rank(c)' = Rank(c)
    BY Zenon DEF Others, Rank
  <2>3. cram' = [c \in hw'.cpus |-> IF boot'.at \notin {"wait", "done"} \/ hw'.uni \/ c = hw'.self
                                    THEN 0 ELSE Rank(c)]
    BY Zenon, <1>1 DEF BusInv, BusCpus
  <2> QED BY Zenon, <1>1, <2>1, <2>2, <2>3 DEF BusInv, BusCpus
<1> QED BY Zenon, <1>2, <1>3, <1>4, <1>5, <1>6, <1>7, BusParts DEF BusRest

LEMMA BusRaise == ASSUME BusInv, NEW s \in Slot, Raise(s) PROVE BusInv'
<1> USE DEF Raise, bus, cpus, clock
<1>1. BusTypes'
  BY Zenon DEF BusInv, BusTypes
<1>2. BusSlots'
  BY SlotsSame DEF BusInv, BusTypes
<1>3. BusClock'
  BY Zenon, ClockSame DEF BusInv
<1>4. BusLines'
  BY Zenon DEF BusInv, BusLines
<1>5. BusDuds'
  <2>1. Unseen => Unseen'
    BY Zenon DEF Unseen
  <2>2. hw.early \cap line # {} => (hw.early \cap line # {})'
    BY Zenon
  <2> QED BY Zenon, <2>1, <2>2 DEF BusInv, BusDuds
<1>6. BusCpus'
  BY Zenon, CpusSame DEF BusInv
<1> QED BY Zenon, <1>1, <1>2, <1>3, <1>4, <1>5, <1>6, BusParts DEF BusRest

LEMMA BusInterrupt ==
    ASSUME BusInv, NEW glitch \in BOOLEAN, mainbus_interrupt(glitch) PROVE BusInv'
<1> USE DEF mainbus_interrupt, bus, cpus, clock
<1>1. NSlots \in Nat /\ 1 <= NSlots /\ line \subseteq Slot /\ failed \in Nat /\ duds \in Nat /\ MaxDuds \in Nat
  BY BusAssumption DEF BusInv, BusTypes
<1>2. failed' \in Nat /\ failed' >= failed
  BY <1>1
<1>3. /\ scan'.on /\ scan'.slot = 0 /\ scan'.irqs = line /\ scan'.duds = (IF glitch THEN 1 ELSE 0)
      /\ scan' \in [on : BOOLEAN, slot : 0..NSlots, irqs : SUBSET Slot, duds : 0..NSlots]
  BY <1>1
<1>4. BusTypes'
  BY <1>1, <1>2, <1>3 DEF BusInv, BusTypes
<1>5. BusSlots'
  BY Zenon, <1>2, SlotsSame DEF BusInv
<1>6. BusClock'
  BY Zenon, ClockSame DEF BusInv
<1>7. BusLines'
  BY Zenon, <1>3 DEF BusInv, BusLines
<1>8. BusDuds'
  <2>1. scan.duds = 0 /\ duds <= MaxDuds /\ (duds <= failed \/ hw.early \cap line # {})
    <3>1. scan.duds = 0 /\ (duds <= failed \/ hw.early \cap line # {}) /\ duds <= MaxDuds + scan.duds
      BY <1>1, Zenon DEF BusInv, BusDuds
    <3>2. duds <= MaxDuds + 0
      BY Zenon, <3>1
    <3> HIDE DEF mainbus_interrupt
    <3>3. MaxDuds + 0 = MaxDuds
      BY <1>1
    <3> QED BY Zenon, <3>1, <3>2, <3>3
  <2>2. CASE glitch
    <3>1. line = {} /\ failed' = failed + 1 /\ duds' = duds + 1 /\ line' = line
      BY Zenon, <2>2
    <3>2. duds <= failed
      BY Zenon, <2>1, <3>1
    <3>3. scan'.duds = 1 /\ scan'.irqs = {} /\ scan'.on
      BY Zenon, <1>3, <2>2, <3>1
    <3> HIDE DEF mainbus_interrupt
    <3> QED BY <1>1, <2>1, <3>1, <3>2, <3>3 DEF BusDuds
  <2>3. CASE ~glitch
    <3>1. duds' = duds /\ scan'.duds = 0 /\ scan'.slot = 0 /\ scan'.on
      BY Zenon, <1>3, <2>3
    <3> HIDE DEF mainbus_interrupt
    <3> QED BY <1>1, <2>1, <3>1 DEF BusDuds
  <2> QED BY Zenon, <2>2, <2>3
<1>9. BusCpus'
  BY Zenon, CpusSame DEF BusInv
<1> QED BY Zenon, <1>4, <1>5, <1>6, <1>7, <1>8, <1>9, BusParts DEF BusRest

(* A handler is that of its own slot.                                      *)
LEMMA OwnHandler ==
    ASSUME BusInv, NEW s \in Slot, irqfuncs[s] # None PROVE devdata[s] = s
  BY Zenon DEF BusInv, BusSlots

LEMMA BusScan == ASSUME BusInv, lamebus_interrupt PROVE BusInv'
<1> USE DEF lamebus_interrupt, bus, cpus, clock
<1>1. /\ NSlots \in Nat /\ failed \in Nat /\ duds \in Nat /\ MaxDuds \in Nat
      /\ scan.slot \in 0..NSlots /\ scan.duds \in 0..NSlots /\ scan.slot + 1 \in 0..NSlots
      /\ scan.slot \in Slot /\ scan.irqs \subseteq Slot /\ scan.on
  BY BusAssumption DEF BusInv, BusTypes, Slot
<1>2. BusSlots'
  BY SlotsSame DEF BusInv, BusTypes
<1>3. BusClock'
  BY Zenon, ClockSame DEF BusInv
<1>4. BusCpus'
  BY Zenon, CpusSame DEF BusInv
<1>5. CASE Skip
  <2> USE <1>5 DEF Skip
  <2>1. /\ scan'.on /\ scan'.slot = scan.slot + 1 /\ scan'.irqs = scan.irqs /\ scan'.duds = scan.duds
        /\ scan' \in [on : BOOLEAN, slot : 0..NSlots, irqs : SUBSET Slot, duds : 0..NSlots]
    BY Zenon, <1>1 DEF BusInv, BusTypes
  <2>2. BusTypes'
    BY Zenon, <2>1 DEF BusInv, BusTypes
  <2>3. BusLines'
    BY Zenon, <2>1 DEF BusInv, BusLines
  <2>4. BusDuds'
    BY <1>1, <2>1 DEF BusInv, BusDuds, Unseen
  <2> QED BY Zenon, <1>2, <1>3, <1>4, <2>2, <2>3, <2>4, BusParts DEF BusRest
<1>6. CASE Dud /\ scan.slot \in scan.irqs /\ irqfuncs[scan.slot] = None
  <2> USE <1>6 DEF Dud
  <2>1. scan.duds <= scan.slot /\ scan.duds + 1 \in 0..NSlots
    BY <1>1 DEF BusInv, BusDuds
  <2>2. /\ scan'.on /\ scan'.slot = scan.slot + 1 /\ scan'.irqs = scan.irqs
        /\ scan'.duds = scan.duds + 1
        /\ scan' \in [on : BOOLEAN, slot : 0..NSlots, irqs : SUBSET Slot, duds : 0..NSlots]
    BY Zenon, <1>1, <2>1 DEF BusInv, BusTypes
  <2>3. BusTypes'
    BY <1>1, <2>2 DEF BusInv, BusTypes
  <2>4. BusLines'
    BY Zenon, <2>2 DEF BusInv, BusLines
  <2>5. Unseen'
    <3>1. scan.slot \in hw.early \cap line
      BY Zenon DEF BusInv, BusLines
    <3> QED BY Zenon, <3>1 DEF Unseen
  <2>6. BusDuds'
    <3>1. duds' = duds + 1 /\ duds <= MaxDuds + scan.duds /\ bus_panic' = bus_panic
      BY Zenon DEF BusInv, BusDuds
    <3> HIDE DEF lamebus_interrupt, Dud
    <3> QED BY <1>1, <2>1, <2>2, <2>5, <3>1 DEF BusDuds
  <2> QED BY Zenon, <1>2, <1>3, <1>4, <2>3, <2>4, <2>6, BusParts DEF BusRest
<1>7. CASE Call /\ scan.slot \in scan.irqs /\ irqfuncs[scan.slot] # None
  <2> USE <1>7 DEF Call, Handled
  <2>1. line' = line \ {scan.slot}
    BY Zenon, <1>1, OwnHandler
  <2>2. /\ scan'.on /\ scan'.slot = scan.slot + 1 /\ scan'.irqs = line'
        /\ scan'.duds = scan.duds
        /\ scan' \in [on : BOOLEAN, slot : 0..NSlots, irqs : SUBSET Slot, duds : 0..NSlots]
    BY Zenon, <1>1, <2>1 DEF BusInv, BusTypes
  <2>3. BusTypes'
    BY Zenon, <1>1, <2>1, <2>2 DEF BusInv, BusTypes
  <2>4. BusLines'
    BY Zenon, <2>1, <2>2 DEF BusInv, BusLines
  <2>5. Unseen => Unseen'
    BY Zenon, <2>1 DEF Unseen
  <2>6. scan.irqs # {}
    BY Zenon, <1>7
  <2>7. BusDuds'
    <3>1. duds' = duds /\ bus_panic' = bus_panic /\ failed' = failed
      BY Zenon
    <3> HIDE DEF lamebus_interrupt, Call
    <3> QED BY <1>1, <2>2, <2>5, <2>6, <3>1 DEF BusInv, BusDuds
  <2> QED BY Zenon, <1>2, <1>3, <1>4, <2>3, <2>4, <2>7, BusParts DEF BusRest
<1>8. scan.slot \notin slotsinuse => irqfuncs[scan.slot] = None
  BY Zenon, <1>1 DEF BusInv, BusSlots
<1> QED BY Zenon, <1>5, <1>6, <1>7, <1>8

LEMMA BusScanEnd == ASSUME BusInv, ScanEnd PROVE BusInv'
<1>0. bus_panic = None /\ scan' = Idle
  BY Zenon DEF ScanEnd
<1>d. IF scan.duds = 0 THEN duds' = 0 ELSE duds' = duds
  BY Zenon DEF ScanEnd
<1>p. IF duds' > MaxDuds THEN bus_panic' = "too_many_duds" ELSE bus_panic' = None
  BY Zenon DEF ScanEnd
<1>u. /\ UNCHANGED <<hw, boot, slotsinuse, irqfuncs, devdata, line, enabled, service>>
      /\ UNCHANGED <<allcpus, cirqe, cram, hatched, sem, now, ts, span, failed>>
  BY Zenon DEF ScanEnd, bus, cpus, clock
<1>1. /\ NSlots \in Nat /\ failed \in Nat /\ duds \in Nat /\ MaxDuds \in Nat
      /\ scan.duds \in 0..NSlots /\ duds' \in Nat
  BY <1>d, BusAssumption DEF BusInv, BusTypes
<1>2. /\ ~scan'.on /\ scan'.slot = 0 /\ scan'.irqs = {} /\ scan'.duds = 0
      /\ scan' \in [on : BOOLEAN, slot : 0..NSlots, irqs : SUBSET Slot, duds : 0..NSlots]
  <2>1. scan' = [on |-> FALSE, slot |-> 0, irqs |-> {}, duds |-> 0]
    BY Zenon, <1>0 DEF Idle
  <2> QED BY <1>1, <2>1
<1>3. BusTypes'
  BY Zenon, <1>1, <1>2, <1>u DEF BusInv, BusTypes
<1>4. BusSlots'
  BY <1>1, <1>u, SlotsSame DEF BusInv, BusTypes
<1>5. BusClock'
  BY Zenon, <1>u, ClockSame DEF BusInv
<1>6. BusLines'
  BY Zenon, <1>2, <1>u DEF BusInv, BusLines
<1>7. duds' <= failed \/ (Unseen /\ Unseen')
  BY <1>1, <1>d, <1>u DEF BusInv, BusDuds, Unseen
<1>8. BusDuds'
  <2>1. duds' <= MaxDuds + NSlots /\ (bus_panic' = None => duds' <= MaxDuds)
    BY <1>0, <1>1, <1>d, <1>p, <1>u DEF BusInv, BusDuds, None
  <2>2. duds' <= failed' \/ (hw.early \cap line # {})'
    BY Zenon, <1>7, <1>u DEF Unseen
  <2> QED BY <1>1, <1>2, <2>1, <2>2 DEF BusDuds
<1>9. BusCpus'
  BY Zenon, <1>u, CpusSame DEF BusInv
<1>10. NoBusPanic'
  BY <1>1, <1>7, <1>p, <1>u DEF NoBusPanic, Unseen
<1>11. TimeIsNow'
  BY Zenon, <1>u, BusTimeSame DEF BusInv
<1> QED BY Zenon, <1>3, <1>4, <1>5, <1>6, <1>8, <1>9, <1>10, <1>11 DEF BusInv

(* Reading the clock.                                                      *)
LEMMA DivMod ==
    ASSUME NEW a \in Nat, NEW b \in Nat \ {0}
    PROVE  a = (a \div b) * b + (a % b) /\ a % b \in 0..(b - 1) /\ a \div b \in Nat
<1>1. a % b \in 0..(b - 1)
  BY SMT
<1>2. a \div b \in Int
  BY SMT
<1>0. b \in Int /\ b > 0 /\ a \in Int
  BY SMT
<1>3. a = b * (a \div b) + (a % b)
  BY <1>0, SMT
<1>4. a \div b \in Nat
  BY <1>1, <1>2, <1>3, SMT
<1>5. \A q \in Int : b * q = q * b
  BY <1>0, SMT
<1> QED BY <1>1, <1>2, <1>3, <1>4, <1>5, Zenon

LEMMA DivSame ==
    ASSUME NEW a \in Nat, NEW b \in Nat \ {0}, NEW q \in Nat, NEW r \in 0..(b - 1), a = q * b + r
    PROVE  a \div b = q
  BY SMT

LEMMA GettimeExact ==
    ASSUME NEW t0 \in Nat, NEW d1 \in 0..Slow, NEW d2 \in 0..Slow
    PROVE  ltimer_gettime(t0, t0 + d1, t0 + d1 + d2) = t0 + d1
<1> DEFINE t1 == t0 + d1
           t2 == t0 + d1 + d2
<1>0. Second \in Nat \ {0} /\ Slow \in Nat /\ Small \in Nat /\ Slow <= Small /\ Small + Slow <= Second
  BY Zenon, BusAssumption
<1>1. t1 \in Nat /\ t2 \in Nat
  BY <1>0
<1>2. PICK q \in Nat, r \in 0..(Second - 1) : t1 = q * Second + r /\ Secs(t1) = q /\ Ticks(t1) = r
  BY Zenon, <1>0, <1>1, DivMod DEF Secs, Ticks
<1>3. CASE r < Small
  <2>1. r + d2 \in 0..(Second - 1)
    BY <1>0, <1>3
  <2>2. t2 = q * Second + (r + d2)
    <3>1. q * Second \in Nat
      BY <1>0, SMT
    <3> QED BY <1>0, <1>2, <3>1
  <2>3. Secs(t2) = q
    <3> HIDE DEF t2
    <3> QED BY Zenon, <1>0, <1>1, <2>1, <2>2, DivSame DEF Secs
  <2> QED BY Zenon, <1>2, <1>3, <2>3 DEF ltimer_gettime
<1>4. CASE ~(r < Small)
  <2>1. r - d1 \in 0..(Second - 1)
    BY <1>0, <1>4
  <2>2. t0 = q * Second + (r - d1)
    <3>1. q * Second \in Nat
      BY <1>0, SMT
    <3> QED BY <1>0, <1>2, <3>1
  <2>3. Secs(t0) = q
    BY Zenon, <1>0, <2>1, <2>2, DivSame DEF Secs
  <2> QED BY Zenon, <1>2, <1>4, <2>3 DEF ltimer_gettime
<1> QED BY Zenon, <1>3, <1>4

LEMMA BusGettime ==
    ASSUME BusInv, NEW gap \in 0..(Second - 1), NEW d1 \in 0..Slow, NEW d2 \in 0..Slow,
           gettime(gap, d1, d2)
    PROVE  BusInv'
<1>0. /\ boot.at = "done" /\ bus_panic = None
      /\ IF service["rtclock"] = NSlots
         THEN bus_panic' = "no_clock" /\ UNCHANGED <<now, ts, span>>
         ELSE LET t0 == now + gap IN
              /\ ts' = ltimer_gettime(t0, t0 + d1, t0 + d1 + d2)
              /\ span' = <<t0, t0 + d1 + d2>> /\ now' = t0 + d1 + d2 /\ UNCHANGED bus_panic
  BY Zenon DEF gettime
<1>u. /\ UNCHANGED <<hw, boot, slotsinuse, irqfuncs, devdata, line, enabled, service>>
      /\ UNCHANGED <<allcpus, cirqe, cram, hatched, sem, scan, duds, failed>>
  BY Zenon DEF gettime, bus, cpus
<1>1. now + gap \in Nat /\ now \in Nat /\ failed \in Nat /\ duds \in Nat
  <2>1. Second \in Nat
    BY Zenon, BusAssumption
  <2> QED BY <2>1 DEF BusInv, BusTypes
<1>2. BusTypes'
  <2>1. now' \in Nat
    BY <1>0, <1>1, BusAssumption
  <2> QED BY Zenon, <1>u, <2>1 DEF BusInv, BusTypes
<1>3. BusSlots'
  BY <1>1, <1>u, SlotsSame DEF BusInv
<1>4. BusClock'
  BY Zenon, <1>u, ClockSame DEF BusInv
<1>5. BusLines'
  BY Zenon, <1>u, LinesSame DEF BusInv
<1>6. BusDuds'
  BY <1>0, <1>1, <1>u, DudsSame DEF BusInv
<1>7. BusCpus'
  BY Zenon, <1>u, CpusSame DEF BusInv
<1>8. CASE service["rtclock"] = NSlots
  <2>1. bus_panic' = "no_clock" /\ UNCHANGED <<now, ts, span>>
    BY Zenon, <1>0, <1>8
  <2>2. failed > 0 \/ \A s \in Slot : hw.dev[s] # "ltimer"
    <3>1. ASSUME failed = 0, NEW s \in Slot, hw.dev[s] = "ltimer" PROVE FALSE
      <4>1. PICK n \in DOMAIN Drivers : Drivers[n] = "ltimer"
        BY Zenon, BusAssumption
      <4>2. n < boot.drv
        <5>1. boot.drv > Len(Drivers) /\ boot.drv \in Nat
          BY <1>0, Zenon DEF BusInv, BusTypes, BusSlots
        <5>2. n <= Len(Drivers) /\ n \in Nat /\ Len(Drivers) \in Nat
          BY BusAssumption
        <5> QED BY <5>1, <5>2
      <4>3. s \in slotsinuse
        BY Zenon, <3>1, <4>1, <4>2 DEF BusInv, BusSlots
      <4> QED BY Zenon, <1>0, <1>8, <3>1, <4>3 DEF BusInv, BusClock
    <3> QED BY <1>1, <3>1
  <2>3. NoBusPanic'
    BY Zenon, <1>u, <2>1, <2>2 DEF NoBusPanic
  <2>4. TimeIsNow'
    BY Zenon, <2>1, BusTimeSame DEF BusInv
  <2> QED BY Zenon, <1>2, <1>3, <1>4, <1>5, <1>6, <1>7, <2>3, <2>4 DEF BusInv
<1>9. CASE service["rtclock"] # NSlots
  <2> DEFINE t0 == now + gap
  <2>1. /\ ts' = ltimer_gettime(t0, t0 + d1, t0 + d1 + d2) /\ span' = <<t0, t0 + d1 + d2>>
        /\ bus_panic' = bus_panic
    BY Zenon, <1>0, <1>9
  <2>2. ts' = t0 + d1
    <3> HIDE DEF t0
    <3> QED BY Zenon, <1>1, <2>1, GettimeExact DEF t0
  <2>3. TimeIsNow'
    <3>1. t0 \in Nat /\ d1 \in Nat /\ d2 \in Nat
      BY <1>1, BusAssumption
    <3>2. t0 <= t0 + d1 /\ t0 + d1 <= t0 + d1 + d2
      <4> HIDE DEF t0
      <4> QED BY <3>1
    <3>3. ts' = t0 + d1 /\ span'[1] = t0 /\ span'[2] = t0 + d1 + d2
      BY <2>1, <2>2
    <3> QED BY <3>2, <3>3, Zenon DEF TimeIsNow
  <2>4. NoBusPanic'
    BY Zenon, <1>0, <2>1 DEF NoBusPanic
  <2> QED BY Zenon, <1>2, <1>3, <1>4, <1>5, <1>6, <1>7, <2>3, <2>4 DEF BusInv
<1> QED BY Zenon, <1>8, <1>9

LEMMA BusStutter == ASSUME BusInv, UNCHANGED varsBus PROVE BusInv'
<1> USE DEF varsBus, bus, cpus, clock
<1>1. BusTypes'
  BY Zenon DEF BusInv, BusTypes
<1>2. BusSlots'
  BY SlotsSame DEF BusInv, BusTypes
<1>3. BusClock' /\ BusLines' /\ TimeIsNow'
  BY Zenon, ClockSame, LinesSame, BusTimeSame DEF BusInv
<1>4. BusDuds'
  BY DudsSame DEF BusInv, BusTypes
<1>5. BusCpus'
  BY Zenon, CpusSame DEF BusInv
<1>6. NoBusPanic'
  BY Zenon DEF BusInv, NoBusPanic
<1> QED BY Zenon, <1>1, <1>2, <1>3, <1>4, <1>5, <1>6 DEF BusInv

LEMMA BusNext == ASSUME CountingDevices, BusInv, NextBus PROVE BusInv'
<1>1. CASE Booting
  BY Zenon, <1>1, BusAttachInit, BusFindCpus, BusProbe, BusNomem, BusMark, BusAttach, BusConfig,
     BusStartCpus, BusStarted DEF Booting
<1>2. CASE Scanning
  BY Zenon, <1>2, BusScan, BusScanEnd DEF Scanning
<1>3. CASE StoppedBus
  BY Zenon, <1>3, BusStutter DEF StoppedBus
<1>4. CASE \E c \in hw.cpus : cpu_hatch(c)
  BY Zenon, <1>4, BusHatch
<1>5. CASE \E s \in Slot : Raise(s)
  BY Zenon, <1>5, BusRaise
<1>6. CASE \E glitch \in BOOLEAN : mainbus_interrupt(glitch)
  BY Zenon, <1>6, BusInterrupt
<1>7. CASE \E gap \in 0..(Second - 1), d1, d2 \in 0..Slow : gettime(gap, d1, d2)
  BY Zenon, <1>7, BusGettime
<1> QED BY Zenon, <1>1, <1>2, <1>3, <1>4, <1>5, <1>6, <1>7 DEF NextBus

LEMMA BusSafe ==
    ASSUME CountingDevices, BusInv
    PROVE  TypeBus /\ NoBusPanic /\ CpusAgree /\ DevicesAttached /\ TimeIsNow
<1>0. hatched \in SUBSET hw.cpus /\ IsFiniteSet(hw.cpus)
  BY Zenon, OthersFinite DEF BusInv, BusCpus
<1>1. TypeBus
  <2>1. Cardinality(hatched) <= Cardinality(hw.cpus) /\ Cardinality(hatched) \in Nat
        /\ Cardinality(hw.cpus) \in Nat
    BY <1>0, Zenon DEF CountingDevices
  <2>2. sem \in 0..Cardinality(hw.cpus)
    BY <2>1 DEF BusInv, BusCpus
  <2>3. duds \in 0..(MaxDuds + NSlots)
    BY BusAssumption DEF BusInv, BusTypes, BusDuds
  <2>4. service \in [DOMAIN service -> 0..NSlots]
    BY Zenon DEF BusInv, BusTypes
  <2> QED BY Zenon, <1>0, <2>2, <2>3, <2>4 DEF BusInv, BusTypes, TypeBus
<1>2. CpusAgree
  <2>1. ASSUME NEW c \in hatched PROVE cram[c] < Len(allcpus) /\ allcpus[cram[c] + 1] = c
    <3>1. c \in Others /\ ~hw.uni /\ boot.at \in {"wait", "done"} /\ cram[c] = Rank(c)
      BY Zenon DEF BusInv, BusCpus, Others
    <3>2. Rank(c) = Cardinality({d \in Others : d <= c})
      BY Zenon DEF Rank, Others
    <3>3. Rank(c) \in 1..Cardinality(Others) /\ Ascending(Others)[Rank(c)] = c
      BY Zenon, <3>1, <3>2, OthersFinite, AscendingRank DEF BusInv
    <3>4. Cardinality(Others) \in Nat
      BY OthersFinite, Zenon DEF CountingDevices, BusInv
    <3> QED BY <3>1, <3>3, <3>4, LenAllcpus
  <2>2. ~hw.uni /\ boot.at \notin {"init", "cpus"} => allcpus[1] = hw.self
    BY Zenon, LenAllcpus
  <2>3. boot.at = "done" /\ ~hw.uni => hatched = hw.cpus \ {hw.self}
    BY Zenon DEF BusInv, BusCpus, Others
  <2> QED BY Zenon, <2>1, <2>2, <2>3 DEF CpusAgree
<1>3. DevicesAttached
  <2> SUFFICES ASSUME boot.at \in {"wait", "done"}
               PROVE  /\ \A s \in slotsinuse \ {Controller} :
                            hw.dev[s] \in Interrupting => irqfuncs[s] = hw.dev[s] /\ devdata[s] = s
                      /\ failed = 0 =>
                            slotsinuse \ {Controller} =
                                {s \in Slot : \E n \in DOMAIN Drivers : Drivers[n] = hw.dev[s]}
    BY Zenon DEF DevicesAttached
  <2>1. ASSUME NEW s \in slotsinuse \ {Controller}
        PROVE  s \in Slot /\ HasDriver(s)
               /\ (hw.dev[s] \in Interrupting => irqfuncs[s] = hw.dev[s] /\ devdata[s] = s)
    BY Zenon DEF BusInv, BusTypes, BusSlots, Attaching
  <2>2. ASSUME failed = 0, NEW s \in Slot, HasDriver(s) PROVE s \in slotsinuse \ {Controller}
    <3>1. s # Controller
      BY Zenon, <2>2, ControllerPlain DEF BusInv
    <3>2. PICK n \in DOMAIN Drivers : Drivers[n] = hw.dev[s]
      BY Zenon, <2>2 DEF HasDriver
    <3>3. n < boot.drv
      <4>1. boot.drv > Len(Drivers) /\ boot.drv \in Nat
        BY Zenon DEF BusInv, BusTypes, BusSlots
      <4>2. n <= Len(Drivers) /\ n \in Nat /\ Len(Drivers) \in Nat
        BY BusAssumption
      <4> QED BY <4>1, <4>2
    <3> QED BY Zenon, <2>2, <3>1, <3>2, <3>3 DEF BusInv, BusSlots
  <2> QED BY Zenon, <2>1, <2>2 DEF HasDriver
<1> QED BY Zenon, <1>1, <1>2, <1>3 DEF BusInv
-----------------------------------------------------------------------------
(* The devices together.                                                   *)
DevicesInv ==
    /\ which \in {"disk", "console", "bus"}
    /\ which = "disk" => DiskInv
    /\ which = "console" => ConsoleInv
    /\ which = "bus" => BusInv

LEMMA DevicesInit == ASSUME CountingDevices, InitDevices PROVE DevicesInv
<1>1. CASE which = "disk"
  BY <1>1, DiskInit DEF InitDevices, DevicesInv
<1>2. CASE which = "console"
  BY <1>2, ConsoleInit DEF InitDevices, DevicesInv, ConsoleInv
<1>3. CASE which = "bus"
  BY <1>3, BusInit DEF InitDevices, DevicesInv
<1> QED BY <1>1, <1>2, <1>3 DEF InitDevices

LEMMA DevicesNext ==
    ASSUME CountingDevices, DevicesInv, [NextDevices]_varsDevices
    PROVE  DevicesInv'
<1>0. which' = which
  BY DEF NextDevices, varsDevices
<1>1. CASE which = "disk"
  <2>1. DiskInv /\ (NextDisk \/ UNCHANGED varsDisk)
    BY <1>1, Zenon DEF DevicesInv, NextDevices, varsDevices
  <2> QED BY <1>0, <1>1, <2>1, DiskNext, DiskStutter DEF DevicesInv
<1>2. CASE which = "console"
  <2>1. ConsoleInv /\ (NextConsole \/ UNCHANGED varsConsole)
    BY <1>2, Zenon DEF DevicesInv, NextDevices, varsDevices
  <2> QED BY <1>0, <1>2, <2>1, ConsoleNext, ConsoleStutter DEF DevicesInv
<1>3. CASE which = "bus"
  <2>1. BusInv /\ (NextBus \/ UNCHANGED varsBus)
    BY <1>3, Zenon DEF DevicesInv, NextDevices, varsDevices
  <2> QED BY <1>0, <1>3, <2>1, BusNext, BusStutter DEF DevicesInv
<1> QED BY <1>1, <1>2, <1>3 DEF DevicesInv

LEMMA OnceStutter == ASSUME DiskInv, UNCHANGED varsDisk PROVE UNCHANGED <<media, got, Pending>>
<1>1. Pending' = Pending
  BY DEF varsDisk, Pending, AbstractOp, Asks
<1> QED BY <1>1 DEF varsDisk

LEMMA OnceInit == ASSUME InitDisk PROVE Abstract!Init
<1>1. media \in [Sector -> Value] /\ got \in [Thread -> Value]
  BY DiskInit DEF DiskInv, DiskTypes
<1>2. \A t \in Thread : ~Asks(t)
  BY DEF InitDisk, Asks
<1>3. Pending = [t \in Thread |-> NoOp]
  BY <1>2, OpNone DEF Pending
<1> QED BY <1>1, <1>3 DEF Abstract!Init

(* What holds of numbers and of finite sets.                               *)
INSTANCE FiniteSetTheorems

LEMMA LeastNumber ==
    ASSUME NEW S \in SUBSET Nat, S # {}
    PROVE  \E n \in S : \A m \in S : n <= m
<1> DEFINE Less == {p \in Nat \X Nat : p[1] < p[2]}
<1>1. IsWellFoundedOn(Less, Nat)
  BY NatLessThanWellFounded, Zenon DEF OpToRel
<1>2. PICK n \in S : \A m \in S : <<m, n>> \notin Less
  <2> HIDE DEF Less
  <2> QED BY <1>1, WFMin, Zenon
<1>3. ASSUME NEW m \in S PROVE n <= m
  <2>1. ~(m < n)
    BY <1>2, Zenon
  <2> QED BY <2>1
<1> QED BY <1>3

LEMMA DevicesCounted == CountingDevices
<1>1. Cardinality({}) = 0 /\ IsFiniteSet({})
  BY FS_EmptySet, Zenon
<1>2. \A S : IsFiniteSet(S) => Cardinality(S) \in Nat
  BY FS_CardinalityType, Zenon
<1>3. \A S, x : IsFiniteSet(S) /\ x \notin S =>
          IsFiniteSet(S \cup {x}) /\ Cardinality(S \cup {x}) = Cardinality(S) + 1
  BY FS_AddElement, Zenon
<1>4. ASSUME NEW S, NEW T \in SUBSET S, IsFiniteSet(S)
      PROVE  /\ IsFiniteSet(T) /\ Cardinality(T) <= Cardinality(S)
             /\ Cardinality(T) = Cardinality(S) => T = S
  BY <1>4, FS_Subset, Zenon
<1>5. \A m \in Nat : IsFiniteSet(1..m)
  BY FS_Interval
<1>6. \A S \in SUBSET Nat : S # {} => \E n \in S : \A m \in S : n <= m
  BY LeastNumber, Zenon
<1> QED BY <1>1, <1>2, <1>3, <1>4, <1>5, <1>6, Zenon DEF CountingDevices

-----------------------------------------------------------------------------
(* The invariant of the drivers, for any threads, sectors, machines, rings *)
(* and lines, and any number of faults.                                    *)
THEOREM DevicesInvariance == SafetyDevices => []DevicesInv
<1>1. InitDevices => DevicesInv
  BY DevicesInit, DevicesCounted
<1>2. DevicesInv /\ [NextDevices]_varsDevices => DevicesInv'
  BY DevicesNext, DevicesCounted
<1> QED BY <1>1, <1>2, PTL DEF SafetyDevices

(* lhd_io uses the card alone and refuses what is past the end; the serial *)
(* port is never written to while busy, and what con_input and putch_      *)
(* delayed fill is never overrun; and the bus panics for no other reason   *)
(* than NoBusPanic allows.  Threads read the console one at a time.        *)
THEOREM DriversAreSafe == ASSUME OneReader PROVE SafetyDevices => []DriversSafe
<1>1. DevicesInv => DriversSafe
  <2> SUFFICES ASSUME DevicesInv PROVE DriversSafe
    OBVIOUS
  <2>1. CASE which = "disk"
    BY <2>1, DiskSafe, DevicesCounted, Zenon DEF DevicesInv, DriversSafe
  <2>2. CASE which = "console"
    <3>1. TypeConsole /\ NoConsolePanic
      BY <2>2, ConsoleSafe DEF DevicesInv, ConsoleInv
    <3> QED BY <2>2, <3>1 DEF DriversSafe
  <2>3. CASE which = "bus"
    <3>1. TypeBus /\ NoBusPanic
      BY <2>3, BusSafe, DevicesCounted DEF DevicesInv
    <3> QED BY <2>3, <3>1 DEF DriversSafe
  <2> QED BY <2>1, <2>2, <2>3 DEF DevicesInv
<1> QED BY <1>1, DevicesInvariance, PTL

(* What is printed goes out whole, in order and once, and what is typed is *)
(* read in order and once, with one reader at a time (con.c and lser.c).   *)
THEOREM ConsoleKeepsOrder == ASSUME OneReader PROVE SafetyDevices => []ConsoleInOrder
<1>1. DevicesInv => ConsoleInOrder
  BY ConsoleSafe DEF DevicesInv, ConsoleInv, ConsoleInOrder
<1> QED BY <1>1, DevicesInvariance, PTL

(* However many threads read, nothing that is printed is lost or mixed up, *)
(* and the port is not written to while it is busy (putch and below).      *)
THEOREM OutputIsKept == SafetyDevices => [](which = "console" => OutputKept /\ NoConsolePanic)
<1>1. DevicesInv => (which = "console" => OutputKept /\ NoConsolePanic)
  BY DEF DevicesInv, ConsoleInv, OutputInv, ConsoleTypes, NoConsolePanic
<1> QED BY <1>1, DevicesInvariance, PTL

(* lamebus_find_cpus and lamebus_start_cpus number the CPUs alike, and     *)
(* every device that autoconf has a driver for gets its own interrupts.    *)
THEOREM DevicesGetAttached == SafetyDevices => []BusAttached
<1>1. DevicesInv => BusAttached
  BY BusSafe, DevicesCounted DEF DevicesInv, BusAttached
<1> QED BY <1>1, DevicesInvariance, PTL

(* gettime returns a time between its call and its return, wherever in     *)
(* ltimer_gettime the second turns over.                                   *)
THEOREM ClockIsRight == SafetyDevices => []BusTimeIsNow
<1>1. DevicesInv => BusTimeIsNow
  BY DEF DevicesInv, BusInv, BusTimeIsNow
<1> QED BY <1>1, DevicesInvariance, PTL

(* Every step of lhd_io, of the card and of lhd_irq is one of a disk that  *)
(* reads and writes a sector at once, or changes nothing there.            *)
THEOREM DiskStepsAtOnce == SafetyDevices => DiskActsAtOnce
<1>1. DevicesInv /\ [NextDevices]_varsDevices =>
          [which = "disk" => Abstract!Next \/ UNCHANGED <<media, got, Pending>>]_varsDisk
  <2> SUFFICES ASSUME DevicesInv, [NextDevices]_varsDevices, which = "disk",
                      ~(UNCHANGED varsDisk)
               PROVE  Abstract!Next \/ UNCHANGED <<media, got, Pending>>
    OBVIOUS
  <2>1. DiskInv /\ NextDisk
    BY Zenon DEF DevicesInv, NextDevices, varsDevices
  <2> QED BY <2>1, OnceNext DEF AtOnce
<1> QED BY <1>1, DevicesInvariance, PTL DEF SafetyDevices, DiskActsAtOnce

(* The disk driver implements SectorDisk.                                  *)
THEOREM DiskImplements == SafetyDevices /\ which = "disk" => ActsAtOnce
<1>1. InitDevices /\ which = "disk" => Abstract!Init
  BY OnceInit DEF InitDevices
<1>2. [NextDevices]_varsDevices => (which = "disk" => (which = "disk")')
  BY DEF NextDevices, varsDevices
<1>3. DevicesInv /\ which = "disk" /\ [NextDevices]_varsDevices =>
          [Abstract!Next]_<<media, Pending, got>>
  <2> SUFFICES ASSUME DevicesInv, which = "disk", [NextDevices]_varsDevices
               PROVE  Abstract!Next \/ UNCHANGED <<media, Pending, got>>
    OBVIOUS
  <2>1. DiskInv /\ (NextDisk \/ UNCHANGED varsDisk)
    BY Zenon DEF DevicesInv, NextDevices, varsDevices
  <2> QED BY <2>1, OnceNext, OnceStutter DEF AtOnce
<1> QED BY <1>1, <1>2, <1>3, DevicesInvariance, PTL DEF SafetyDevices, ActsAtOnce, Abstract!Spec
=============================================================================
