-------------------------------- MODULE Bus --------------------------------
(***************************************************************************)
(* The LAMEbus (dev/lamebus/lamebus.c, arch/sys161/dev/lamebus_machdep.c): *)
(* the boot CPU finds the other CPUs, lets interrupts in, attaches one     *)
(* driver to each slot and starts the CPUs, while the devices interrupt    *)
(* it.  All interrupts of the bus go to the boot CPU, so the scan of the   *)
(* slots and the boot thread share one CPU: a scan runs to its end before  *)
(* the boot thread goes on, and a device may raise its line at any point   *)
(* of it.  The clock of the ltimer turns while gettime reads it.           *)
(***************************************************************************)
EXTENDS Naturals, Sequences, FiniteSets

CONSTANTS
    NSlots,        \* LB_NSLOTS, the controller's slot being the last
    Drivers,       \* the kinds of device in the order autoconf tries them
    Machines,      \* the hardware: [dev, uni, cpus, self, early]
    MaxDuds,       \* the dud interrupts that are too many
    MaxRaise, MaxFailed, MaxReads,
    Second,        \* the ticks of one second of the ltimer's clock
    Small,         \* below this many ticks the nanoseconds are small
    Slow           \* the most ticks between two reads of a register

VARIABLES
    hw,                                  \* the machine, chosen once
    boot,                                \* the boot thread: [at, drv, slot]
    slotsinuse, irqfuncs, devdata,       \* struct lamebus_softc
    line, enabled,                       \* devices: raised lines, who may raise one
    scan, duds,                          \* lamebus_interrupt: its loop, its static
    allcpus, cirqe, cram, hatched, sem,  \* CPUs: software to hardware number, ...
    service,                             \* the_clock, the_beep, the_random, the_console
    now, ts, span,                       \* the clock, the last gettime, ghost: when it ran
    raised, failed, reads, bus_panic

bus == <<slotsinuse, irqfuncs, devdata>>
cpus == <<allcpus, cirqe, cram, hatched, sem>>
clock == <<now, ts, span, reads>>
varsBus == <<hw, boot, bus, line, enabled, scan, duds, cpus, service, clock, raised, failed, bus_panic>>

Slot == 0..(NSlots - 1)

(* CPUs have numbers, the controller needs no driver, and ltimers have     *)
(* one.  Reading the clock is fast, next to what is taken for a small      *)
(* number of nanoseconds and to a second.                                  *)
ASSUME BusAssumption ==
    /\ NSlots \in Nat \ {0} /\ MaxDuds \in Nat
    /\ Len(Drivers) \in Nat /\ DOMAIN Drivers = 1..Len(Drivers)
    /\ \E n \in DOMAIN Drivers : Drivers[n] = "ltimer"
    /\ \A m \in Machines :
          /\ m.early \subseteq Slot /\ m.uni \in BOOLEAN
          /\ IsFiniteSet(m.cpus) /\ m.cpus \subseteq Nat /\ m.self \in m.cpus
          /\ \A n \in DOMAIN Drivers : m.dev[NSlots - 1] # Drivers[n]
    /\ Second \in Nat \ {0} /\ Slow \in Nat /\ Small \in Nat
    /\ Slow <= Small /\ Small + Slow <= Second

Controller == NSlots - 1
None == "none"
Idle == [on |-> FALSE, slot |-> 0, irqs |-> {}, duds |-> 0]
Interrupting == {"emu", "ltimer", "lhd", "lser"}
Offers(kind) == CASE kind = "ltimer" -> {"rtclock", "beep"}
                  [] kind = "lrandom" -> {"random"}
                  [] kind = "lser" -> {"con"}
                  [] OTHER -> {}

InitBus ==
    /\ hw \in Machines
    /\ boot = [at |-> "init", drv |-> 1, slot |-> 0]
    /\ slotsinuse = {} /\ irqfuncs = [s \in Slot |-> None] /\ devdata = [s \in Slot |-> NSlots]
    /\ line = hw.early /\ enabled = {}
    /\ scan = Idle /\ duds = 0
    /\ allcpus = <<0>> /\ cirqe = {} /\ cram = [c \in hw.cpus |-> 0] /\ hatched = {} /\ sem = 0
    /\ service = [k \in {"rtclock", "beep", "random", "con"} |-> NSlots]
    /\ now = 0 /\ ts = 0 /\ span = <<0, 0>>
    /\ raised = 0 /\ failed = 0 /\ reads = 0 /\ bus_panic = None

BootTo(l) == boot' = [boot EXCEPT !.at = l]
Boots(l) == boot.at = l /\ ~scan.on /\ bus_panic = None
NextDriver == boot' = [boot EXCEPT !.drv = @ + 1, !.at = "probe"]

-----------------------------------------------------------------------------
(* mainbus_bootstrap.                                                      *)
lamebus_init ==
    /\ Boots("init") /\ BootTo("cpus")
    /\ slotsinuse' = {Controller}
    /\ irqfuncs' = [s \in Slot |-> None] /\ devdata' = [s \in Slot |-> NSlots]
    /\ UNCHANGED <<hw, line, enabled, scan, duds, cpus, service, clock, raised, failed, bus_panic>>

(* The boot CPU is number 0, whichever it is; the others follow in order.  *)
Ascending(S) == [n \in 1..Cardinality(S) |-> CHOOSE c \in S : Cardinality({d \in S : d < c}) = n - 1]

(* Mistake: the CPUs are numbered in the order of the slots.               *)
lamebus_find_cpus_inplace ==
    /\ Boots("cpus") /\ BootTo("probe")
    /\ IF hw.uni THEN UNCHANGED <<allcpus, cirqe>>
       ELSE allcpus' = Ascending(hw.cpus) /\ cirqe' = {hw.self}
    /\ UNCHANGED <<hw, bus, line, enabled, scan, duds, cram, hatched, sem, service, clock, raised,
                   failed, bus_panic>>

lamebus_find_cpus ==
    /\ Boots("cpus") /\ BootTo("probe")
    /\ IF hw.uni THEN UNCHANGED <<allcpus, cirqe>>
       ELSE allcpus' = <<hw.self>> \o Ascending(hw.cpus \ {hw.self}) /\ cirqe' = {hw.self}
    /\ UNCHANGED <<hw, bus, line, enabled, scan, duds, cram, hatched, sem, service, clock, raised,
                   failed, bus_panic>>

(* Each driver in turn is attached to the slots it fits, until none is     *)
(* left or its memory cannot be had.                                       *)
Fits(s) == s \notin slotsinuse /\ hw.dev[s] = Drivers[boot.drv]
FirstFit == CHOOSE s \in Slot : Fits(s) /\ \A r \in Slot : Fits(r) => s <= r

lamebus_probe ==
    /\ Boots("probe") /\ boot.drv <= Len(Drivers)
    /\ IF \E s \in Slot : Fits(s)
       THEN boot' = [boot EXCEPT !.at = "mark", !.slot = FirstFit]
       ELSE NextDriver
    /\ UNCHANGED <<hw, bus, line, enabled, scan, duds, cpus, service, clock, raised, failed, bus_panic>>

attach_nomem ==
    /\ Boots("mark") /\ failed < MaxFailed /\ failed' = failed + 1 /\ NextDriver
    /\ UNCHANGED <<hw, bus, line, enabled, scan, duds, cpus, service, clock, raised, bus_panic>>

lamebus_mark ==
    /\ Boots("mark")
    /\ IF boot.slot \in slotsinuse
       THEN bus_panic' = "slot_in_use" /\ UNCHANGED <<boot, slotsinuse>>
       ELSE /\ slotsinuse' = slotsinuse \cup {boot.slot} /\ UNCHANGED bus_panic
            /\ BootTo(IF hw.dev[boot.slot] \in Interrupting THEN "attach" ELSE "config")
    /\ UNCHANGED <<hw, irqfuncs, devdata, line, enabled, scan, duds, cpus, service, clock, raised,
                   failed>>

lamebus_attach_interrupt ==
    /\ Boots("attach")
    /\ IF boot.slot \notin slotsinuse \/ devdata[boot.slot] # NSlots \/ irqfuncs[boot.slot] # None
       THEN bus_panic' = "slot_not_marked" /\ UNCHANGED <<boot, irqfuncs, devdata>>
       ELSE /\ irqfuncs' = [irqfuncs EXCEPT ![boot.slot] = hw.dev[boot.slot]]
            /\ devdata' = [devdata EXCEPT ![boot.slot] = boot.slot]
            /\ BootTo("config") /\ UNCHANGED bus_panic
    /\ UNCHANGED <<hw, slotsinuse, line, enabled, scan, duds, cpus, service, clock, raised, failed>>

(* config_X and the children of X: only the first rtclock, beep, random    *)
(* and con are used; only the first ltimer is set going.                   *)
Wired(s) ==
    /\ hw.dev[s] \in Interrupting
    /\ hw.dev[s] = "ltimer" => service["rtclock"] = NSlots
Config ==
    /\ Boots("config") /\ BootTo("probe")
    /\ service' = [k \in DOMAIN service |->
                     IF k \in Offers(hw.dev[boot.slot]) /\ service[k] = NSlots THEN boot.slot
                     ELSE service[k]]
    /\ enabled' = IF Wired(boot.slot) THEN enabled \cup {boot.slot} ELSE enabled
    /\ UNCHANGED <<hw, bus, line, scan, duds, cpus, clock, raised, failed, bus_panic>>

(* thread_start_cpus: every other CPU is given the next software number    *)
(* and is waited for.                                                      *)
Rank(c) == Cardinality({d \in hw.cpus \ {hw.self} : d <= c})

lamebus_start_cpus ==
    /\ Boots("probe") /\ boot.drv > Len(Drivers) /\ BootTo("wait")
    /\ cram' = IF hw.uni THEN cram
               ELSE [c \in hw.cpus |-> IF c = hw.self THEN 0 ELSE Rank(c)]
    /\ UNCHANGED <<hw, bus, line, enabled, scan, duds, allcpus, cirqe, hatched, sem, service, clock,
                   raised, failed, bus_panic>>

cpu_hatch(c) ==
    /\ bus_panic = None /\ c \notin hatched /\ cram[c] # 0
    /\ hatched' = hatched \cup {c} /\ sem' = sem + 1
    /\ UNCHANGED <<hw, boot, bus, line, enabled, scan, duds, allcpus, cirqe, cram, service, clock,
                   raised, failed, bus_panic>>

thread_start_cpus ==
    /\ Boots("wait") /\ sem = Len(allcpus) - 1
    /\ BootTo("done") /\ sem' = 0
    /\ UNCHANGED <<hw, bus, line, enabled, scan, duds, allcpus, cirqe, cram, hatched, service, clock,
                   raised, failed, bus_panic>>

-----------------------------------------------------------------------------
(* Devices raise their lines, which stay up until the driver sees to it.   *)
Raise(s) ==
    /\ bus_panic = None /\ s \in enabled \ line /\ raised < MaxRaise
    /\ line' = line \cup {s} /\ raised' = raised + 1
    /\ UNCHANGED <<hw, boot, bus, enabled, scan, duds, cpus, service, clock, failed, bus_panic>>

(* mainbus_interrupt on the boot CPU, once spl0 has let interrupts in; or  *)
(* the bus's bit was up and no slot's line is (a glitch).                  *)
mainbus_interrupt(glitch) ==
    /\ ~scan.on /\ bus_panic = None /\ boot.at \notin {"init", "cpus"}
    /\ IF glitch THEN line = {} /\ failed < MaxFailed /\ failed' = failed + 1
       ELSE line # {} /\ UNCHANGED failed
    /\ scan' = [on |-> TRUE, slot |-> 0, irqs |-> line, duds |-> IF glitch THEN 1 ELSE 0]
    /\ duds' = IF glitch THEN duds + 1 ELSE duds
    /\ UNCHANGED <<hw, boot, bus, line, enabled, cpus, service, clock, raised, bus_panic>>

(* One slot of the loop of lamebus_interrupt.  The handler puts the line   *)
(* of its own softc's slot down, and the lines are read again.             *)
Handled(s) == line \ {devdata[s]}

Skip == scan' = [scan EXCEPT !.slot = @ + 1] /\ UNCHANGED <<line, duds>>
Dud ==
    /\ scan' = [scan EXCEPT !.slot = @ + 1, !.duds = @ + 1] /\ duds' = duds + 1
    /\ UNCHANGED line
Call ==
    /\ line' = Handled(scan.slot)
    /\ scan' = [scan EXCEPT !.slot = @ + 1, !.irqs = line'] /\ UNCHANGED duds

lamebus_interrupt ==
    /\ scan.on /\ bus_panic = None /\ scan.slot < NSlots
    /\ IF scan.slot \notin scan.irqs THEN Skip
       ELSE IF scan.slot \notin slotsinuse \/ irqfuncs[scan.slot] = None THEN Dud
       ELSE Call
    /\ UNCHANGED <<hw, boot, bus, enabled, cpus, service, clock, raised, failed, bus_panic>>

ScanEnd ==
    /\ scan.on /\ bus_panic = None /\ scan.slot = NSlots
    /\ scan' = Idle /\ duds' = IF scan.duds = 0 THEN 0 ELSE duds
    /\ bus_panic' = IF duds' > MaxDuds THEN "too_many_duds" ELSE None
    /\ UNCHANGED <<hw, boot, bus, line, enabled, cpus, service, clock, raised, failed>>

-----------------------------------------------------------------------------
(* ltimer_gettime reads the seconds, the nanoseconds and the seconds       *)
(* again; the clock goes on by d1 and d2 ticks in between.                 *)
Secs(t) == t \div Second
Ticks(t) == t % Second
(* Mistake: the seconds read first are used.                               *)
ltimer_gettime_first(t0, t1, t2) == Secs(t0) * Second + Ticks(t1)
ltimer_gettime(t0, t1, t2) ==
    (IF Ticks(t1) < Small THEN Secs(t2) ELSE Secs(t0)) * Second + Ticks(t1)

gettime(gap, d1, d2) ==
    /\ bus_panic = None /\ boot.at = "done" /\ reads < MaxReads /\ reads' = reads + 1
    /\ IF service["rtclock"] = NSlots
       THEN bus_panic' = "no_clock" /\ UNCHANGED <<now, ts, span>>
       ELSE LET t0 == now + gap IN
            /\ ts' = ltimer_gettime(t0, t0 + d1, t0 + d1 + d2)
            /\ span' = <<t0, t0 + d1 + d2>> /\ now' = t0 + d1 + d2 /\ UNCHANGED bus_panic
    /\ UNCHANGED <<hw, boot, bus, line, enabled, scan, duds, cpus, service, raised, failed>>

(* Nothing to do: the machine has stopped, or is up with its lines down.   *)
StoppedBus ==
    /\ bus_panic # None \/ (boot.at = "done" /\ ~scan.on /\ line = {})
    /\ UNCHANGED varsBus

Booting == \/ lamebus_init \/ lamebus_find_cpus \/ lamebus_probe \/ attach_nomem \/ lamebus_mark
           \/ lamebus_attach_interrupt \/ Config \/ lamebus_start_cpus \/ thread_start_cpus
Scanning == lamebus_interrupt \/ ScanEnd
NextBus ==
    \/ Booting \/ Scanning \/ StoppedBus
    \/ \E c \in hw.cpus : cpu_hatch(c)
    \/ \E s \in Slot : Raise(s)
    \/ \E glitch \in BOOLEAN : mainbus_interrupt(glitch)
    \/ \E gap \in 0..(Second - 1), d1, d2 \in 0..Slow : gettime(gap, d1, d2)

(* The boot CPU goes on executing, takes the interrupts that are pending,  *)
(* and a CPU that has been enabled starts.                                 *)
FairnessBus ==
    /\ WF_varsBus(Booting) /\ WF_varsBus(Scanning) /\ WF_varsBus(mainbus_interrupt(FALSE))
    /\ WF_varsBus(\E c \in hw.cpus : cpu_hatch(c))
SpecBus == InitBus /\ [][NextBus]_varsBus /\ FairnessBus

-----------------------------------------------------------------------------
(* The types, and that the count of duds stays where the panic bounds it:  *)
(* it is reset by a scan without a dud (lamebus.c:562).                    *)
TypeBus ==
    /\ slotsinuse \subseteq Slot /\ irqfuncs \in [Slot -> Interrupting \cup {None}]
    /\ devdata \in [Slot -> 0..NSlots] /\ line \subseteq Slot /\ enabled \subseteq Slot
    /\ scan \in [on : BOOLEAN, slot : 0..NSlots, irqs : SUBSET Slot, duds : 0..NSlots]
    /\ duds \in 0..(MaxDuds + NSlots)
    /\ sem \in 0..Cardinality(hw.cpus) /\ hatched \subseteq hw.cpus
    /\ service \in [DOMAIN service -> 0..NSlots]

(* A CPU that runs under software number n is the one whose hardware       *)
(* number the struct cpu of number n holds, so that an IPI for cpu n       *)
(* reaches it (lamebus_assert_ipi): lamebus_find_cpus and                  *)
(* lamebus_start_cpus number the CPUs apart and must agree.  And boot()    *)
(* goes on only with every CPU up (thread_start_cpus).                     *)
CpusAgree ==
    /\ \A c \in hatched : cram[c] < Len(allcpus) /\ allcpus[cram[c] + 1] = c
    /\ boot.at = "done" /\ ~hw.uni => hatched = hw.cpus \ {hw.self}
    /\ ~hw.uni /\ boot.at \notin {"init", "cpus"} => allcpus[1] = hw.self

(* When the bus is probed every device that has a driver has it, once, and *)
(* its handler will be called with its own softc; nothing else is in use.  *)
(* Only want of memory leaves a device without its driver (attach_nomem).  *)
DevicesAttached ==
    boot.at \in {"wait", "done"} =>
        /\ \A s \in slotsinuse \ {Controller} :
              hw.dev[s] \in Interrupting => irqfuncs[s] = hw.dev[s] /\ devdata[s] = s
        /\ failed = 0 =>
              slotsinuse \ {Controller} =
                  {s \in Slot : \E n \in DOMAIN Drivers : Drivers[n] = hw.dev[s]}

(* The panics of lamebus_mark and lamebus_attach_interrupt are out of      *)
(* reach; the panic about duds takes a line that no handler sees to, up    *)
(* before its driver came or by a device without one, or as many glitches; *)
(* and gettime finds a clock on a machine with an ltimer.                  *)
NoBusPanic ==
    \/ bus_panic = None
    \/ /\ bus_panic = "too_many_duds"
       /\ failed > MaxDuds \/ \E s \in hw.early \cap line : irqfuncs[s] = None
    \/ bus_panic = "no_clock" /\ (failed > 0 \/ \A s \in Slot : hw.dev[s] # "ltimer")

(* What gettime returns is a time between its call and its return, also    *)
(* when the seconds turn over between two reads of the registers.          *)
TimeIsNow == span[1] <= ts /\ ts <= span[2]

(* A line that is up goes down: the handler of its slot is called, however *)
(* many lines are up, or the machine panics for the duds.                  *)
LinesServed == \A s \in Slot : (s \in line) ~> (s \notin line \/ bus_panic # None)

(* The machine comes up or panics: lines that nobody sees to do not keep   *)
(* the boot CPU in lamebus_interrupt for ever.                             *)
ComesUp == <>(boot.at = "done" \/ bus_panic # None)
=============================================================================
