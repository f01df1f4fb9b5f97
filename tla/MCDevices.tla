----------------------------- MODULE MCDevices ------------------------------
(* The devices, for TLC.                                                   *)
EXTENDS Devices

(* Requests within the disk, past its end, and so far past it that the     *)
(* sum in the check overflows.                                             *)
R(w, s, n) == [write |-> w, sector |-> s, len |-> n]
SomeRequests == {R(TRUE, 0, 2), R(FALSE, 1, 1), R(FALSE, 0, 2), R(TRUE, 1, 2), R(FALSE, 3, 1)}

OneLine == <<"x", "nl">>

(* A machine with two timers and three CPUs, the boot CPU not the first;   *)
(* two with a line up before there is a driver, or with no driver for it;  *)
(* and one without a timer.                                                *)
M(d0, d1, d2, cs, self, uni, early) ==
    [dev |-> [s \in 0..3 |-> CASE s = 0 -> d0 [] s = 1 -> d1 [] s = 2 -> d2 [] OTHER -> "bus"],
     cpus |-> cs, self |-> self, uni |-> uni, early |-> early]
SomeMachines == {M("lser", "ltimer", "ltimer", {0, 1, 2}, 1, FALSE, {}),
                 M("ltimer", "lser", "lrandom", {0, 2}, 0, FALSE, {1}),
                 M("lser", "net", "ltimer", {0}, 0, TRUE, {1}),
                 M("lser", "lser", "none", {1, 3}, 3, FALSE, {})}
AutoconfOrder == <<"lrandom", "ltimer", "lser">>

(* The fairness of Disk, Console and Bus: a conjunct here has one of each, *)
(* for only one of the three ever takes steps.                             *)
Fair(d, c, b) ==
    /\ UNCHANGED which
    /\ \/ which = "disk" /\ d /\ UNCHANGED <<varsConsole, varsBus>>
       \/ which = "console" /\ c /\ UNCHANGED <<varsDisk, varsBus>>
       \/ which = "bus" /\ b /\ UNCHANGED <<varsDisk, varsConsole>>
FairnessDevices ==
    /\ WF_varsDevices(Fair(CardWorks \/ CardRefuses, PortSends, Booting))
    /\ WF_varsDevices(Fair(lhd_irq, Interrupt, Scanning))
    /\ WF_varsDevices(Fair(Step("t1"), Prints("w"), mainbus_interrupt(FALSE)))
    /\ WF_varsDevices(Fair(Step("t2"), Prints("k"), \E c \in hw.cpus : cpu_hatch(c)))
    /\ WF_varsDevices(Fair(FALSE, BootPrints, FALSE))
SpecDevices == SafetyDevices /\ FairnessDevices

-----------------------------------------------------------------------------
(* Every request to the disk comes to an end, everybody who prints gets    *)
(* done, an interrupt line that is up goes down, and the machine comes up: *)
(* the last two unless it panics (lhd_io, con_print, lser_writepolled,     *)
(* lamebus_interrupt and boot).                                            *)
RequestsEnd ==
    /\ \A t \in {"t1", "t2"} :
          (which = "disk" /\ pc[t] # "idle") ~> (which = "disk" /\ pc[t] = "idle")
    /\ which = "console" ~> (which = "console" /\ AllPrinted)
    /\ \A s \in 0..3 : (which = "bus" /\ s \in line)
                           ~> (which = "bus" /\ (s \notin line \/ bus_panic # None))
    /\ which = "bus" ~> (which = "bus" /\ (boot.at = "done" \/ bus_panic # None))
=============================================================================
