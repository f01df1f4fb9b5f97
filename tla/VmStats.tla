------------------------------ MODULE VmStats -------------------------------
(***************************************************************************)
(* The counters of vm_fault (vm/vmstats.c), next to the steps of Pager at  *)
(* which they are incremented.  print_vm_stat compares sums of them, and   *)
(* prints ERROR if a sum is not what it "should be"; all that is kept here *)
(* of the counters is what these sums differ by.  SF_Writes and            *)
(* TLB_Invalidations are in none of them.                                  *)
(***************************************************************************)
EXTENDS Pager, Integers

VARIABLE off    \* the left side of each line (m) less its right side

(* What a counter adds to the lines: (b) + (c) = (a), (e) + (g) + (f) =    *)
(* (a) and (h) + (i) = (g).  PF_Zeroed, (f), is never incremented.         *)
print_vm_stat ==
    [TLB_Faults          |-> <<-1, -1, 0>>,
     TLB_Faults_wFree    |-> <<1, 0, 0>>,
     TLB_Faults_wReplace |-> <<1, 0, 0>>,
     TLB_Reloads         |-> <<0, 1, 0>>,
     PF_Disk             |-> <<0, 1, -1>>,
     PF_ELF              |-> <<0, 0, 1>>,
     PF_Swapfile         |-> <<0, 0, 1>>]

(* The counters in S are incremented, and a step that increments none.     *)
Count(S) ==
    LET n(i, d) == Cardinality({c \in S : print_vm_stat[c][i] = d})
    IN off' = [i \in 1..3 |-> off[i] + n(i, 1) - n(i, -1)]
Uncounted == UNCHANGED off

(* The beginning of vm_fault.                                              *)
Fault == {"TLB_Faults", IF TLB.freeTLBEntries # 0 THEN "TLB_Faults_wFree" ELSE "TLB_Faults_wReplace"}

(* Mistake: a page from the file is not counted as one from the disk.      *)
FromElf_only == {"PF_ELF"}

(* The ends of vm_fault: a page that was in memory, one that load_elf      *)
(* filled, be it with zeroes, and one that was swapped in.                 *)
Reloaded == {"TLB_Reloads"}
FromElf  == {"PF_ELF", "PF_Disk"}
FromSwap == {"PF_Swapfile", "PF_Disk"}

-----------------------------------------------------------------------------
(* A miss is counted; if the page is in memory the fault ends at once.     *)
CountMiss(p, pg, w) ==
    \/ fault_reload(p, pg, w) /\ Count(Fault \cup IF panicked' = "no" THEN Reloaded ELSE {})
    \/ fault_code(p, pg, w) /\ Count(Fault)
    \/ fault_data_new(p, pg, w) /\ Count(Fault)
    \/ fault_data_swapped(p, pg, w) /\ Count(Fault)

(* VM_FAULT_READONLY takes back what was added before the program exits.   *)
CountStore(p, pg, v) == store(p, pg, v) /\ Uncounted

(* The fault of p, if it is in one, ends with this step.                   *)
Ends(p) == p \notin exec /\ pc'[p] = "user"

(* load_elf copies through the TLB: a miss there, which it fills, is a     *)
(* fault of its own.                                                       *)
CountLoad(p) ==
    \/ load_elf(p) /\ Count((IF TLB' # TLB THEN Fault \cup Reloaded ELSE {})
                            \cup (IF Ends(p) THEN FromElf ELSE {}))
    \/ protect(p) /\ Count(IF Ends(p) THEN FromElf ELSE {})

(* The result of swapIn is not looked at.                                  *)
CountSwapIn(p) == swapIn_read(p) /\ Count(FromSwap)

(* The steps at which nothing is counted that print_vm_stat compares.      *)
KernelUncounted(p) ==
    /\ \/ proc_create(p) \/ thread_switch(p) \/ runprogram(p) \/ as_activate_done(p)
       \/ as_define_region(p) \/ swapOut(p) \/ swapOut_done(p) \/ alloc_again(p) \/ swapIn(p)
       \/ as_destroy(p) \/ as_destroy_done(p) \/ sys__exit(p)
    /\ Uncounted

InitStats == Init /\ off = <<0, 0, 0>>
NextStats ==
    \/ \E p \in Proc :
         \/ \E pg \in Page, w \in {"read", "write"} : CountMiss(p, pg, w)
         \/ \E pg \in Page, v \in Value : CountStore(p, pg, v)
         \/ CountLoad(p) \/ CountSwapIn(p) \/ KernelUncounted(p)
    \/ (kernel_alloc \/ (\E f \in Frame : kernel_free(f)) \/ halted \/ idle) /\ Uncounted
SpecStats == InitStats /\ [][NextStats]_<<vars, off>>

-----------------------------------------------------------------------------
(* Properties *)

(* The thread of p is inside a vm_fault that has not ended.                *)
InFault(p) ==
    p \notin exec /\ pc[p] \in {"alloc", "load", "loaded", "swapOut", "swapped", "swapIn", "readIn"}

(* The lines of print_vm_stat say OK: each TLB miss is counted once by     *)
(* whether the TLB had room and once, when vm_fault ends, by where the     *)
(* page came from, also the misses inside load_elf, and those that end the *)
(* program not at all; only faults that have not ended are still missing.  *)
StatsAddUp ==
    panicked = "no" => off = <<0, -Cardinality({p \in Proc : InFault(p)}), 0>>
=============================================================================
