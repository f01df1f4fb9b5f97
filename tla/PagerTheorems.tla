--------------------------- MODULE PagerTheorems ----------------------------
(***************************************************************************)
(* What holds of Pager: for any number of processes, with disk errors, and *)
(* more when programs run one after the other without.                     *)
(***************************************************************************)
EXTENDS PagerAloneProofs, MemoryProofs, VmStats, FiniteSetTheorems, WellFoundedInduction

(* A nonempty set of numbers has a least one.                              *)
LEMMA LeastExists ==
    ASSUME NEW S \in SUBSET Nat, S # {}
    PROVE  \E n \in S : \A m \in S : n <= m
<1> DEFINE LT == {ss \in Nat \X Nat : ss[1] < ss[2]}
<1>1. IsWellFoundedOn(LT, Nat)
  BY Zenon, NatLessThanWellFounded DEF OpToRel
<1>2. PICK x \in S : \A y \in S : ~ (<<y, x>> \in LT)
  <2> HIDE DEF LT
  <2> QED BY Zenon, <1>1, WFMin
<1>3. \A y \in S : x <= y
  <2> SUFFICES ASSUME NEW y \in S PROVE x <= y BY Zenon
  <2>1. x \in Nat /\ y \in Nat BY Zenon
  <2>2. <<y, x>> \notin LT BY Zenon, <1>2
  <2>3. ~(y < x) BY Zenon, <2>1, <2>2
  <2> QED BY <2>1, <2>3
<1> QED BY Zenon, <1>3

(* What the lemmas assume of numbers and finite sets.                      *)
LEMMA CountingHolds == Counting
<1>1. \A a, b \in Nat : IsFiniteSet(a..b) /\ Cardinality(a..b) = IF a > b THEN 0 ELSE b - a + 1
  BY FS_Interval
<1>2. \A S : IsFiniteSet(S) => Cardinality(S) \in Nat /\ (Cardinality(S) = 0 <=> S = {})
  BY Zenon, FS_CardinalityType, FS_EmptySet
<1>3. \A S : IsFiniteSet(S) => \A T \in SUBSET S : IsFiniteSet(T) /\ Cardinality(T) <= Cardinality(S)
  BY Zenon, FS_Subset
<1>4. \A S, x : IsFiniteSet(S) /\ x \notin S => Cardinality(S \cup {x}) = Cardinality(S) + 1
  BY Zenon, FS_AddElement
<1>5. \A S, x : IsFiniteSet(S) /\ x \in S => Cardinality(S \ {x}) = Cardinality(S) - 1
  BY Zenon, FS_RemoveElement
<1>6. Cardinality({}) = 0 /\ \A x : Cardinality({x}) = 1
  BY Zenon, FS_EmptySet, FS_Singleton
<1> QED BY Zenon, <1>1, <1>2, <1>3, <1>4, <1>5, <1>6, LeastExists DEF Counting

-----------------------------------------------------------------------------
(* Any processes *)

(* The invariant holds for any number of frames, slots, TLB entries, pages *)
(* and processes, as long as the pids have not wrapped around.             *)
THEOREM Invariance == ASSUME MaxProgs < PidSpace PROVE Spec => []IInv
<1>1. Init => IInv
  BY Zenon, InitIInv
<1>2. IInv /\ [Next]_vars => IInv'
  BY Zenon, NextIInv, CountingHolds
<1> QED BY <1>1, <1>2, PTL DEF Spec

(* Type correctness of the whole of the paging state: every action of      *)
(* vm_fault, swapping, loading and exit leaves it well formed.             *)
THEOREM PagerType == ASSUME MaxProgs < PidSpace PROVE Spec => []TypeOK
<1>1. IInv => TypeOK
  BY Zenon DEF IInv
<1> QED BY <1>1, Invariance, PTL

(* No frame is ever lost, shared or freed twice, and the panics of         *)
(* alloc_kpages and free_kpages cannot fire.                               *)
THEOREM FrameAccounting == ASSUME MaxProgs < PidSpace PROVE Spec => []FramesAccounted
<1>1. IInv => FramesAccounted
  BY Zenon DEF IInv, FreeInv, KernelInv, NoFramePanic, FramesAccounted
<1> QED BY <1>1, Invariance, PTL

(* The frame that swapOut or load_segment works on is still the faulting   *)
(* process's own after every preemption and disk operation.                *)
THEOREM FramesKeptAcrossIO == ASSUME MaxProgs < PidSpace PROVE Spec => []FrameKept
<1>1. IInv => FrameKept
  BY Zenon DEF IInv, WorkInv, Kept, FrameKept
<1> QED BY <1>1, Invariance, PTL

-----------------------------------------------------------------------------
(* One program at a time *)

LEMMA InitAlone == ASSUME NEW p, Alone(p), Init PROVE AInv(p)
  BY InitIInv, InitPlace, CountingHolds DEF Alone, AInv

LEMMA NextAlone == ASSUME NEW p, Alone(p), AInv(p), [Next]_vars PROVE AInv(p)'
  BY NextIInv, NextPlace, CountingHolds DEF Alone, AInv

(* The inductive invariant holds in every reachable state.                 *)
THEOREM AloneInvariant == ASSUME NEW p, Alone(p) PROVE Spec => []AInv(p)
<1>1. Init => AInv(p)
  BY InitAlone
<1>2. AInv(p) /\ [Next]_vars => AInv(p)'
  BY NextAlone
<1> QED BY <1>1, <1>2, PTL DEF Spec

(* TLB and page table agree: when a program runs, freeTLBEntries is the    *)
(* number of unused entries; always, an entry leads to the one frame of    *)
(* its page, no page has two, and addTLB does not panic.                   *)
THEOREM TLBStaysSound == ASSUME NEW p, Alone(p) PROVE Spec => []TLBSound
<1>1. AInv(p) => TLBSound
  BY TLBIsSound
<1>2. Spec => []AInv(p)
  BY AloneInvariant
<1> QED BY <1>1, <1>2, PTL

(* A page of the program is in one frame or in one slot, and in both only  *)
(* while swapIn reads it; every frame is given back at the end, and a new  *)
(* program finds nothing under its pid in the swap file.                   *)
THEOREM PagesStayKept == ASSUME NEW p, Alone(p) PROVE Spec => []PagesKept
<1>1. AInv(p) => PagesKept
  BY PagesAreKept, CountingHolds
<1>2. Spec => []AInv(p)
  BY AloneInvariant
<1> QED BY <1>1, <1>2, PTL

(* Without kernel threads that allocate, the frame swapOut or fault_code   *)
(* has freed is there for the allocation that follows, although vm_fault   *)
(* does not test its result.                                               *)
THEOREM FaultGetsItsFrame == ASSUME NEW p, Alone(p), KMax = 0 PROVE Spec => []FrameForFault
<1>1. Init => AInv(p) /\ RoomInv(p)
  <2>1. Init => RoomInv(p) BY DEF Init, RoomInv, FrameForFault, Alone
  <2> QED BY <2>1, InitAlone
<1>2. AInv(p) /\ RoomInv(p) /\ [Next]_vars => AInv(p)' /\ RoomInv(p)'
  BY NextAlone, RoomStep, CountingHolds
<1>3. RoomInv(p) => FrameForFault
  BY DEF RoomInv
<1> QED BY <1>1, <1>2, <1>3, PTL DEF Spec

LEMMA InitCInv == ASSUME NEW CONSTANT p, Reads(p), Init PROVE CInv(p) /\ ~Alive(p)
<1>1. AInv(p)
  BY InitAlone DEF Reads
<1> QED BY <1>1, InitContents

LEMMA NextCInv ==
    ASSUME NEW CONSTANT p, Reads(p), CInv(p), [Next]_vars
    PROVE  CInv(p)' /\ [Promise!Next]_(Promise!vars)
<1>1. AInv(p)'
  BY NextAlone DEF Reads, CInv
<1>2. CInv(p)' /\ MemStep(p)
  BY <1>1, NextContents, CountingHolds
<1> QED BY <1>2, StepRefines

(* Demand loading, swapping and page replacement are invisible to the      *)
(* program: every page always holds the ELF image or the last value stored *)
(* in it, wherever vm_fault has put it.                                    *)
THEOREM MemoryRefined == ASSUME NEW CONSTANT p, Reads(p) PROVE Spec => MemoryKept
<1>1. Init => CInv(p) /\ Promise!Init
  BY InitCInv, InitRefines
<1>2. CInv(p) /\ [Next]_vars => CInv(p)' /\ [Promise!Next]_(Promise!vars)
  BY NextCInv
<1> QED BY <1>1, <1>2, PTL DEF Spec, MemoryKept, Promise!Spec

-----------------------------------------------------------------------------
(* The counters of vm_fault *)

(* The sums differ by the fault the program is in, if it is in one.        *)
SInv(p) == panicked = "no" => off = <<0, IF InFault(p) THEN -1 ELSE 0, 0>>

(* The counters in S that add d to line i.                                 *)
Adds(S, i, d) == {c \in S : print_vm_stat[c][i] = d}

(* Count, line by line.                                                    *)
Sums(x, S) ==
    <<0 + Cardinality(Adds(S, 1, 1)) - Cardinality(Adds(S, 1, -1)),
      x + Cardinality(Adds(S, 2, 1)) - Cardinality(Adds(S, 2, -1)),
      0 + Cardinality(Adds(S, 3, 1)) - Cardinality(Adds(S, 3, -1))>>

LEMMA CountIs == ASSUME NEW S, NEW x, off = <<0, x, 0>>, Count(S) PROVE off' = Sums(x, S)
<1>1. off' = [i \in 1..3 |-> off[i] + Cardinality(Adds(S, i, 1)) - Cardinality(Adds(S, i, -1))]
  BY Zenon DEF Count, Adds
<1> QED BY <1>1 DEF Sums

(* The three lines, counter by counter.                                    *)
LEMMA Lines ==
    /\ print_vm_stat["TLB_Faults"] = <<-1, -1, 0>>
    /\ print_vm_stat["TLB_Faults_wFree"] = <<1, 0, 0>> /\ print_vm_stat["TLB_Faults_wReplace"] = <<1, 0, 0>>
    /\ print_vm_stat["TLB_Reloads"] = <<0, 1, 0>> /\ print_vm_stat["PF_Disk"] = <<0, 1, -1>>
    /\ print_vm_stat["PF_ELF"] = <<0, 0, 1>> /\ print_vm_stat["PF_Swapfile"] = <<0, 0, 1>>
  BY DEF print_vm_stat

(* A miss that is not served yet, one that is served at once, and the two  *)
(* ends of the others.                                                     *)
LEMMA CountSets ==
    ASSUME NEW x \in Int, off = <<0, x, 0>>
    PROVE  /\ Count(Fault) => off' = <<0, x - 1, 0>>
           /\ Count(Fault \cup Reloaded) => off' = off
           /\ Count(FromElf) => off' = <<0, x + 1, 0>>
           /\ Count(FromSwap) => off' = <<0, x + 1, 0>>
           /\ Count({}) => off' = off
<1> DEFINE F == IF TLB.freeTLBEntries # 0 THEN "TLB_Faults_wFree" ELSE "TLB_Faults_wReplace"
<1>1. Fault = {"TLB_Faults", F} /\ F \in {"TLB_Faults_wFree", "TLB_Faults_wReplace"}
  BY Zenon DEF Fault
<1>2. print_vm_stat[F] = <<1, 0, 0>> /\ F # "TLB_Faults" /\ F # "TLB_Reloads"
  BY <1>1, Lines
<1> HIDE DEF F
<1>3. Cardinality({}) = 0 /\ \A c : Cardinality({c}) = 1
  BY Zenon, FS_EmptySet, FS_Singleton
<1>4. Count(Fault) => off' = <<0, x - 1, 0>>
  <2>1. /\ Adds(Fault, 1, 1) = {F} /\ Adds(Fault, 1, -1) = {"TLB_Faults"}
        /\ Adds(Fault, 2, 1) = {} /\ Adds(Fault, 2, -1) = {"TLB_Faults"}
        /\ Adds(Fault, 3, 1) = {} /\ Adds(Fault, 3, -1) = {}
    BY <1>1, <1>2, Lines DEF Adds
  <2>2. Sums(x, Fault) = <<0 + 1 - 1, x + 0 - 1, 0 + 0 - 0>>
    BY Zenon, <1>3, <2>1 DEF Sums
  <2> QED BY <2>2, CountIs
<1>5. Count(Fault \cup Reloaded) => off' = off
  <2> DEFINE S == Fault \cup Reloaded
  <2>1. /\ Adds(S, 1, 1) = {F} /\ Adds(S, 1, -1) = {"TLB_Faults"}
        /\ Adds(S, 2, 1) = {"TLB_Reloads"} /\ Adds(S, 2, -1) = {"TLB_Faults"}
        /\ Adds(S, 3, 1) = {} /\ Adds(S, 3, -1) = {}
    BY <1>1, <1>2, Lines DEF Adds, Reloaded
  <2> HIDE DEF S
  <2>2. Sums(x, S) = <<0 + 1 - 1, x + 1 - 1, 0 + 0 - 0>>
    BY Zenon, <1>3, <2>1 DEF Sums
  <2> QED BY <2>2, CountIs DEF S
<1>6. Count(FromElf) => off' = <<0, x + 1, 0>>
  <2>1. /\ Adds(FromElf, 1, 1) = {} /\ Adds(FromElf, 1, -1) = {}
        /\ Adds(FromElf, 2, 1) = {"PF_Disk"} /\ Adds(FromElf, 2, -1) = {}
        /\ Adds(FromElf, 3, 1) = {"PF_ELF"} /\ Adds(FromElf, 3, -1) = {"PF_Disk"}
    BY Lines DEF Adds, FromElf
  <2>2. Sums(x, FromElf) = <<0 + 0 - 0, x + 1 - 0, 0 + 1 - 1>>
    BY Zenon, <1>3, <2>1 DEF Sums
  <2> QED BY <2>2, CountIs
<1>7. Count(FromSwap) => off' = <<0, x + 1, 0>>
  <2>1. /\ Adds(FromSwap, 1, 1) = {} /\ Adds(FromSwap, 1, -1) = {}
        /\ Adds(FromSwap, 2, 1) = {"PF_Disk"} /\ Adds(FromSwap, 2, -1) = {}
        /\ Adds(FromSwap, 3, 1) = {"PF_Swapfile"} /\ Adds(FromSwap, 3, -1) = {"PF_Disk"}
    BY Lines DEF Adds, FromSwap
  <2>2. Sums(x, FromSwap) = <<0 + 0 - 0, x + 1 - 0, 0 + 1 - 1>>
    BY Zenon, <1>3, <2>1 DEF Sums
  <2> QED BY <2>2, CountIs
<1>8. Count({}) => off' = off
  <2>1. \A i, d : Adds({}, i, d) = {}
    BY Zenon DEF Adds
  <2>2. Sums(x, {}) = <<0 + 0 - 0, x + 0 - 0, 0 + 0 - 0>>
    BY Zenon, <1>3, <2>1 DEF Sums
  <2> QED BY <2>2, CountIs
<1> QED BY Zenon, <1>4, <1>5, <1>6, <1>7, <1>8

(* A miss of the program: it is in a fault if the page was not in memory.  *)
LEMMA MissCounted ==
    ASSUME NEW p, Alone(p), AInv(p), SInv(p), NEW pg \in Page, NEW w, CountMiss(p, pg, w)
    PROVE  SInv(p)'
<1>1. p \in Proc /\ RestOK /\ PhaseInv(p)
  BY Zenon, Basics DEF AInv, PlaceInv
<1>2. pc[p] = "user" /\ panicked = "no" /\ exec' = exec
  BY Zenon DEF CountMiss, fault_reload, fault_code, fault_data_new, fault_data_swapped, Miss, Running, procvars
<1>3. p \notin exec /\ off = <<0, 0, 0>>
  BY Zenon, <1>1, <1>2 DEF PhaseInv, SInv, InFault
<1>4. SUFFICES ASSUME panicked' = "no" PROVE SInv(p)'
  BY Zenon DEF SInv
<1>5. CASE fault_reload(p, pg, w) /\ Count(Fault \cup Reloaded)
  <2>1. off' = off
    BY <1>3, <1>5, CountSets
  <2>2. pc' = pc
    BY Zenon, <1>5 DEF fault_reload
  <2> QED BY Zenon, <1>2, <1>3, <2>1, <2>2 DEF SInv, InFault
<1>6. CASE Count(Fault) /\ pc'[p] \in {"alloc", "load", "swapOut"}
  <2>1. off' = <<0, -1, 0>>
    BY <1>3, <1>6, CountSets
  <2> QED BY Zenon, <1>2, <1>3, <1>6, <2>1 DEF SInv, InFault
<1>7. fault_code(p, pg, w) \/ fault_data_new(p, pg, w) \/ fault_data_swapped(p, pg, w)
      => pc'[p] \in {"alloc", "load", "swapOut"}
  BY Zenon, <1>1, <1>4 DEF fault_code, fault_data_new, fault_data_swapped, swapOut_begin, Goto, panic, RestOK
<1> QED BY Zenon, <1>4, <1>5, <1>6, <1>7 DEF CountMiss

(* load_elf: a miss on the way is counted apart, and the fault of a page   *)
(* of the bss segment ends.                                                *)
LEMMA LoadCounted ==
    ASSUME NEW p, Alone(p), AInv(p), SInv(p), CountLoad(p)
    PROVE  SInv(p)'
<1>1. p \in Proc /\ panicked = "no" /\ pc[p] \in {"load", "loaded"}
  BY Zenon, Basics DEF CountLoad, load_elf, protect, Running, AInv
<1>2. off = <<0, IF p \in exec THEN 0 ELSE -1, 0>>
  BY Zenon, <1>1 DEF SInv, InFault
<1>3. CASE load_elf(p) /\ Count((IF TLB' # TLB THEN Fault \cup Reloaded ELSE {})
                               \cup (IF Ends(p) THEN FromElf ELSE {}))
  <2>1. PICK i \in Index : LoadCase(p, i)
    BY Zenon, <1>3, LoadCases, CountingHolds
  <2>2. CASE p \notin exec /\ pc'[p] = "user" /\ exec' = exec /\ TLB' = TLB
    <3>1. Count(FromElf)
      <4>1. {} \cup FromElf = FromElf BY Zenon
      <4> QED BY Zenon, <1>3, <2>2, <4>1 DEF Ends
    <3>2. off = <<0, -1, 0>> BY Zenon, <1>2, <2>2
    <3>3. off' = <<0, 0, 0>>
      BY <3>1, <3>2, CountSets
    <3> QED BY Zenon, <2>2, <3>3 DEF SInv, InFault
  <2>3. CASE /\ exec' = exec
             /\ pc'[p] \in {"load", "loaded"} \/ (p \in exec /\ pc'[p] = "exit")
    <3>1. ~Ends(p) BY Zenon, <2>3 DEF Ends
    <3>2. off' = off
      <4>1. \A S : S \cup {} = S BY Zenon
      <4>2. Count(Fault \cup Reloaded) \/ Count({}) BY Zenon, <1>3, <3>1, <4>1
      <4> QED BY <1>2, <4>2, CountSets
    <3> QED BY Zenon, <1>2, <2>3, <3>2 DEF SInv, InFault
  <2>4. pc[p] = "load" BY Zenon, <1>3 DEF load_elf, Running
  <2>5. exec' = exec BY Zenon, <2>1 DEF LoadCase
  <2>6. \/ p \notin exec /\ pc'[p] = "user" /\ TLB' = TLB
        \/ p \in exec /\ pc'[p] = "exit"
        \/ pc'[p] \in {"load", "loaded"}
    BY Zenon, <2>1, <2>4 DEF LoadCase
  <2> QED BY Zenon, <2>2, <2>3, <2>5, <2>6
<1>4. CASE protect(p) /\ Count(IF Ends(p) THEN FromElf ELSE {})
  <2>1. \/ p \in exec /\ pc'[p] = "load" /\ exec' = exec
        \/ pc'[p] = "user" /\ exec' = exec \ {p}
    BY Zenon, <1>4, ProtectCases, CountingHolds
  <2>2. CASE p \in exec
    <3>1. Count({}) BY Zenon, <1>4, <2>2 DEF Ends
    <3>2. off = <<0, 0, 0>> BY Zenon, <1>2, <2>2
    <3>3. off' = off BY <3>1, <3>2, CountSets
    <3> QED BY Zenon, <2>1, <2>2, <3>2, <3>3 DEF SInv, InFault
  <2>3. CASE p \notin exec
    <3>1. Count(FromElf) BY Zenon, <1>4, <2>1, <2>3 DEF Ends
    <3>2. off = <<0, -1, 0>> BY Zenon, <1>2, <2>3
    <3>3. off' = <<0, 0, 0>> BY <3>1, <3>2, CountSets
    <3> QED BY Zenon, <2>1, <2>3, <3>3 DEF SInv, InFault
  <2> QED BY Zenon, <2>2, <2>3
<1> QED BY Zenon, <1>3, <1>4 DEF CountLoad

(* The page is back from the swap file.                                    *)
LEMMA SwapInCounted ==
    ASSUME NEW p, Alone(p), AInv(p), SInv(p), CountSwapIn(p)
    PROVE  SInv(p)'
<1>1. p \in Proc /\ RestOK /\ PhaseInv(p)
  BY Zenon, Basics DEF AInv, PlaceInv
<1>2. pc[p] = "readIn" /\ panicked = "no" /\ Count(FromSwap) /\ pc'[p] = "user"
  BY Zenon, <1>1 DEF CountSwapIn, swapIn_read, Running, Resume, Goto, RestOK
<1>3. off = <<0, -1, 0>>
  BY Zenon, <1>1, <1>2 DEF PhaseInv, SInv, InFault
<1>4. off' = <<0, 0, 0>>
  BY <1>2, <1>3, CountSets
<1> QED BY Zenon, <1>2, <1>4 DEF SInv, InFault

(* The other steps neither enter nor leave a fault.                        *)
LEMMA OthersCounted ==
    ASSUME NEW p, Alone(p), AInv(p), SInv(p), off' = off,
           \/ KernelUncounted(p) \/ \E pg \in Page, v \in Value : CountStore(p, pg, v)
           \/ kernel_alloc \/ (\E f \in Frame : kernel_free(f)) \/ UNCHANGED vars
    PROVE  SInv(p)'
<1>1. p \in Proc /\ RestOK /\ PhaseInv(p)
  BY Zenon, Basics DEF AInv, PlaceInv
<1>2. SUFFICES ASSUME panicked' = "no" PROVE panicked = "no" /\ (InFault(p)' <=> InFault(p))
  BY Zenon DEF SInv
<1>3. CASE kernel_alloc \/ (\E f \in Frame : kernel_free(f)) \/ UNCHANGED vars
  BY Zenon, <1>2, <1>3 DEF kernel_alloc, kernel_free, vars, procvars, InFault
<1>4. CASE \E pg \in Page, v \in Value : CountStore(p, pg, v)
  BY Zenon, <1>1, <1>4 DEF CountStore, store, Running, Goto, procvars, InFault, RestOK
<1>5. CASE KernelUncounted(p)
  <2>1. CASE proc_create(p) \/ thread_switch(p) \/ as_activate_done(p) \/ sys__exit(p)
    BY Zenon, <1>1, <2>1 DEF proc_create, thread_switch, as_activate_done, sys__exit, Running, Goto, procvars,
       InFault, RestOK
  <2>2. CASE runprogram(p) \/ as_destroy_done(p)
    BY Zenon, <1>1, <2>2 DEF runprogram, thread_exit, as_destroy_done, Running, Goto, InFault, RestOK
  <2>3. CASE as_define_region(p)
    <3>1. p \in exec /\ exec' = exec /\ panicked = "no"
      BY Zenon, <1>1, <2>3 DEF as_define_region, Running, procvars, AInv, IInv, WorkInv, Work
    <3> QED BY Zenon, <3>1 DEF InFault
  <2>4. CASE as_destroy(p)
    BY Zenon, <1>1, <2>4 DEF as_destroy, Running, Goto, procvars, InFault, RestOK
  <2>5. CASE swapOut(p) \/ swapOut_done(p) \/ alloc_again(p) \/ swapIn(p)
    <3>1. /\ panicked = "no" /\ exec' = exec /\ pc[p] \in {"swapOut", "swapped", "alloc", "swapIn"}
          /\ pc'[p] \in {"swapped", "alloc", "swapIn", "load", "readIn"}
      BY Zenon, <1>1, <1>2, <2>5 DEF swapOut, swapOut_done, alloc_again, swapIn, Running, Goto, procvars, panic,
         Alone, RestOK
    <3> QED BY Zenon, <3>1 DEF InFault
  <2> QED BY Zenon, <1>5, <2>1, <2>2, <2>3, <2>4, <2>5 DEF KernelUncounted
<1> QED BY Zenon, <1>3, <1>4, <1>5

(* The sums of print_vm_stat agree whenever no fault is being served, and  *)
(* differ by that fault otherwise, for any number of frames, pages, swap   *)
(* slots and TLB entries.                                                  *)
THEOREM CountersAddUp == ASSUME NEW p, Alone(p) PROVE SpecStats => []StatsAddUp
<1>1. InitStats => AInv(p) /\ SInv(p)
  <2>1. InitStats => SInv(p) BY Zenon DEF InitStats, Init, SInv, InFault, Alone
  <2> QED BY Zenon, <2>1, InitAlone DEF InitStats
<1>2. AInv(p) /\ SInv(p) /\ [NextStats]_<<vars, off>> => AInv(p)' /\ SInv(p)'
  <2> SUFFICES ASSUME AInv(p), SInv(p), [NextStats]_<<vars, off>> PROVE AInv(p)' /\ SInv(p)'
    BY Zenon
  <2>1. Proc = {p} BY Zenon DEF Alone
  <2>2. [Next]_vars
    BY Zenon DEF NextStats, CountMiss, CountStore, CountLoad, CountSwapIn, KernelUncounted, Next, KernelStep,
       UserStep
  <2>3. SInv(p)'
    BY Zenon, <2>1, MissCounted, LoadCounted, SwapInCounted, OthersCounted
       DEF NextStats, CountStore, KernelUncounted, Uncounted, halted, idle
  <2> QED BY Zenon, <2>2, <2>3, NextAlone
<1>3. AInv(p) /\ SInv(p) => StatsAddUp
  <2>1. Proc = {p} BY Zenon DEF Alone
  <2>2. Cardinality({q \in Proc : InFault(q)}) = IF InFault(p) THEN 1 ELSE 0
    <3>1. CASE InFault(p)
      <4>1. {q \in Proc : InFault(q)} = {p} BY Zenon, <2>1, <3>1
      <4> QED BY Zenon, <3>1, <4>1, FS_Singleton
    <3>2. CASE ~InFault(p)
      <4>1. {q \in Proc : InFault(q)} = {} BY Zenon, <2>1, <3>2
      <4> QED BY Zenon, <3>2, <4>1, FS_EmptySet
    <3> QED BY Zenon, <3>1, <3>2
  <2>3. -(IF InFault(p) THEN 1 ELSE 0) = IF InFault(p) THEN -1 ELSE 0
    OBVIOUS
  <2> QED BY Zenon, <2>2, <2>3 DEF SInv, StatsAddUp
<1> QED BY <1>1, <1>2, <1>3, PTL DEF SpecStats

=============================================================================
