------------------------------ MODULE PagerInv ------------------------------
(***************************************************************************)
(* The inductive invariants of Pager.  IInv is kept by any number of       *)
(* processes, with disk errors; AInv also says where the pages of the      *)
(* program are, when programs run one after the other.                     *)
(*                                                                         *)
(* FramesAccounted and FrameKept are not inductive.  What makes them so is *)
(* that a free frame has no owner (CleanInv: victim_pageSearch does not    *)
(* test Valid), that running processes have different pids, none of them   *)
(* the kernel's (PidInv: so as_destroy, fault_code and swapOut free only   *)
(* frames of their own process), and what each thread has chosen (Work).   *)
(*                                                                         *)
(* Nor are TLBSound and PagesKept.  AInv adds that pages of the program    *)
(* are in one frame each and in no slot with it (FrameInv, SlotInv), what  *)
(* is known of the page at hand at each point of vm_fault and runprogram   *)
(* (PhaseInv), and that TLB and page table agree also when no program runs *)
(* (TLBInv).                                                               *)
(***************************************************************************)
EXTENDS Pager

-----------------------------------------------------------------------------
(* Any processes *)

MemOK ==
    frame_list \in Seq(Frame) /\ main_PG \in [Frame -> PTE] /\ ram \in [Frame -> Content]

TLBOK(T) ==
    T \in [ent : [Index -> Entry], freeTLBEntries : 0..(CountSpace - 1), next_victim : Index]

(* TypeOK but for the memory and the TLB.                                  *)
RestOK ==
    /\ sf_list \in [Slot -> SwapEnt]
    /\ disk \in [Slot -> Content]
    /\ TLB_PID \in {0, 1}
    /\ cur \in Proc \cup {NoProc}
    /\ next_free_pid \in Pid
    /\ progs \in 0..MaxProgs
    /\ kpages \in SUBSET Frame
    /\ pc \in [Proc -> Points]
    /\ p_pid \in [Proc -> Pid]
    /\ fpage \in [Proc -> Page \cup {0}]
    /\ ftype \in [Proc -> {"read", "write"}]
    /\ exec \in SUBSET Proc
    /\ victim \in [Proc -> Frame \cup {0}]
    /\ slot \in [Proc -> Slot \cup {0}]
    /\ index \in [Proc -> Slot \cup {0}]
    /\ panicked \in Panics

FreeInv ==
    /\ \A i, j \in 1..Len(frame_list) : frame_list[i] = frame_list[j] => i = j
    /\ \A f \in Frame : main_PG[f].Valid = 0 <=> f \in Listed

(* A free frame has no owner, so victim_pageSearch, which does not test    *)
(* Valid, passes it over.                                                  *)
CleanInv == \A f \in Frame : main_PG[f].Valid = 0 => main_PG[f].pid = 0

KernelInv == \A f \in kpages : main_PG[f].Valid = 1 /\ main_PG[f].pid = 0

MemInv == MemOK /\ FreeInv /\ CleanInv /\ KernelInv

(* Pids are given in order, so those of running processes differ and none  *)
(* of them is the kernel's.                                                *)
PidInv ==
    /\ progs < MaxProgs => next_free_pid = progs + 1
    /\ \A p \in Proc : pc[p] # "none" => p_pid[p] \in 1..progs
    /\ \A p, q \in Proc : p # q /\ pc[p] # "none" /\ pc[q] # "none" => p_pid[p] # p_pid[q]

(* What a thread inside the kernel has already chosen.                     *)
Work(p) ==
    /\ pc[p] \notin {"none", "exec", "user", "exit", "purged"} => fpage[p] \in Page
    /\ pc[p] \in {"swapOut", "swapped", "readIn"} => victim[p] \in Frame
    /\ pc[p] \in {"swapOut", "swapped"} => slot[p] \in Slot
    /\ pc[p] \in {"swapIn", "readIn"} => index[p] \in Slot
    /\ pc[p] \in {"activate", "define"} => p \in exec

Kept(p) ==
    /\ pc[p] \in {"swapOut", "swapped"} =>
          /\ main_PG[victim[p]].Valid = 1 /\ main_PG[victim[p]].pid = p_pid[p]
          /\ main_PG[victim[p]].page_number \in Data
    /\ pc[p] \in {"load", "loaded"} /\ p \notin exec =>
          FramesOf(main_PG, fpage[p], p_pid[p]) # {}

WorkInv == \A p \in Proc : Work(p) /\ Kept(p)

NoFramePanic == panicked \notin {"alloc_kpages", "free_kpages"}

IInv ==
    /\ TypeOK /\ TLBOK(TLB) /\ FreeInv /\ CleanInv /\ KernelInv /\ PidInv /\ WorkInv
    /\ NoFramePanic

-----------------------------------------------------------------------------
(* One program at a time *)

Alone(p) == Proc = {p} /\ ~IOErrors /\ MaxProgs < PidSpace

(* A frame with an owner holds a page of the program that runs, and no     *)
(* other frame does.                                                       *)
Owned(p) ==
    /\ \A f \in Frame : main_PG[f].pid = 0 => main_PG[f].page_number = 0
    /\ \A f \in Frame : main_PG[f].pid # 0 =>
          main_PG[f].pid = p_pid[p] /\ main_PG[f].page_number \in Page
    /\ \A f, g \in Frame :
          main_PG[f].pid # 0 /\ main_PG[f].page_number = main_PG[g].page_number => f = g

(* There is none before the program has its address space, and none after  *)
(* as_destroy.                                                             *)
Bare == {"none", "exec", "activate", "purged"}

FrameInv(p) == Owned(p) /\ (pc[p] \in Bare => \A f \in Frame : main_PG[f].pid = 0)

(* The page at hand is saved in slot s.                                    *)
SavedIn(s, p) == sf_list[s].p_number = fpage[p] /\ sf_list[s].p_pid = p_pid[p]

(* A slot is free or has a data page of a program that was started, no two *)
(* have the same one, and a page that is also in a frame is being read in. *)
SlotInv(p) ==
    /\ \A s \in Slot : \/ sf_list[s] = FreeSlot
                       \/ sf_list[s].p_number \in Data /\ sf_list[s].p_pid \in 1..progs
    /\ \A s, t \in Slot :
          /\ sf_list[s].p_pid # 0 /\ sf_list[s].p_pid = sf_list[t].p_pid
          /\ sf_list[s].p_number = sf_list[t].p_number
          => s = t
    /\ pc[p] = "exec" \/ p \in exec => \A s \in Slot : sf_list[s].p_pid # p_pid[p]
    /\ \A s \in Slot, f \in Frame :
          /\ main_PG[f].pid # 0 /\ sf_list[s].p_pid = p_pid[p]
          /\ sf_list[s].p_number = main_PG[f].page_number
          => pc[p] = "readIn" /\ s = index[p] /\ f = victim[p]

(* What is known of the page at hand.                                      *)
PhaseInv(p) ==
    /\ p \in exec => pc[p] \in {"activate", "define", "load", "loaded", "exit", "purged"}
    /\ pc[p] = "define" =>
          /\ fpage[p] \in Eager
          /\ \A f \in Frame : main_PG[f].page_number < fpage[p]
          /\ \A m \in Eager : m < fpage[p] => \E f \in Frame : main_PG[f].page_number = m
    /\ pc[p] = "activate" => fpage[p] = 1
    /\ pc[p] \in {"load", "loaded"} /\ p \in exec =>
          /\ fpage[p] <= LastLoaded(fpage[p])
          /\ \A m \in Eager : \E f \in Frame : main_PG[f].page_number = m
    /\ pc[p] = "load" /\ p \notin exec =>
          \A f \in Frame : main_PG[f].page_number = fpage[p] => main_PG[f].Dirty = 1
    /\ panicked = "no" /\ pc[p] \notin {"swapOut", "swapped", "swapIn", "readIn"} => index[p] = 0
    /\ pc[p] \in {"alloc", "swapOut", "swapped", "swapIn"} =>
          \A f \in Frame : main_PG[f].page_number # fpage[p]
    /\ pc[p] \in {"alloc", "swapOut", "swapped"} /\ index[p] = 0 =>
          \A s \in Slot : ~SavedIn(s, p)
    /\ pc[p] \in {"swapOut", "swapped"} => sf_list[slot[p]] = FreeSlot
    /\ index[p] # 0 => SavedIn(index[p], p)
    /\ pc[p] = "readIn" =>
          main_PG[victim[p]].pid # 0 /\ main_PG[victim[p]].page_number = fpage[p]

Unused(T) == {i \in Index : T.ent[i] = Invalid}

(* The entries of T lead to frames that hold their page.                   *)
Maps(T, PT) ==
    \A i \in Index : T.ent[i] # Invalid =>
       /\ T.ent[i].page \in Page /\ T.ent[i].frame \in Frame
       /\ PT[T.ent[i].frame].page_number = T.ent[i].page

OneEntry(T) ==
    \A i, j \in Index :
       T.ent[i] # Invalid /\ T.ent[j] # Invalid /\ T.ent[i].page = T.ent[j].page => i = j

Counted(T) == T.freeTLBEntries = Cardinality(Unused(T))

TLBInv(p) ==
    /\ Maps(TLB, main_PG) /\ OneEntry(TLB)
    /\ pc[p] \in Bare => \A i \in Index : TLB.ent[i] = Invalid
    /\ pc[p] \notin {"activate", "purged"} => Counted(TLB)
    /\ pc[p] = "load" /\ p \notin exec =>
          \A i \in Index : TLB.ent[i] # Invalid /\ TLB.ent[i].page = fpage[p] => TLB.ent[i].dirty = 1

PlaceInv(p) == FrameInv(p) /\ SlotInv(p) /\ PhaseInv(p) /\ TLBInv(p) /\ NoTLBPanic

AInv(p) == IInv /\ PlaceInv(p)

=============================================================================
