------------------------------- MODULE Pager --------------------------------
(***************************************************************************)
(* Demand paging: vm_fault and what it calls.  The free frame list and the *)
(* inverted page table (kmalloc.c alloc_kpages/free_kpages, pt.c), the     *)
(* software TLB (vm_tlb.c), the swap file (swapfile.c), segment loading    *)
(* (loadelf.c), and the life of an address space from runprogram to        *)
(* sys__exit (addrspace.c, proc.c, main.c).                                *)
(*                                                                         *)
(* One CPU.  User programs and kernel threads interleave at every point    *)
(* where the kernel can be preempted and the outcome could tell; a step is *)
(* the code between two disk operations, or one turn of a loop over pages. *)
(* A frame is taken from or put on the free list in one step: FrameList    *)
(* has the nodes of that list, and what a preemption in between does.      *)
(* All programs have the same layout: pages 1..NCode are code, the next    *)
(* NData are data, bss and, last, the page at as_vbase_stack, which the    *)
(* inclusive bound of is_dataSegment counts as data.                       *)
(***************************************************************************)
EXTENDS Naturals, Sequences, FiniteSets

CONSTANTS
    NFrames,        \* frames that vm_bootstrap put on the frame list
    NSlots,         \* SWAPFILE_SIZE
    NUM_TLB,        \* entries of the TLB
    CountSpace,     \* 2^32: freeTLBEntries is a uint32_t
    NCode, NData,   \* pages of the segments
    LoadedCode,     \* as_npages_code_loaded
    LoadedData,     \* as_npages_data_loaded
    NFile,          \* data pages that have bytes in the ELF file
    Proc,           \* processes that exist at the same time
    NoProc,         \* curproc is the kernel's
    Value,          \* what a program may store in a page
    PidSpace,       \* 256: next_free_pid and main_PG[].pid are uint8_t
    MaxProgs,       \* bound on programs started
    KMax,           \* bound on frames that kernel threads hold at once
    IOErrors,       \* disk operations may fail
    WritesCode      \* programs may store into their code segment

Frame == 1..NFrames
Slot  == 1..NSlots
Code  == 1..NCode
Data  == (NCode + 1)..(NCode + NData)
Page  == 1..(NCode + NData)
Pid   == 0..(PidSpace - 1)
Index == 0..(NUM_TLB - 1)

ASSUME PagerAssumption ==
    /\ NFrames \in Nat /\ NSlots \in Nat /\ NUM_TLB \in Nat \ {0}
    /\ CountSpace \in Nat /\ CountSpace > NUM_TLB
    /\ LoadedCode \in 1..NCode /\ LoadedData \in 1..(NData - 1) /\ NFile \in 1..(NData - 1)
    /\ NCode \in Nat \ {0} /\ NData \in Nat \ {0}
    /\ PidSpace \in Nat \ {0} /\ MaxProgs \in Nat /\ KMax \in Nat
    /\ NoProc \notin Proc
    /\ IOErrors \in BOOLEAN /\ WritesCode \in BOOLEAN

(* What a page can hold: zeroes, its bytes in the ELF file, or what a      *)
(* process stored there.                                                   *)
Zero             == <<"zero">>
Elf(pg)          == <<"elf", pg>>
Stored(id, pg, v) == <<"stored", id, pg, v>>
Content == {Zero} \cup {Elf(pg) : pg \in Page}
                  \cup {Stored(id, pg, v) : id \in Pid, pg \in Page, v \in Value}

VARIABLES
    frame_list,     \* free frames, first to be taken first
    main_PG,        \* inverted page table, by frame
    ram,            \* contents of the frames
    sf_list,        \* the page saved in each swap slot
    disk,           \* contents of the swap slots
    TLB,            \* hardware entries, freeTLBEntries and next_victim
    TLB_PID,        \* the _Bool of as_activate
    cur,            \* process whose thread ran last
    next_free_pid,
    progs,          \* programs started so far
    kpages,         \* frames kernel threads hold
    pc, p_pid,      \* per process: where its thread is, and its pid
    fpage, ftype,   \* the page vm_fault or load_elf works on; "read" or "write"
    exec,           \* processes still inside runprogram
    victim, slot,   \* swapOut: the frame and the slot chosen for it
    index,          \* swapIn: the slot to read (0: none)
    panicked        \* "no", or which panic stopped the machine

memvars   == <<frame_list, main_PG, ram>>
swapvars  == <<sf_list, disk>>
tlbvars   == <<TLB, TLB_PID>>
procvars  == <<next_free_pid, progs, p_pid, exec>>
faultvars == <<fpage, ftype, victim, slot, index>>
vars == <<memvars, swapvars, tlbvars, cur, kpages, procvars, pc, faultvars, panicked>>

Points == {"none", "exec", "activate", "define", "user", "alloc", "load", "loaded",
           "swapOut", "swapped", "swapIn", "readIn", "exit", "purged"}
Panics == {"no", "addTLB", "code write", "no victim", "out of swap", "alloc_pages",
           "wild frame", "swapIn", "killed", "alloc_kpages", "free_kpages"}

PTE     == [Valid : {0, 1}, pid : Pid, page_number : Page \cup {0}, Dirty : {0, 1}]
Entry   == [page : Page \cup {0}, frame : Frame \cup {0}, dirty : {0, 1}]
SwapEnt == [p_number : Page \cup {0}, p_pid : Pid, Dirty : {0, 1}]

TypeOK ==
    /\ frame_list \in Seq(Frame)
    /\ main_PG \in [Frame -> PTE]
    /\ ram \in [Frame -> Content]
    /\ sf_list \in [Slot -> SwapEnt]
    /\ disk \in [Slot -> Content]
    /\ TLB \in [ent : [Index -> Entry], freeTLBEntries : 0..(CountSpace - 1), next_victim : Index]
    /\ TLB_PID \in {0, 1}
    /\ cur \in Proc \cup {NoProc}
    /\ next_free_pid \in Pid
    /\ progs \in 0..MaxProgs
    /\ kpages \in SUBSET Frame
    /\ pc \in [Proc -> Points]
    /\ p_pid \in [Proc -> Pid]
    /\ fpage \in [Proc -> Page \cup {0}]
    /\ ftype \in [Proc -> {"read", "write"}]
    /\ exec \in SUBSET Proc
    /\ victim \in [Proc -> Frame \cup {0}]
    /\ slot \in [Proc -> Slot \cup {0}]
    /\ index \in [Proc -> Slot \cup {0}]
    /\ panicked \in Panics

Free     == [Valid |-> 0, pid |-> 0, page_number |-> 0, Dirty |-> 0]
Invalid  == [page |-> 0, frame |-> 0, dirty |-> 0]
FreeSlot == [p_number |-> 0, p_pid |-> 0, Dirty |-> 0]

(* vm_bootstrap and swapfile_init have run; pid 0 went to the kernel.      *)
Init ==
    /\ frame_list = [i \in Frame |-> i]
    /\ main_PG = [f \in Frame |-> Free]
    /\ ram = [f \in Frame |-> Zero]
    /\ sf_list = [s \in Slot |-> FreeSlot]
    /\ disk = [s \in Slot |-> Zero]
    /\ TLB = [ent |-> [i \in Index |-> Invalid], freeTLBEntries |-> NUM_TLB, next_victim |-> 0]
    /\ TLB_PID = 0
    /\ cur = NoProc
    /\ next_free_pid = 1 % PidSpace
    /\ progs = 0
    /\ kpages = {}
    /\ pc = [p \in Proc |-> "none"]
    /\ p_pid = [p \in Proc |-> 0]
    /\ fpage = [p \in Proc |-> 0]
    /\ ftype = [p \in Proc |-> "read"]
    /\ exec = {}
    /\ victim = [p \in Proc |-> 0]
    /\ slot = [p \in Proc |-> 0]
    /\ index = [p \in Proc |-> 0]
    /\ panicked = "no"

Least(S) == CHOOSE n \in S : \A m \in S : n <= m

-----------------------------------------------------------------------------
(* Page table *)

(* pageSearch looks at the page number only, not at the pid.               *)
pageSearch(pg) == {f \in Frame : main_PG[f].Valid = 1 /\ main_PG[f].page_number = pg}

addPT(PT, f, pg, id, d) ==
    [PT EXCEPT ![f] = [Valid |-> 1, pid |-> id, page_number |-> pg, Dirty |-> d]]

(* victim_pageSearch: a page of the process's own segment.  Which one      *)
(* depends on a 16-bit counter that wraps, so any of them may be the least. *)
victim_pageSearch(p, seg) ==
    {f \in Frame : main_PG[f].pid = p_pid[p] /\ main_PG[f].page_number \in seg}

-----------------------------------------------------------------------------
(* TLB *)

tlb_probe(T, pg) == {i \in Index : T.ent[i] # Invalid /\ T.ent[i].page = pg}

(* invalidate_TLB writes the entries with interrupts off and turns them    *)
(* back on before it sets freeTLBEntries, so that a thread that runs with  *)
(* interrupts on can be preempted in between.                              *)
purge_TLB(T) == [T EXCEPT !.ent = [i \in Index |-> Invalid]]

set_freeTLBEntries(T) == [T EXCEPT !.freeTLBEntries = NUM_TLB]

invalidate_TLB(T) == set_freeTLBEntries(purge_TLB(T))

(* Mistake: freeTLBEntries is incremented even if the probe fails.         *)
removeTLBv1_uncounted(T, pg) ==
    IF tlb_probe(T, pg) = {} THEN [T EXCEPT !.freeTLBEntries = (@ + 1) % CountSpace]
    ELSE [T EXCEPT !.ent[Least(tlb_probe(T, pg))] = Invalid, !.freeTLBEntries = (@ + 1) % CountSpace]

removeTLBv1(T, pg) ==
    IF tlb_probe(T, pg) = {} THEN T
    ELSE [T EXCEPT !.ent[Least(tlb_probe(T, pg))] = Invalid, !.freeTLBEntries = (@ + 1) % CountSpace]

(* The frames of page pg of process id.                                    *)
FramesOf(PT, pg, id) ==
    {f \in Frame : PT[f].Valid = 1 /\ PT[f].page_number = pg /\ PT[f].pid = id}

(* addTLB panics if the page is not in the page table, or already in the   *)
(* TLB (its test misses index 0).                                          *)
addTLB_panics(T, PT, pg, id) ==
    FramesOf(PT, pg, id) = {} \/ \E i \in tlb_probe(T, pg) : i > 0

(* Mistake: the round-robin victim is not brought back to the first entry. *)
addTLB_nowrap(T, PT, pg, id) ==
    LET f      == Least(FramesOf(PT, pg, id))
        unused == {i \in Index : T.ent[i] = Invalid}
        e(d)   == [page |-> pg, frame |-> f, dirty |-> d]
    IN IF unused # {}
       THEN [T EXCEPT !.ent[Least(unused)] = e(PT[f].Dirty),
                      !.freeTLBEntries = (@ + CountSpace - 1) % CountSpace]
       ELSE [T EXCEPT !.ent[T.next_victim] = e(1), !.next_victim = @ + 1]

(* The first unused entry, or else the round-robin victim, whose entry is  *)
(* always written with TLBLO_DIRTY.                                        *)
addTLB(T, PT, pg, id) ==
    LET f      == Least(FramesOf(PT, pg, id))
        unused == {i \in Index : T.ent[i] = Invalid}
        e(d)   == [page |-> pg, frame |-> f, dirty |-> d]
    IN IF unused # {}
       THEN [T EXCEPT !.ent[Least(unused)] = e(PT[f].Dirty),
                      !.freeTLBEntries = (@ + CountSpace - 1) % CountSpace]
       ELSE [T EXCEPT !.ent[T.next_victim] = e(1), !.next_victim = (@ + 1) % NUM_TLB]

-----------------------------------------------------------------------------
(* Frames *)

(* alloc_kpages panics when the head of the list is in use.                *)
alloc_panics == main_PG[Head(frame_list)].Valid = 1

alloc_check == panicked' = IF alloc_panics THEN "alloc_kpages" ELSE "no"

(* alloc_kpages(1), then addPT: the head of the list, zeroed.              *)
alloc_page(pg, id, d) ==
    /\ frame_list # <<>>
    /\ frame_list' = Tail(frame_list)
    /\ main_PG' = addPT(main_PG, Head(frame_list), pg, id, d)
    /\ ram' = [ram EXCEPT ![Head(frame_list)] = Zero]

(* Mistake: the page table entry stays valid.                              *)
free_kpages_keep(f) ==
    /\ panicked' = IF main_PG[f].Valid = 0 THEN "free_kpages" ELSE "no"
    /\ frame_list' = <<f>> \o frame_list
    /\ main_PG' = [main_PG EXCEPT ![f].pid = 0, ![f].page_number = 0]
    /\ ram' = [ram EXCEPT ![f] = Zero]
    /\ TLB' = IF main_PG[f].pid = 0 THEN TLB ELSE removeTLBv1(TLB, main_PG[f].page_number)

(* Mistake: the TLB keeps the page.                                        *)
free_kpages_notlb(f) ==
    /\ panicked' = IF main_PG[f].Valid = 0 THEN "free_kpages" ELSE "no"
    /\ frame_list' = <<f>> \o frame_list
    /\ main_PG' = [main_PG EXCEPT ![f].Valid = 0, ![f].pid = 0, ![f].page_number = 0]
    /\ ram' = [ram EXCEPT ![f] = Zero]
    /\ TLB' = TLB

(* free_kpages: the frame is zeroed and goes to the head of the list.  The *)
(* TLB is purged of the page unless the frame belongs to the kernel.  To   *)
(* free a free frame is a panic.                                           *)
free_kpages(f) ==
    /\ panicked' = IF main_PG[f].Valid = 0 THEN "free_kpages" ELSE "no"
    /\ frame_list' = <<f>> \o frame_list
    /\ main_PG' = [main_PG EXCEPT ![f].Valid = 0, ![f].pid = 0, ![f].page_number = 0]
    /\ ram' = [ram EXCEPT ![f] = Zero]
    /\ TLB' = IF main_PG[f].pid = 0 THEN TLB ELSE removeTLBv1(TLB, main_PG[f].page_number)

Running(p, at) == panicked = "no" /\ cur = p /\ pc[p] = at

Goto(p, at) == pc' = [pc EXCEPT ![p] = at]

(* Back to user mode, to run the faulting instruction again.               *)
Resume(p) ==
    /\ Goto(p, "user")
    /\ fpage' = [fpage EXCEPT ![p] = 0]
    /\ ftype' = [ftype EXCEPT ![p] = "read"]
    /\ victim' = [victim EXCEPT ![p] = 0]
    /\ slot' = [slot EXCEPT ![p] = 0]
    /\ index' = [index EXCEPT ![p] = 0]

panic(why) == panicked' = why

-----------------------------------------------------------------------------
(* Kernel threads, which take and give back whole frames through kmalloc.  *)

kernel_alloc ==
    /\ panicked = "no" /\ frame_list # <<>> /\ Cardinality(kpages) < KMax
    /\ frame_list' = Tail(frame_list)
    /\ main_PG' = [main_PG EXCEPT ![Head(frame_list)].Valid = 1]
    /\ ram' = [ram EXCEPT ![Head(frame_list)] = Zero]
    /\ kpages' = kpages \cup {Head(frame_list)}
    /\ alloc_check
    /\ UNCHANGED <<swapvars, tlbvars, cur, procvars, pc, faultvars>>

kernel_free(f) ==
    /\ panicked = "no" /\ f \in kpages
    /\ free_kpages(f)
    /\ kpages' = kpages \ {f}
    /\ UNCHANGED <<swapvars, TLB_PID, cur, procvars, pc, faultvars>>

-----------------------------------------------------------------------------
(* Processes *)

(* Mistake: the pid is not advanced.                                       *)
proc_create_samepid(p) ==
    /\ panicked = "no" /\ pc[p] = "none" /\ progs < MaxProgs
    /\ progs' = progs + 1
    /\ p_pid' = [p_pid EXCEPT ![p] = next_free_pid]
    /\ Goto(p, "exec")
    /\ UNCHANGED <<memvars, swapvars, tlbvars, cur, kpages, next_free_pid, exec, faultvars,
                   panicked>>

(* common_prog: proc_create takes the next pid, thread_fork starts it.     *)
proc_create(p) ==
    /\ panicked = "no" /\ pc[p] = "none" /\ progs < MaxProgs
    /\ progs' = progs + 1
    /\ p_pid' = [p_pid EXCEPT ![p] = next_free_pid]
    /\ next_free_pid' = (next_free_pid + 1) % PidSpace
    /\ Goto(p, "exec")
    /\ UNCHANGED <<memvars, swapvars, tlbvars, cur, kpages, exec, faultvars, panicked>>

(* A pid in a _Bool.                                                       *)
AsBool(id) == IF id # 0 THEN 1 ELSE 0

(* as_activate, at the end of thread_switch, with interrupts off.          *)
as_activate(p) ==
    /\ TLB' = IF p_pid[p] # TLB_PID THEN invalidate_TLB(TLB) ELSE TLB
    /\ TLB_PID' = AsBool(p_pid[p])

(* thread_switch gives the processor to the thread of p (from another      *)
(* process or from a kernel thread).                                       *)
thread_switch(p) ==
    /\ panicked = "no" /\ pc[p] # "none"
    /\ cur' = p
    /\ IF pc[p] = "exec" THEN UNCHANGED tlbvars ELSE as_activate(p)
    /\ UNCHANGED <<memvars, swapvars, kpages, procvars, pc, faultvars, panicked>>

(* The thread is gone; nothing of the process is referred to any more.     *)
thread_exit(p) ==
    /\ Goto(p, "none")
    /\ cur' = NoProc
    /\ p_pid' = [p_pid EXCEPT ![p] = 0]
    /\ fpage' = [fpage EXCEPT ![p] = 0]
    /\ exec' = exec \ {p}

(* runprogram up to load_elf, as_activate included, in which it may be     *)
(* preempted; vfs_open may fail, and the thread returns.                   *)
runprogram(p) ==
    /\ Running(p, "exec")
    /\ \/ /\ IF p_pid[p] # TLB_PID
               THEN TLB' = purge_TLB(TLB) /\ Goto(p, "activate")
               ELSE UNCHANGED TLB /\ Goto(p, "define")
          /\ exec' = exec \cup {p}
          /\ fpage' = [fpage EXCEPT ![p] = 1]
          /\ UNCHANGED <<cur, p_pid>>
       \/ thread_exit(p) /\ UNCHANGED TLB
    /\ UNCHANGED <<memvars, swapvars, TLB_PID, kpages, next_free_pid, progs,
                   ftype, victim, slot, index, panicked>>

as_activate_done(p) ==
    /\ Running(p, "activate")
    /\ TLB' = set_freeTLBEntries(TLB)
    /\ TLB_PID' = AsBool(p_pid[p])
    /\ Goto(p, "define")
    /\ UNCHANGED <<memvars, swapvars, cur, kpages, procvars, faultvars, panicked>>

(* The pages runprogram allocates: what as_define_region loads of each     *)
(* segment, and the page as_prepare_load gives the stack.                  *)
Eager == (1..LoadedCode) \cup ((NCode + 1)..(NCode + LoadedData)) \cup {NCode + NData}

(* One turn of the loops of as_define_region, or as_prepare_load.          *)
as_define_region(p) ==
    /\ Running(p, "define")
    /\ LET pg   == fpage[p]
           rest == {m \in Eager : m > pg} IN
       IF frame_list = <<>>
       THEN panic("alloc_pages") /\ UNCHANGED <<memvars, TLB, pc, fpage>>
       ELSE /\ alloc_page(pg, p_pid[p], 1)
            /\ IF TLB.freeTLBEntries = 0 \/ pg = NCode + NData
                 THEN alloc_check /\ UNCHANGED TLB
                 ELSE IF addTLB_panics(TLB, main_PG', pg, p_pid[p])
                 THEN panic("addTLB") /\ UNCHANGED TLB
                 ELSE alloc_check /\ TLB' = addTLB(TLB, main_PG', pg, p_pid[p])
            /\ IF rest # {}
                 THEN fpage' = [fpage EXCEPT ![p] = Least(rest)] /\ UNCHANGED pc
                 ELSE fpage' = [fpage EXCEPT ![p] = 1] /\ Goto(p, "load")
    /\ UNCHANGED <<swapvars, TLB_PID, cur, kpages, procvars, ftype, victim, slot, index>>

-----------------------------------------------------------------------------
(* Loading from the ELF file *)

(* is_bssSegment: as_vbase_bss is as_vbase_data plus a number of PAGES, so *)
(* every page of the data segment but the first lies beyond it.            *)
is_bssSegment(pg) == pg \in Data /\ pg > NCode + 1

(* The last page that runprogram reads from the file for pg's segment.     *)
LastLoaded(pg) ==
    IF pg \in Code THEN LoadedCode
    ELSE NCode + (IF NFile < LoadedData THEN NFile ELSE LoadedData)

(* load_segment, VOP_READ: the bytes go to the user address, through the   *)
(* TLB; a miss is a nested vm_fault that finds the page in the page table. *)
load_segment(p) ==
    LET pg   == fpage[p]
        miss == tlb_probe(TLB, pg) = {}
        T    == IF miss THEN addTLB(TLB, main_PG, pg, p_pid[p]) ELSE TLB
        e    == T.ent[Least(tlb_probe(T, pg))]
    IN IF miss /\ addTLB_panics(TLB, main_PG, pg, p_pid[p])
       THEN panic("addTLB") /\ UNCHANGED <<ram, TLB, pc, fpage>>
       ELSE IF e.dirty = 0
       THEN Goto(p, "exit") /\ TLB' = T /\ UNCHANGED <<ram, fpage, panicked>>
       ELSE /\ ram' = [ram EXCEPT ![e.frame] = Elf(pg)]
            /\ TLB' = T
            /\ IF p \in exec /\ pg < LastLoaded(pg)
                 THEN fpage' = [fpage EXCEPT ![p] = pg + 1] /\ UNCHANGED pc
                 ELSE /\ fpage' = [fpage EXCEPT ![p] = IF p \notin exec THEN pg
                                                      ELSE IF pg \in Code THEN 1 ELSE NCode + 1]
                      /\ Goto(p, "loaded")
            /\ UNCHANGED panicked

(* load_elf at runprogram or from vm_fault.  A read error or a short read  *)
(* is fatal to the program, which kill_curthread turns into a panic; in    *)
(* runprogram it only ends the thread.                                     *)
load_elf(p) ==
    /\ Running(p, "load")
    /\ \/ /\ p \notin exec /\ is_bssSegment(fpage[p])
          /\ Resume(p)
          /\ UNCHANGED <<ram, TLB, cur, p_pid, exec, panicked>>
       \/ /\ p \in exec \/ ~is_bssSegment(fpage[p])
          /\ load_segment(p)
          /\ UNCHANGED <<cur, p_pid, exec, ftype, victim, slot, index>>
       \/ /\ IOErrors /\ p \in exec
          /\ thread_exit(p)
          /\ UNCHANGED <<ram, TLB, ftype, victim, slot, index, panicked>>
       \/ /\ IOErrors /\ p \notin exec
          /\ panic("killed")
          /\ UNCHANGED <<ram, TLB, cur, p_pid, exec, pc, faultvars>>
    /\ UNCHANGED <<frame_list, main_PG, swapvars, TLB_PID, kpages, next_free_pid, progs>>

(* The end of load_segment: a code page becomes read-only; the segment's   *)
(* first page is entered in the TLB afresh.                                *)
protect(p) ==
    /\ Running(p, "loaded")
    /\ LET pg == fpage[p]
           T  == removeTLBv1(TLB, pg) IN
       /\ main_PG' = IF pg \in Code /\ pageSearch(pg) # {}
                     THEN [main_PG EXCEPT ![Least(pageSearch(pg))].Dirty = 0] ELSE main_PG
       /\ IF addTLB_panics(T, main_PG', pg, p_pid[p])
            THEN panic("addTLB") /\ TLB' = T /\ UNCHANGED <<exec, pc, faultvars>>
            ELSE /\ TLB' = addTLB(T, main_PG', pg, p_pid[p])
                 /\ IF p \in exec /\ pg \in Code
                      THEN /\ Goto(p, "load")
                           /\ fpage' = [fpage EXCEPT ![p] = NCode + 1]
                           /\ UNCHANGED <<exec, ftype, victim, slot, index>>
                      ELSE Resume(p) /\ exec' = exec \ {p}
                 /\ UNCHANGED panicked
    /\ UNCHANGED <<frame_list, ram, swapvars, TLB_PID, cur, kpages, next_free_pid, progs, p_pid>>

-----------------------------------------------------------------------------
(* User mode *)

(* A store through a TLB entry.  Without its dirty bit the processor       *)
(* raises EX_MOD, and vm_fault(VM_FAULT_READONLY) calls sys__exit.         *)
store(p, pg, v) ==
    /\ Running(p, "user") /\ (pg \in Data \/ WritesCode)
    /\ tlb_probe(TLB, pg) # {}
    /\ LET e == TLB.ent[Least(tlb_probe(TLB, pg))] IN
       IF e.dirty = 1
       THEN ram' = [ram EXCEPT ![e.frame] = Stored(p_pid[p], pg, v)] /\ UNCHANGED pc
       ELSE Goto(p, "exit") /\ UNCHANGED ram
    /\ UNCHANGED <<frame_list, main_PG, swapvars, tlbvars, cur, kpages, procvars,
                   faultvars, panicked>>

sys__exit(p) ==
    /\ Running(p, "user")
    /\ Goto(p, "exit")
    /\ UNCHANGED <<memvars, swapvars, tlbvars, cur, kpages, procvars, faultvars, panicked>>

(* Mistake: the frames of every process are freed.                         *)
as_destroy_everyone(p) ==
    /\ Running(p, "exit")
    /\ LET mine == {f \in Frame : main_PG[f].Valid = 1 /\ main_PG[f].pid # 0} IN
       IF mine # {}
       THEN free_kpages(Least(mine)) /\ UNCHANGED pc
       ELSE /\ TLB' = purge_TLB(TLB) /\ Goto(p, "purged")
            /\ UNCHANGED <<memvars, panicked>>
    /\ UNCHANGED <<swapvars, TLB_PID, cur, kpages, procvars, faultvars>>

(* as_destroy: one turn of its loop over the frames; then the whole TLB is *)
(* invalidated.  The swap slots are left as they are.                      *)
as_destroy(p) ==
    /\ Running(p, "exit")
    /\ LET mine == {f \in Frame : main_PG[f].Valid = 1 /\ main_PG[f].pid = p_pid[p]} IN
       IF mine # {}
       THEN free_kpages(Least(mine)) /\ UNCHANGED pc
       ELSE /\ TLB' = purge_TLB(TLB) /\ Goto(p, "purged")
            /\ UNCHANGED <<memvars, panicked>>
    /\ UNCHANGED <<swapvars, TLB_PID, cur, kpages, procvars, faultvars>>

(* The last line of invalidate_TLB, and the thread ends.                   *)
as_destroy_done(p) ==
    /\ Running(p, "purged")
    /\ TLB' = set_freeTLBEntries(TLB)
    /\ thread_exit(p)
    /\ UNCHANGED <<memvars, swapvars, TLB_PID, kpages, next_free_pid, progs, ftype, victim, slot,
                   index, panicked>>

-----------------------------------------------------------------------------
(* vm_fault *)

(* A TLB miss: VM_FAULT_READ or VM_FAULT_WRITE.                            *)
Miss(p, pg, w) ==
    /\ Running(p, "user") /\ tlb_probe(TLB, pg) = {}
    /\ w = "write" /\ pg \in Code => WritesCode

(* The page is in memory: reload the TLB.                                  *)
fault_reload(p, pg, w) ==
    /\ Miss(p, pg, w) /\ pageSearch(pg) # {}
    /\ IF addTLB_panics(TLB, main_PG, pg, p_pid[p])
         THEN panic("addTLB") /\ UNCHANGED TLB
         ELSE TLB' = addTLB(TLB, main_PG, pg, p_pid[p]) /\ UNCHANGED panicked
    /\ UNCHANGED <<memvars, swapvars, TLB_PID, cur, kpages, procvars, pc, faultvars>>

(* A code page that is not in memory: a free frame, or else that of        *)
(* another code page, which is dropped; then load it.                      *)
fault_code(p, pg, w) ==
    /\ Miss(p, pg, w) /\ pageSearch(pg) = {} /\ pg \in Code
    /\ fpage' = [fpage EXCEPT ![p] = pg]
    /\ \/ /\ w = "write"
          /\ panic("code write") /\ UNCHANGED <<memvars, TLB, pc>>
       \/ /\ w = "read" /\ alloc_page(pg, p_pid[p], 1)
          /\ alloc_check /\ Goto(p, "load") /\ UNCHANGED TLB
       \/ /\ w = "read" /\ frame_list = <<>> /\ victim_pageSearch(p, Code) = {}
          /\ panic("no victim") /\ UNCHANGED <<memvars, TLB, pc>>
       \/ /\ w = "read" /\ frame_list = <<>>
          /\ \E f \in victim_pageSearch(p, Code) : free_kpages(f)
          /\ Goto(p, "alloc")
    /\ UNCHANGED <<swapvars, TLB_PID, cur, kpages, procvars, ftype, victim, slot, index>>

(* swapOut up to its disk write: the victim, and the first free slot.      *)
(* Without a victim vm_fault panics or passes the address of no frame,     *)
(* which the kernel faults on.                                             *)
swapOut_begin(p) ==
    LET free == {t \in Slot : sf_list[t] = FreeSlot} IN
    \/ /\ victim_pageSearch(p, Data) = {}
       /\ panic("no victim") /\ UNCHANGED <<pc, victim, slot>>
    \/ /\ victim_pageSearch(p, Data) # {} /\ free = {}
       /\ panic("out of swap") /\ UNCHANGED <<pc, victim, slot>>
    \/ /\ free # {}
       /\ \E f \in victim_pageSearch(p, Data) : victim' = [victim EXCEPT ![p] = f]
       /\ slot' = [slot EXCEPT ![p] = Least(free)]
       /\ Goto(p, "swapOut") /\ UNCHANGED panicked

(* A data page that is neither in memory nor in the swap file.             *)
fault_data_new(p, pg, w) ==
    /\ Miss(p, pg, w) /\ pageSearch(pg) = {} /\ pg \in Data
    /\ ~\E t \in Slot : sf_list[t].p_number = pg /\ sf_list[t].p_pid = p_pid[p]
    /\ fpage' = [fpage EXCEPT ![p] = pg]
    /\ ftype' = [ftype EXCEPT ![p] = w]
    /\ \/ /\ alloc_page(pg, p_pid[p], 1)
          /\ alloc_check /\ Goto(p, "load") /\ UNCHANGED <<victim, slot>>
       \/ frame_list = <<>> /\ swapOut_begin(p) /\ UNCHANGED memvars
    /\ UNCHANGED <<swapvars, tlbvars, cur, kpages, procvars, index>>

(* Mistake: nothing is swapped out first.                                  *)
fault_data_swapped_direct(p, pg, w) ==
    /\ Miss(p, pg, w) /\ pageSearch(pg) = {} /\ pg \in Data
    /\ LET S == {t \in Slot : sf_list[t].p_number = pg /\ sf_list[t].p_pid = p_pid[p]} IN
       S # {} /\ index' = [index EXCEPT ![p] = Least(S)]
    /\ fpage' = [fpage EXCEPT ![p] = pg]
    /\ Goto(p, "swapIn")
    /\ UNCHANGED <<memvars, swapvars, tlbvars, cur, kpages, procvars, ftype, victim, slot,
                   panicked>>

(* A data page in the swap file: some page is swapped out first, always.   *)
fault_data_swapped(p, pg, w) ==
    /\ Miss(p, pg, w) /\ pageSearch(pg) = {} /\ pg \in Data
    /\ LET S == {t \in Slot : sf_list[t].p_number = pg /\ sf_list[t].p_pid = p_pid[p]} IN
       S # {} /\ index' = [index EXCEPT ![p] = Least(S)]
    /\ fpage' = [fpage EXCEPT ![p] = pg]
    /\ ftype' = [ftype EXCEPT ![p] = w]
    /\ swapOut_begin(p)
    /\ UNCHANGED <<memvars, swapvars, tlbvars, cur, kpages, procvars>>

(* swapOut, the disk write.  A failed one leaves everything as it was;     *)
(* vm_fault then goes on to allocate (first load), gives up with an error  *)
(* (read) or returns 0 (write).                                            *)
swapOut(p) ==
    /\ Running(p, "swapOut")
    /\ \/ /\ disk' = [disk EXCEPT ![slot[p]] = ram[victim[p]]]
          /\ Goto(p, "swapped")
          /\ UNCHANGED <<faultvars, panicked>>
       \/ /\ IOErrors /\ index[p] = 0
          /\ Goto(p, "alloc")
          /\ UNCHANGED <<disk, faultvars, panicked>>
       \/ /\ IOErrors /\ index[p] # 0 /\ ftype[p] = "read"
          /\ panic("killed")
          /\ UNCHANGED <<disk, faultvars, pc>>
       \/ /\ IOErrors /\ index[p] # 0 /\ ftype[p] = "write"
          /\ Resume(p)
          /\ UNCHANGED <<disk, panicked>>
    /\ UNCHANGED <<memvars, sf_list, tlbvars, cur, kpages, procvars>>

(* swapOut, the rest: the page moves from the page table to the swap list. *)
swapOut_done(p) ==
    /\ Running(p, "swapped")
    /\ LET v == main_PG[victim[p]] IN
       sf_list' = [sf_list EXCEPT ![slot[p]] =
          [p_number |-> v.page_number, p_pid |-> v.pid, Dirty |-> v.Dirty]]
    /\ free_kpages(victim[p])
    /\ Goto(p, IF index[p] = 0 THEN "alloc" ELSE "swapIn")
    /\ UNCHANGED <<disk, TLB_PID, cur, kpages, procvars, faultvars>>

(* Mistake: the thread waits until there is a frame.                       *)
alloc_again_wait(p) ==
    /\ Running(p, "alloc")
    /\ \/ alloc_page(fpage[p], p_pid[p], 1) /\ alloc_check /\ Goto(p, "load")
       \/ frame_list = <<>> /\ UNCHANGED <<memvars, panicked, pc>>
    /\ UNCHANGED <<swapvars, tlbvars, cur, kpages, procvars, faultvars>>

(* The second alloc_kpages, whose result vm_fault does not test: without a *)
(* frame, addPT writes outside the page table.                             *)
alloc_again(p) ==
    /\ Running(p, "alloc")
    /\ \/ alloc_page(fpage[p], p_pid[p], 1) /\ alloc_check /\ Goto(p, "load")
       \/ frame_list = <<>> /\ panic("wild frame") /\ UNCHANGED <<memvars, pc>>
    /\ UNCHANGED <<swapvars, tlbvars, cur, kpages, procvars, faultvars>>

(* swapIn up to its disk read: frame, page table and TLB.                  *)
swapIn(p) ==
    /\ Running(p, "swapIn")
    /\ LET s == sf_list[index[p]] IN
       \/ /\ frame_list = <<>>
          /\ panic("swapIn") /\ UNCHANGED <<memvars, TLB, pc, victim>>
       \/ /\ alloc_page(s.p_number, s.p_pid, s.Dirty)
          /\ victim' = [victim EXCEPT ![p] = Head(frame_list)]
          /\ IF addTLB_panics(TLB, main_PG', s.p_number, s.p_pid)
               THEN panic("addTLB") /\ UNCHANGED <<TLB, pc>>
               ELSE /\ TLB' = addTLB(TLB, main_PG', s.p_number, s.p_pid)
                    /\ alloc_check /\ Goto(p, "readIn")
    /\ UNCHANGED <<swapvars, TLB_PID, cur, kpages, procvars, fpage, ftype, slot, index>>

(* Mistake: the offset of the slot swapOut used.                           *)
swapIn_read_slot(p) ==
    /\ Running(p, "readIn")
    /\ \/ /\ ram' = [ram EXCEPT ![victim[p]] = disk[slot[p]]]
          /\ sf_list' = [sf_list EXCEPT ![index[p]] = FreeSlot]
       \/ IOErrors /\ UNCHANGED <<ram, sf_list>>
    /\ Resume(p)
    /\ UNCHANGED <<frame_list, main_PG, disk, tlbvars, cur, kpages, procvars, panicked>>

(* swapIn's disk read, and the end of vm_fault, which ignores its error.   *)
swapIn_read(p) ==
    /\ Running(p, "readIn")
    /\ \/ /\ ram' = [ram EXCEPT ![victim[p]] = disk[index[p]]]
          /\ sf_list' = [sf_list EXCEPT ![index[p]] = FreeSlot]
       \/ IOErrors /\ UNCHANGED <<ram, sf_list>>
    /\ Resume(p)
    /\ UNCHANGED <<frame_list, main_PG, disk, tlbvars, cur, kpages, procvars, panicked>>

-----------------------------------------------------------------------------
halted == panicked # "no" /\ UNCHANGED vars

(* No program left to start.                                               *)
idle == progs = MaxProgs /\ (\A p \in Proc : pc[p] = "none") /\ UNCHANGED vars

(* What the thread of p does inside the kernel.                            *)
KernelStep(p) ==
    \/ runprogram(p)
    \/ as_activate_done(p)
    \/ as_define_region(p)
    \/ load_elf(p)
    \/ protect(p)
    \/ swapOut(p)
    \/ swapOut_done(p)
    \/ alloc_again(p)
    \/ swapIn(p)
    \/ swapIn_read(p)
    \/ as_destroy(p)
    \/ as_destroy_done(p)

UserStep(p) ==
    \/ sys__exit(p)
    \/ \E pg \in Page :
         \/ \E v \in Value : store(p, pg, v)
         \/ \E w \in {"read", "write"} :
              \/ fault_reload(p, pg, w)
              \/ fault_code(p, pg, w)
              \/ fault_data_new(p, pg, w)
              \/ fault_data_swapped(p, pg, w)

Next ==
    \/ kernel_alloc
    \/ \E f \in Frame : kernel_free(f)
    \/ \E p \in Proc : proc_create(p) \/ thread_switch(p) \/ KernelStep(p) \/ UserStep(p)
    \/ halted
    \/ idle

Spec == Init /\ [][Next]_vars

(* schedule() takes the threads in turn, so each one runs again and again. *)
FairSpec ==
    Spec /\ \A p \in Proc : WF_vars(thread_switch(p)) /\ SF_vars(KernelStep(p))

-----------------------------------------------------------------------------
(* Properties *)

Listed == {frame_list[i] : i \in 1..Len(frame_list)}

(* Every frame is either on the free list, once, or valid in the page      *)
(* table: however the steps of faults, swapping, exits and kernel          *)
(* allocations interleave, none of them loses a frame, takes one that is   *)
(* in use or frees one twice, so the panics of alloc_kpages ("This should  *)
(* not happen") and free_kpages ("already empty memory region") do not     *)
(* come from the way vm_fault and as_destroy use them.                     *)
FramesAccounted ==
    /\ \A i, j \in 1..Len(frame_list) : frame_list[i] = frame_list[j] => i = j
    /\ \A f \in Frame : main_PG[f].Valid = 0 <=> f \in Listed
    /\ \A f \in kpages : main_PG[f].Valid = 1 /\ main_PG[f].pid = 0
    /\ panicked \notin {"alloc_kpages", "free_kpages"}

(* A thread asleep in a disk operation, or preempted around it, finds the  *)
(* frame it works on as it left it: swapOut's victim is still the page of  *)
(* its own process that victim_pageSearch chose, and the page vm_fault     *)
(* loads from the file is still mapped.                                    *)
FrameKept ==
    \A p \in Proc :
       /\ pc[p] \in {"swapOut", "swapped"} =>
             /\ main_PG[victim[p]].Valid = 1 /\ main_PG[victim[p]].pid = p_pid[p]
             /\ main_PG[victim[p]].page_number \in Data
       /\ pc[p] \in {"load", "loaded"} /\ p \notin exec =>
             FramesOf(main_PG, fpage[p], p_pid[p]) # {}

(* The swap list is protected ("swapfile_lock creation to protect          *)
(* swapfile_list", swapfile.c): no two threads write the same slot.        *)
SlotsDistinct ==
    \A p, q \in Proc : p # q /\ {pc[p], pc[q]} \subseteq {"swapOut", "swapped"} => slot[p] # slot[q]

SlotsOf(pg, id) == {t \in Slot : sf_list[t].p_number = pg /\ sf_list[t].p_pid = id}

(* A page of a process is in at most one place: one frame, or one swap     *)
(* slot, and in both only while swapIn copies it.                          *)
OnePlace ==
    \A id \in Pid \ {0}, pg \in Page :
       LET F == FramesOf(main_PG, pg, id)
           S == SlotsOf(pg, id)
       IN /\ Cardinality(F) <= 1 /\ Cardinality(S) <= 1
          /\ F = {} \/ S = {} \/ \E p \in Proc : /\ pc[p] = "readIn" /\ F = {victim[p]}
                                              /\ S = {index[p]} /\ p_pid[p] = id

(* freeTLBEntries, by which vm_fault counts the misses "for which there    *)
(* was free space in the TLB" (vmstats.c) and as_define_region decides     *)
(* whether to call addTLB, is the number of unused entries whenever a      *)
(* program runs, although it is adjusted apart from them.                  *)
TLBCounted ==
    \A p \in Proc : cur = p /\ pc[p] = "user" =>
       TLB.freeTLBEntries = Cardinality({i \in Index : TLB.ent[i] = Invalid})

(* The TLB never outlives the page table: an entry maps a page to the one  *)
(* valid frame that holds it for the process whose entries are loaded, and *)
(* no page has two entries.                                                *)
TLBCoherent ==
    \A i \in Index : TLB.ent[i] # Invalid =>
       /\ tlb_probe(TLB, TLB.ent[i].page) = {i}
       /\ \E p \in Proc : FramesOf(main_PG, TLB.ent[i].page, p_pid[p]) = {TLB.ent[i].frame}

(* addTLB finds the page in the page table and not in the TLB, so neither  *)
(* of its panics stops the machine.                                        *)
NoTLBPanic == panicked # "addTLB"

(* freeTLBEntries is the number of unused entries whenever a program runs, *)
(* an entry leads to the frame the page table has for its page, and        *)
(* neither panic of addTLB fires.                                          *)
TLBSound == TLBCounted /\ TLBCoherent /\ NoTLBPanic

(* sys__exit returns every frame of the process: a frame with a user's pid *)
(* belongs to a process that has not ended.                                *)
FramesReturned ==
    \A f \in Frame : main_PG[f].Valid = 1 /\ main_PG[f].pid # 0 =>
       \E p \in Proc : pc[p] # "none" /\ p_pid[p] = main_PG[f].pid

(* A program starts with nothing in the swap file, whatever earlier        *)
(* programs left there: "the VM system should provide pages that do not    *)
(* contain other processes' data" (loadelf.c), though as_destroy gives no  *)
(* slot back and the next program may run in the same thread's place.      *)
NoOldPages == \A p \in exec, pg \in Page : SlotsOf(pg, p_pid[p]) = {}

(* A page is in one frame or in one swap slot; sys__exit returns every     *)
(* frame of the program, and the next one finds none of its pages in the   *)
(* swap file.                                                              *)
PagesKept == OnePlace /\ FramesReturned /\ NoOldPages

(* The swapOut that vm_fault runs first leaves a frame for the allocation  *)
(* that follows it (alloc_kpages is not tested in vm_fault, and panics in  *)
(* swapIn).                                                                *)
FrameForFault == panicked \notin {"wild frame", "swapIn"}

(* The thread of a program never stays inside the kernel: a page fault is  *)
(* served, a program gets started or fails, and sys__exit comes to its     *)
(* end, unless the machine panics.                                         *)
KernelReturns ==
    \A p \in Proc : pc[p] \notin {"none", "user"} ~> pc[p] \in {"none", "user"} \/ panicked # "no"

(* as_activate makes the address space of the running process "the one     *)
(* currently seen by the processor" (addrspace.h): in user mode the TLB    *)
(* holds frames of the running process only.                               *)
OwnTLB ==
    \A p \in Proc : cur = p /\ pc[p] = "user" =>
       \A i \in Index : TLB.ent[i] # Invalid => main_PG[TLB.ent[i].frame].pid = p_pid[p]

(* "The code segment has been load and now is write protected" (vm.c):     *)
(* no store changes a frame that holds a page of code.                     *)
CodeProtected ==
    \A f \in Frame : main_PG[f].page_number \in Code => ram[f] \in {Zero, Elf(main_PG[f].page_number)}

-----------------------------------------------------------------------------
(* Refinement *)

(* A page before any store: its bytes in the file, or zeroes.              *)
InitialImage(pg) == IF pg \in Code \/ pg <= NCode + NFile THEN Elf(pg) ELSE Zero

(* Where the content of page pg of process p is to be found.               *)
Current(p, pg) ==
    LET F == FramesOf(main_PG, pg, p_pid[p])
        S == SlotsOf(pg, p_pid[p])
    IN IF pc[p] \in {"load", "loaded"} /\ fpage[p] = pg THEN InitialImage(pg)
       ELSE IF pc[p] = "readIn" /\ fpage[p] = pg THEN disk[index[p]]
       ELSE IF F # {} THEN ram[Least(F)]
       ELSE IF S # {} THEN disk[Least(S)]
       ELSE InitialImage(pg)

Image == "image"
Wrong == "wrong"

(* The same as the program sees it: the image, a value it stored, or       *)
(* something that it never put there.                                      *)
Seen(p, pg) ==
    LET c == Current(p, pg)
        V == {v \in Value : c = Stored(p_pid[p], pg, v)}
    IN IF c = InitialImage(pg) THEN Image
       ELSE IF V # {} THEN CHOOSE v \in V : TRUE
       ELSE Wrong

(* In user mode, or in a fault taken there.                                *)
Alive(p) == pc[p] \notin {"none", "exec", "exit", "purged"} /\ p \notin exec

(* "the VM system should provide pages that do not contain other           *)
(* processes' data, i.e., are already zeroed" (loadelf.c): a page of a     *)
(* running program never shows anything but its image or the program's own *)
(* stores.                                                                 *)
NothingForeign == \A p \in Proc, pg \in Page : Alive(p) => Seen(p, pg) # Wrong

Promise == INSTANCE Memory WITH
    live <- {p \in Proc : Alive(p)},
    mem  <- [p \in Proc |-> [pg \in Page |-> IF Alive(p) THEN Seen(p, pg) ELSE Image]]

(* Demand loading, swapping and page replacement are invisible to the      *)
(* program: every page always holds the ELF image or the last value stored *)
(* in it, wherever vm_fault has put it.                                    *)
MemoryKept == Promise!Spec

=============================================================================
