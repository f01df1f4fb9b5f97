---------------------------- MODULE MemoryProofs ----------------------------
(***************************************************************************)
(* Pager implements Memory when programs run one after the other: proved   *)
(* for any number of frames, slots, TLB entries, pages, values and kernel  *)
(* allocations, if no disk operation fails, programs do not store into     *)
(* their code, and runprogram loads every data page that has bytes in the  *)
(* file (a later one would be taken for bss by is_bssSegment and zeroed).  *)
(*                                                                         *)
(* To AInv, which says where the pages are, CInv adds what is in them:     *)
(* what runprogram has loaded so far, that code in memory is the file's,   *)
(* that no page of the file is ever lost from both memory and swap file,   *)
(* and that swapOut has written what it found.                             *)
(***************************************************************************)
EXTENDS PagerProofs

Reads(p) == Alone(p) /\ ~WritesCode /\ NFile <= LoadedData

FilePages == (NCode + 1)..(NCode + NFile)

(* The pages that load_segment has copied from the file in runprogram when *)
(* it is at page k, and when it is through with the segment of k.          *)
LoadedBefore(k) ==
    IF k \in Code THEN 1..(k - 1) ELSE (1..LoadedCode) \cup ((NCode + 1)..(k - 1))

LoadedAll(k) == IF k \in Code THEN 1..LoadedCode ELSE (1..LoadedCode) \cup FilePages

LoadedPages(p) ==
    IF pc[p] = "define" THEN {}
    ELSE IF pc[p] = "load" THEN LoadedBefore(fpage[p]) ELSE LoadedAll(fpage[p])

Loading(p) == p \in exec /\ pc[p] \in {"define", "load", "loaded"}

(* Before the program runs its pages are zero or, once loaded, the file's. *)
ExecContents(p) ==
    Loading(p) =>
       \A f \in Frame : main_PG[f].page_number # 0 =>
          /\ main_PG[f].page_number \in Eager
          /\ ram[f] = IF main_PG[f].page_number \in LoadedPages(p)
                      THEN Elf(main_PG[f].page_number) ELSE Zero

Saved(pg, p) == \E s \in Slot : sf_list[s].p_number = pg /\ sf_list[s].p_pid = p_pid[p]

(* While it runs, code is the file's, and data from the file is somewhere. *)
UserContents(p) ==
    Alive(p) =>
       /\ \A f \in Frame :
             main_PG[f].page_number \in Code /\ ~(pc[p] = "load" /\ main_PG[f].page_number = fpage[p])
             => ram[f] = Elf(main_PG[f].page_number)
       /\ \A pg \in FilePages : (\E f \in Frame : main_PG[f].page_number = pg) \/ Saved(pg, p)
       /\ pc[p] = "load" =>
             /\ fpage[p] \notin FilePages
             /\ \A f \in Frame : main_PG[f].page_number = fpage[p] => ram[f] = Zero
       /\ pc[p] = "loaded" => fpage[p] \in Code
       /\ pc[p] = "swapped" => disk[slot[p]] = ram[victim[p]]

CInv(p) == AInv(p) /\ ExecContents(p) /\ UserContents(p)

-----------------------------------------------------------------------------
(* Where the content of a page is *)

(* The frame of a page that load_elf or swapIn is still filling does not   *)
(* count.                                                                  *)
Filling(p, pg) == pc[p] \in {"load", "loaded", "readIn"} /\ fpage[p] = pg

CurrentFacts(p, pg) ==
    AInv(p) =>
       /\ pc[p] \in {"load", "loaded"} /\ fpage[p] = pg => Current(p, pg) = InitialImage(pg)
       /\ pc[p] = "readIn" /\ fpage[p] = pg => Current(p, pg) = disk[index[p]]
       /\ ~Filling(p, pg) =>
             /\ \A f \in Frame : main_PG[f].page_number = pg => Current(p, pg) = ram[f]
             /\ (\A f \in Frame : main_PG[f].page_number # pg) =>
                   /\ \A s \in Slot : sf_list[s].p_number = pg /\ sf_list[s].p_pid = p_pid[p] =>
                         pc[p] = "none" \/ Current(p, pg) = disk[s]
                   /\ ~Saved(pg, p) => Current(p, pg) = InitialImage(pg)

LEMMA CurrentNow == ASSUME NEW CONSTANT p, Alone(p), NEW CONSTANT pg \in Page PROVE CurrentFacts(p, pg)
<1> SUFFICES ASSUME AInv(p)
             PROVE  /\ pc[p] \in {"load", "loaded"} /\ fpage[p] = pg => Current(p, pg) = InitialImage(pg)
                    /\ pc[p] = "readIn" /\ fpage[p] = pg => Current(p, pg) = disk[index[p]]
                    /\ ~Filling(p, pg) =>
                          /\ \A f \in Frame : main_PG[f].page_number = pg => Current(p, pg) = ram[f]
                          /\ (\A f \in Frame : main_PG[f].page_number # pg) =>
                                /\ \A s \in Slot :
                                      sf_list[s].p_number = pg /\ sf_list[s].p_pid = p_pid[p] =>
                                         pc[p] = "none" \/ Current(p, pg) = disk[s]
                                /\ ~Saved(pg, p) => Current(p, pg) = InitialImage(pg)
  BY Zenon DEF CurrentFacts
<1> DEFINE F == FramesOf(main_PG, pg, p_pid[p])
           S == SlotsOf(pg, p_pid[p])
<1>1. IInv /\ Owned(p) /\ SlotInv(p) /\ (pc[p] # "none" => p_pid[p] # 0)
  BY Zenon, Basics DEF AInv, PlaceInv, FrameInv
<1>2. pc[p] \in {"load", "loaded"} /\ fpage[p] = pg => Current(p, pg) = InitialImage(pg)
  BY Zenon DEF Current
<1>3. pc[p] = "readIn" /\ fpage[p] = pg => Current(p, pg) = disk[index[p]]
  BY Zenon DEF Current
<1>4. ASSUME ~Filling(p, pg) PROVE Current(p, pg) = IF F # {} THEN ram[Least(F)]
                                                   ELSE IF S # {} THEN disk[Least(S)]
                                                   ELSE InitialImage(pg)
  BY Zenon, <1>4 DEF Current, Filling
<1>5. ASSUME ~Filling(p, pg), NEW f \in Frame, main_PG[f].page_number = pg
      PROVE  Current(p, pg) = ram[f]
  <2>1. F = {f}
    BY Zenon, <1>1, <1>5, WhereIs
  <2>2. Least(F) = f
    BY <2>1, LeastOne, PagerAssumption DEF Frame
  <2> QED BY Zenon, <1>4, <1>5, <2>1, <2>2
<1>6. ASSUME ~Filling(p, pg), \A f \in Frame : main_PG[f].page_number # pg
      PROVE  /\ \A s \in Slot : sf_list[s].p_number = pg /\ sf_list[s].p_pid = p_pid[p] =>
                   pc[p] = "none" \/ Current(p, pg) = disk[s]
             /\ ~Saved(pg, p) => Current(p, pg) = InitialImage(pg)
  <2>1. F = {}
    BY Zenon, <1>6 DEF FramesOf
  <2>2. ASSUME NEW s \in Slot, sf_list[s].p_number = pg, sf_list[s].p_pid = p_pid[p], pc[p] # "none"
        PROVE  Current(p, pg) = disk[s]
    <3>1. S = {s}
      BY Zenon, <1>1, <2>2 DEF SlotsOf, SlotInv
    <3>2. Least(S) = s
      BY <3>1, LeastOne, PagerAssumption DEF Slot
    <3> QED BY Zenon, <1>4, <1>6, <2>1, <3>1, <3>2
  <2>3. ~Saved(pg, p) => S = {}
    BY Zenon DEF Saved, SlotsOf
  <2> QED BY Zenon, <1>4, <1>6, <2>1, <2>2, <2>3
<1> QED BY Zenon, <1>2, <1>3, <1>5, <1>6

(* The same before and after a step.                                       *)
LEMMA CurrentIs ==
    ASSUME NEW CONSTANT p, Alone(p), NEW CONSTANT pg \in Page
    PROVE  CurrentFacts(p, pg) /\ CurrentFacts(p, pg)'
<1>1. CurrentFacts(p, pg)
  BY Zenon, CurrentNow
<1> QED BY <1>1, CurrentNow, PTL

(* Page pg stays where it is: same frame or slot, same content.            *)
SamePage(p, pg) ==
    /\ \A f \in Frame : /\ main_PG'[f].page_number = pg <=> main_PG[f].page_number = pg
                        /\ main_PG[f].page_number = pg => ram'[f] = ram[f]
    /\ \A s \in Slot :
          /\ sf_list'[s].p_number = pg /\ sf_list'[s].p_pid = p_pid[p]
             <=> sf_list[s].p_number = pg /\ sf_list[s].p_pid = p_pid[p]
          /\ sf_list[s].p_number = pg /\ sf_list[s].p_pid = p_pid[p] => disk'[s] = disk[s]

LEMMA PageSame ==
    ASSUME NEW CONSTANT p, Alone(p), AInv(p), AInv(p)', NEW CONSTANT pg \in Page, SamePage(p, pg),
           p_pid' = p_pid, pc[p] # "none", pc'[p] # "none", ~Filling(p, pg), ~Filling(p, pg)'
    PROVE  Current(p, pg)' = Current(p, pg)
<1>1. CurrentFacts(p, pg) /\ CurrentFacts(p, pg)'
  BY Zenon, CurrentIs
<1>2. CASE \E f \in Frame : main_PG[f].page_number = pg
  <2>1. PICK f \in Frame : main_PG[f].page_number = pg
    BY Zenon, <1>2
  <2>2. main_PG'[f].page_number = pg /\ ram'[f] = ram[f]
    BY Zenon, <2>1 DEF SamePage
  <2>3. Current(p, pg) = ram[f]
    BY Zenon, <1>1, <2>1 DEF CurrentFacts
  <2>4. Current(p, pg)' = ram'[f]
    BY Zenon, <1>1, <2>2 DEF CurrentFacts
  <2> QED BY Zenon, <2>2, <2>3, <2>4
<1>3. CASE \A f \in Frame : main_PG[f].page_number # pg
  <2>1. \A f \in Frame : main_PG'[f].page_number # pg
    BY Zenon, <1>3 DEF SamePage
  <2>2. CASE Saved(pg, p)
    <3>1. PICK s \in Slot : sf_list[s].p_number = pg /\ sf_list[s].p_pid = p_pid[p]
      BY Zenon, <2>2 DEF Saved
    <3>2. sf_list'[s].p_number = pg /\ sf_list'[s].p_pid = p_pid'[p] /\ disk'[s] = disk[s]
      BY Zenon, <3>1 DEF SamePage
    <3>3. Current(p, pg) = disk[s]
      BY Zenon, <1>1, <1>3, <3>1 DEF CurrentFacts
    <3>4. Current(p, pg)' = disk'[s]
      BY Zenon, <1>1, <2>1, <3>2 DEF CurrentFacts
    <3> QED BY Zenon, <3>2, <3>3, <3>4
  <2>3. CASE ~Saved(pg, p)
    <3>1. ~Saved(pg, p)'
      BY Zenon, <2>3 DEF Saved, SamePage
    <3>2. Current(p, pg) = InitialImage(pg)
      BY Zenon, <1>1, <1>3, <2>3 DEF CurrentFacts
    <3>3. Current(p, pg)' = InitialImage(pg)
      BY Zenon, <1>1, <2>1, <3>1 DEF CurrentFacts
    <3> QED BY Zenon, <3>2, <3>3
  <2> QED BY Zenon, <2>2, <2>3
<1> QED BY Zenon, <1>2, <1>3

-----------------------------------------------------------------------------
(* What a step means for the program *)

KeepsMem(p) ==
    /\ Alive(p)' <=> Alive(p)
    /\ Alive(p) => p_pid'[p] = p_pid[p] /\ \A pg \in Page : Current(p, pg)' = Current(p, pg)

StartsMem(p) == ~Alive(p) /\ Alive(p)' /\ \A pg \in Page : Current(p, pg)' = InitialImage(pg)

EndsMem(p) == Alive(p) /\ ~Alive(p)'

WritesMem(p, pg, v) ==
    /\ Alive(p) /\ Alive(p)' /\ p_pid'[p] = p_pid[p]
    /\ Current(p, pg)' = Stored(p_pid[p], pg, v)
    /\ \A m \in Page \ {pg} : Current(p, m)' = Current(p, m)

MemStep(p) ==
    \/ KeepsMem(p) \/ StartsMem(p) \/ EndsMem(p)
    \/ \E pg \in Data, v \in Value : WritesMem(p, pg, v)

ContentsInv(p) == ExecContents(p) /\ UserContents(p)

(* What each action has to be shown to lead from, and to.                  *)
Before(p) == Reads(p) /\ CInv(p) /\ AInv(p)'

After(p) == ContentsInv(p)' /\ MemStep(p)

(* Steps of a program that does not run and has nothing loaded.            *)
LEMMA NotRunning ==
    ASSUME NEW CONSTANT p, ~Alive(p)', ~Loading(p)' PROVE After(p)
<1>1. ContentsInv(p)'
  BY Zenon DEF ContentsInv, ExecContents, UserContents
<1>2. Alive(p) => EndsMem(p)
  BY Zenon DEF EndsMem
<1>3. ~Alive(p) => KeepsMem(p)
  BY Zenon DEF KeepsMem
<1> QED BY Zenon, <1>1, <1>2, <1>3 DEF MemStep, After

-----------------------------------------------------------------------------
(* Steps that leave the program's pages alone *)

(* The pages of the program, in memory and in the swap file, stay as they  *)
(* are.                                                                    *)
SameContents ==
    /\ \A f \in Frame : /\ main_PG'[f].page_number = main_PG[f].page_number
                        /\ main_PG[f].page_number # 0 => ram'[f] = ram[f]
    /\ UNCHANGED <<sf_list, disk, p_pid, exec>>

LEMMA QuietContents ==
    ASSUME Counting, NEW CONSTANT p, Before(p), SameContents, pc' = pc,
           pc[p] = "user" \/ UNCHANGED <<fpage, index, slot, victim>>
    PROVE  After(p)
<1>1. /\ Alone(p) /\ AInv(p) /\ ExecContents(p) /\ UserContents(p) /\ 0 \notin Page
      /\ AInv(p)' /\ (Alive(p)' <=> Alive(p)) /\ p_pid' = p_pid
  <2>1. Alone(p) /\ AInv(p) /\ ExecContents(p) /\ UserContents(p) /\ AInv(p)'
    BY Zenon DEF Before, Reads, CInv
  <2>2. 0 \notin Page
    BY Zenon, <2>1, Basics DEF AInv
  <2> QED BY Zenon, <2>1, <2>2 DEF Alive, SameContents
<1>2. ExecContents(p)'
  <2>1. CASE Loading(p)
    BY Zenon, <1>1, <2>1 DEF ExecContents, Loading, LoadedPages, SameContents
  <2>2. CASE ~Loading(p)
    BY Zenon, <2>2 DEF ExecContents, Loading, SameContents
  <2> QED BY Zenon, <2>1, <2>2
<1>3. ASSUME Alive(p) PROVE UserContents(p)' /\ \A pg \in Page : Current(p, pg)' = Current(p, pg)
  <2>1. pc[p] # "none"
    BY Zenon, <1>3 DEF Alive
  <2>2. UserContents(p)'
    <3>1. \A f \in Frame :
             main_PG'[f].page_number \in Code /\ ~(pc'[p] = "load" /\ main_PG'[f].page_number = fpage'[p])
             => ram'[f] = Elf(main_PG'[f].page_number)
      BY <1>1, <1>3, PagerAssumption DEF UserContents, SameContents, Code
    <3>2. \A pg \in FilePages : (\E f \in Frame : main_PG'[f].page_number = pg) \/ Saved(pg, p)'
      BY <1>1, <1>3 DEF UserContents, SameContents, Saved
    <3>3. CASE pc[p] = "load"
      <4>1. fpage[p] # 0
        BY Zenon, <1>1, <3>3, LoadEntry
      <4> QED BY Zenon, <1>1, <1>3, <3>1, <3>2, <3>3, <4>1 DEF UserContents, SameContents
    <3>4. CASE pc[p] = "swapped"
      <4>1. victim[p] \in Frame /\ main_PG[victim[p]].page_number # 0
        BY <1>1, <3>4, SwappedFacts, PagerAssumption DEF Data
      <4> QED BY Zenon, <1>1, <1>3, <3>1, <3>2, <3>4, <4>1 DEF UserContents, SameContents
    <3>5. CASE pc[p] \notin {"load", "swapped"}
      BY Zenon, <1>1, <1>3, <3>1, <3>2, <3>5 DEF UserContents
    <3> QED BY Zenon, <3>3, <3>4, <3>5
  <2>3. ASSUME NEW CONSTANT pg \in Page PROVE Current(p, pg)' = Current(p, pg)
    <3>1. CurrentFacts(p, pg) /\ CurrentFacts(p, pg)'
      BY Zenon, <1>1, CurrentIs
    <3>2. CASE Filling(p, pg)
      BY Zenon, <1>1, <3>1, <3>2 DEF Filling, CurrentFacts, SameContents
    <3>3. CASE ~Filling(p, pg)
      <4>1. ~Filling(p, pg)'
        BY Zenon, <3>3 DEF Filling
      <4>2. SamePage(p, pg)
        BY Zenon, <1>1 DEF SameContents, SamePage
      <4> QED BY Zenon, <1>1, <2>1, <3>3, <4>1, <4>2, PageSame
    <3> QED BY Zenon, <3>2, <3>3
  <2> QED BY Zenon, <2>2, <2>3
<1>4. UserContents(p)'
  BY Zenon, <1>1, <1>3 DEF UserContents
<1>5. KeepsMem(p)
  BY Zenon, <1>1, <1>3 DEF KeepsMem
<1> QED BY Zenon, <1>2, <1>4, <1>5 DEF ContentsInv, MemStep, After

LEMMA SwitchContents == ASSUME Counting, NEW CONSTANT p, Before(p), thread_switch(p) PROVE After(p)
<1>1. SameContents /\ UNCHANGED <<pc, fpage, index, slot, victim>>
  BY Zenon DEF thread_switch, memvars, swapvars, procvars, faultvars, SameContents
<1> QED BY Zenon, <1>1, QuietContents

LEMMA StutterContents == ASSUME Counting, NEW CONSTANT p, Before(p), UNCHANGED vars PROVE After(p)
<1>1. SameContents /\ UNCHANGED <<pc, fpage, index, slot, victim>>
  BY Zenon DEF vars, memvars, swapvars, procvars, faultvars, SameContents
<1> QED BY Zenon, <1>1, QuietContents

(* What Before gives of the other invariants.                              *)
LEMMA BeforeFacts ==
    ASSUME NEW CONSTANT p, Before(p)
    PROVE  /\ Alone(p) /\ AInv(p) /\ AInv(p)' /\ ExecContents(p) /\ UserContents(p)
           /\ IInv /\ Owned(p) /\ SlotInv(p) /\ PhaseInv(p) /\ p \in Proc /\ RestOK
           /\ MemOK /\ 0 \notin Page /\ (pc[p] # "none" => p_pid[p] # 0)
<1>1. /\ Alone(p) /\ AInv(p) /\ AInv(p)' /\ ExecContents(p) /\ UserContents(p)
      /\ IInv /\ Owned(p) /\ SlotInv(p) /\ PhaseInv(p)
  BY Zenon DEF Before, Reads, CInv, AInv, PlaceInv, FrameInv
<1> QED BY Zenon, <1>1, Basics

LEMMA KernelAllocContents == ASSUME Counting, NEW CONSTANT p, Before(p), kernel_alloc PROVE After(p)
<1> DEFINE h == Head(frame_list)
<1>1. Owned(p) /\ MemOK /\ FreeInv /\ CleanInv
  BY Zenon, BeforeFacts, Basics
<1>2. /\ frame_list # <<>> /\ main_PG' = [main_PG EXCEPT ![h].Valid = 1]
      /\ ram' = [ram EXCEPT ![h] = Zero]
      /\ UNCHANGED <<sf_list, disk, p_pid, exec, pc, fpage, index, slot, victim>>
  BY Zenon DEF kernel_alloc, swapvars, procvars, faultvars
<1>3. h \in Frame /\ h \in Listed
  BY <1>1, <1>2 DEF MemOK, Listed
<1>4. main_PG[h].page_number = 0
  BY Zenon, <1>1, <1>3 DEF FreeInv, CleanInv, Owned
<1>5. /\ main_PG'[h].page_number = main_PG[h].page_number
      /\ \A f \in Frame \ {h} : main_PG'[f] = main_PG[f] /\ ram'[f] = ram[f]
  <2> HIDE DEF h
  <2> QED BY Zenon, <1>1, <1>2, <1>3 DEF MemOK, PTE
<1>6. SameContents
  BY Zenon, <1>2, <1>4, <1>5 DEF SameContents
<1> QED BY Zenon, <1>2, <1>6, QuietContents

LEMMA KernelFreeContents ==
    ASSUME Counting, NEW CONSTANT p, Before(p), NEW CONSTANT f \in Frame, kernel_free(f) PROVE After(p)
<1>1. Owned(p) /\ MemOK /\ KernelInv
  BY Zenon, BeforeFacts DEF IInv
<1>2. main_PG[f].page_number = 0
  BY Zenon, <1>1 DEF kernel_free, KernelInv, Owned
<1>3. /\ main_PG' = [main_PG EXCEPT ![f].Valid = 0, ![f].pid = 0, ![f].page_number = 0]
      /\ ram' = [ram EXCEPT ![f] = Zero]
      /\ UNCHANGED <<sf_list, disk, p_pid, exec, pc, fpage, index, slot, victim>>
  BY Zenon DEF kernel_free, free_kpages, swapvars, procvars, faultvars
<1>4. /\ main_PG'[f].page_number = 0
      /\ \A g \in Frame \ {f} : main_PG'[g] = main_PG[g] /\ ram'[g] = ram[g]
  BY Zenon, <1>1, <1>3 DEF MemOK, PTE
<1>5. SameContents
  BY Zenon, <1>2, <1>3, <1>4 DEF SameContents
<1> QED BY Zenon, <1>3, <1>5, QuietContents

LEMMA ReloadContents ==
    ASSUME Counting, NEW CONSTANT p, Before(p), NEW pg \in Page, NEW w, fault_reload(p, pg, w) PROVE After(p)
<1>1. SameContents /\ UNCHANGED <<pc, fpage, index, slot, victim>>
  BY Zenon DEF fault_reload, memvars, swapvars, procvars, faultvars, SameContents
<1> QED BY Zenon, <1>1, QuietContents

-----------------------------------------------------------------------------
(* Before the program runs, and after *)

LEMMA CreateContents == ASSUME NEW CONSTANT p, Before(p), proc_create(p) PROVE After(p)
<1>1. pc'[p] = "exec"
  BY Zenon, BeforeFacts DEF proc_create, Goto, RestOK
<1> QED BY Zenon, <1>1, NotRunning DEF Alive, Loading

(* No page is in memory yet.                                               *)
LEMMA NothingLoaded ==
    ASSUME NEW CONSTANT p, Before(p), pc[p] \in {"exec", "activate"}, main_PG' = main_PG,
           pc'[p] = "define", p \in exec'
    PROVE  After(p)
<1>1. ~Alive(p) /\ ~Alive(p)'
  BY Zenon, BeforeFacts DEF Alive, IInv, WorkInv, Work
<1>2. \A f \in Frame : main_PG[f].pid = 0 /\ main_PG[f].page_number = 0
  BY Zenon, BeforeFacts DEF AInv, PlaceInv, FrameInv, Owned, Bare
<1>3. ExecContents(p)'
  BY Zenon, <1>2 DEF ExecContents
<1>4. KeepsMem(p)
  BY Zenon, <1>1 DEF KeepsMem
<1> QED BY Zenon, <1>1, <1>3, <1>4 DEF After, ContentsInv, UserContents, MemStep

LEMMA RunContents == ASSUME NEW CONSTANT p, Before(p), runprogram(p) PROVE After(p)
<1>0. p \in Proc /\ pc \in [Proc -> Points]
  BY Zenon, BeforeFacts DEF RestOK
<1>1. /\ pc[p] = "exec" /\ main_PG' = main_PG
      /\ \/ pc'[p] = "none"
         \/ pc'[p] \in {"activate", "define"} /\ p \in exec'
  BY Zenon, <1>0 DEF runprogram, Running, Goto, thread_exit, memvars
<1>2. CASE pc'[p] = "define"
  BY Zenon, <1>1, <1>2, NothingLoaded
<1>3. CASE pc'[p] # "define"
  BY Zenon, <1>1, <1>3, NotRunning DEF Alive, Loading
<1> QED BY Zenon, <1>2, <1>3

LEMMA ActivateContents == ASSUME NEW CONSTANT p, Before(p), as_activate_done(p) PROVE After(p)
<1>1. pc[p] = "activate" /\ main_PG' = main_PG /\ pc'[p] = "define" /\ exec' = exec
  BY Zenon, BeforeFacts DEF as_activate_done, Running, Goto, RestOK, memvars, procvars
<1>2. p \in exec'
  BY Zenon, <1>1, BeforeFacts DEF IInv, WorkInv, Work
<1> QED BY Zenon, <1>1, <1>2, NothingLoaded

LEMMA EndContents ==
    ASSUME NEW CONSTANT p, Before(p), sys__exit(p) \/ as_destroy(p) \/ as_destroy_done(p)
    PROVE  After(p)
<1>1. pc \in [Proc -> Points] /\ p \in Proc
  BY Zenon, BeforeFacts DEF RestOK
<1>2. pc'[p] \in {"exit", "purged", "none"}
  BY Zenon, <1>1 DEF sys__exit, as_destroy, as_destroy_done, Running, Goto, thread_exit
<1> QED BY Zenon, <1>2, NotRunning DEF Alive, Loading

-----------------------------------------------------------------------------
(* runprogram *)

LEMMA LoadOrder ==
    ASSUME NFile <= LoadedData
    PROVE  /\ LoadedBefore(1) = {} /\ 1 \in Code
           /\ \A k \in Code : LoadedAll(k) = LoadedBefore(NCode + 1)
           /\ \A k \in Page : k < LastLoaded(k) => LoadedBefore(k + 1) = LoadedBefore(k) \cup {k}
           /\ \A k \in Page : k = LastLoaded(k) =>
                 LoadedAll(IF k \in Code THEN 1 ELSE NCode + 1) = LoadedBefore(k) \cup {k}
           /\ \A k \in Page \ Code : \A m \in Eager :
                 (IF m \in LoadedAll(k) THEN Elf(m) ELSE Zero) = InitialImage(m)
           /\ FilePages \in SUBSET (Eager \cap Data)
<1>1. LoadedBefore(1) = {} /\ 1 \in Code
  BY PagerAssumption DEF LoadedBefore, Code
<1>2. \A k \in Code : LoadedAll(k) = LoadedBefore(NCode + 1)
  <2>1. NCode + 1 \notin Code /\ (NCode + 1)..((NCode + 1) - 1) = {}
    BY PagerAssumption DEF Code
  <2>2. LoadedBefore(NCode + 1) = 1..LoadedCode
    BY Zenon, <2>1 DEF LoadedBefore
  <2> QED BY Zenon, <2>2 DEF LoadedAll
<1>3. \A k \in Page : k < LastLoaded(k) => LoadedBefore(k + 1) = LoadedBefore(k) \cup {k}
  <2> SUFFICES ASSUME NEW k \in Page, k < LastLoaded(k)
               PROVE  LoadedBefore(k + 1) = LoadedBefore(k) \cup {k}
    BY Zenon
  <2>1. CASE k \in Code
    <3>1. k + 1 \in Code /\ k \in Nat /\ k >= 1
      BY <2>1, PagerAssumption DEF LastLoaded, Code
    <3> QED BY <2>1, <3>1 DEF LoadedBefore
  <2>2. CASE k \notin Code
    <3>1. k + 1 \notin Code /\ k \in Nat /\ k >= NCode + 1 /\ NCode \in Nat
      BY <2>2, PagerAssumption DEF Page, Code
    <3> QED BY <2>2, <3>1 DEF LoadedBefore
  <2> QED BY Zenon, <2>1, <2>2
<1>4. \A k \in Page : k = LastLoaded(k) =>
         LoadedAll(IF k \in Code THEN 1 ELSE NCode + 1) = LoadedBefore(k) \cup {k}
  <2> SUFFICES ASSUME NEW k \in Page, k = LastLoaded(k)
               PROVE  LoadedAll(IF k \in Code THEN 1 ELSE NCode + 1) = LoadedBefore(k) \cup {k}
    BY Zenon
  <2>1. CASE k \in Code
    BY <1>1, <2>1, PagerAssumption DEF LoadedBefore, LoadedAll, LastLoaded, Code
  <2>2. CASE k \notin Code
    <3>1. k = NCode + NFile /\ NCode + 1 \notin Code /\ NFile \in Nat /\ NFile >= 1 /\ NCode \in Nat
      BY <2>2, PagerAssumption DEF LastLoaded, Code
    <3> QED BY <2>2, <3>1 DEF LoadedBefore, LoadedAll, FilePages
  <2> QED BY Zenon, <2>1, <2>2
<1>5. \A k \in Page \ Code : \A m \in Eager :
         (IF m \in LoadedAll(k) THEN Elf(m) ELSE Zero) = InitialImage(m)
  <2> SUFFICES ASSUME NEW k \in Page \ Code, NEW m \in Eager
               PROVE  m \in LoadedAll(k) <=> m \in Code \/ m <= NCode + NFile
    BY Zenon DEF InitialImage
  <2> QED BY PagerAssumption DEF LoadedAll, Eager, Code, FilePages
<1>6. FilePages \in SUBSET (Eager \cap Data)
  BY PagerAssumption DEF FilePages, Eager, Data
<1> QED BY Zenon, <1>1, <1>2, <1>3, <1>4, <1>5, <1>6

(* A step of runprogram after which it is still in it.                     *)
LEMMA StillLoading ==
    ASSUME NEW CONSTANT p, p \in exec, p \in exec', ExecContents(p)' PROVE After(p)
<1>1. KeepsMem(p)
  BY Zenon DEF KeepsMem, Alive
<1>2. UserContents(p)'
  BY Zenon DEF UserContents, Alive
<1> QED BY Zenon, <1>1, <1>2 DEF After, ContentsInv, MemStep

LEMMA DefineContents == ASSUME Counting, NEW CONSTANT p, Before(p), as_define_region(p) PROVE After(p)
<1> DEFINE h == Head(frame_list)
           pg == fpage[p]
<1>0. p \in Proc /\ pc \in [Proc -> Points] /\ fpage \in [Proc -> Page \cup {0}] /\ MemOK
  BY Zenon, BeforeFacts DEF RestOK
<1>1. pc[p] = "define" /\ UNCHANGED <<sf_list, disk, p_pid, exec, index, slot, victim>>
  BY Zenon DEF as_define_region, Running, swapvars, procvars
<1>2. p \in exec /\ p \in exec'
  BY Zenon, <1>1, BeforeFacts DEF IInv, WorkInv, Work
<1>3. CASE UNCHANGED <<memvars, pc, fpage>>
  <2>1. SameContents
    BY Zenon, <1>1, <1>3 DEF SameContents, memvars
  <2> QED BY Zenon, <1>1, <1>3, <2>1, QuietContents
<1>4. CASE /\ alloc_page(pg, p_pid[p], 1)
           /\ \/ pc' = pc
              \/ pc'[p] = "load" /\ fpage'[p] = 1
  <2>1. pg \in Eager /\ pg \in Page /\ \A f \in Frame : main_PG[f].page_number # pg
    <3>1. /\ pg \in Eager /\ pg \in Page /\ pg \in Nat
          /\ \A f \in Frame : main_PG[f].page_number < pg
      BY Zenon, <1>1, BeforeFacts, EagerPages DEF PhaseInv
    <3> QED BY <3>1
  <2> HIDE DEF h, pg
  <2>2. /\ h \in Frame /\ main_PG'[h].page_number = pg
        /\ \A f \in Frame \ {h} : main_PG'[f] = main_PG[f]
    <3>1. Alone(p) /\ AInv(p) /\ pc[p] # "none" /\ p_pid' = p_pid
      BY Zenon, <1>1, BeforeFacts
    <3>2. /\ h \in Frame
          /\ main_PG'[h] = [Valid |-> 1, pid |-> p_pid[p], page_number |-> pg, Dirty |-> 1]
          /\ \A f \in Frame \ {h} : main_PG'[f] = main_PG[f]
      BY Zenon, <1>4, <2>1, <3>1, Taken DEF h
    <3> QED BY <3>2
  <2>3. ram' = [ram EXCEPT ![h] = Zero]
    BY Zenon, <1>4 DEF alloc_page, h
  <2>4. ram'[h] = Zero /\ \A f \in Frame \ {h} : ram'[f] = ram[f]
    BY Zenon, <1>0, <2>2, <2>3 DEF MemOK
  <2>5. \A f \in Frame : main_PG[f].page_number # 0 =>
           main_PG[f].page_number \in Eager /\ ram[f] = Zero
    BY Zenon, <1>1, <1>2, BeforeFacts DEF ExecContents, Loading, LoadedPages
  <2>6. LoadedPages(p)' = {}
    <3>1. LoadedBefore(1) = {}
      BY PagerAssumption DEF LoadedBefore, Code
    <3> QED BY Zenon, <1>1, <1>4, <3>1 DEF LoadedPages
  <2>7. ExecContents(p)'
    BY Zenon, <2>1, <2>2, <2>4, <2>5, <2>6 DEF ExecContents
  <2> QED BY Zenon, <1>2, <2>7, StillLoading
<1> QED
  <2>1. \/ UNCHANGED <<memvars, pc, fpage>>
        \/ /\ alloc_page(pg, p_pid[p], 1)
           /\ \/ UNCHANGED pc
              \/ fpage' = [fpage EXCEPT ![p] = 1] /\ Goto(p, "load")
    BY Zenon DEF as_define_region
  <2> QED BY Zenon, <1>0, <1>3, <1>4, <2>1 DEF Goto

(* A step that leaves every page of a running program as it is.            *)
LEMMA StillRunning ==
    ASSUME NEW CONSTANT p, Alive(p), Alive(p)', p_pid' = p_pid, UserContents(p)',
           \A pg \in Page : Current(p, pg)' = Current(p, pg)
    PROVE  After(p)
<1>1. KeepsMem(p)
  BY Zenon DEF KeepsMem
<1>2. ExecContents(p)'
  BY Zenon DEF ExecContents, Loading, Alive
<1> QED BY Zenon, <1>1, <1>2 DEF After, ContentsInv, MemStep

LEMMA OnePage ==
    ASSUME NEW CONSTANT p, Before(p), NEW h \in Frame, main_PG[h].page_number \in Page
    PROVE  \A f \in Frame \ {h} : main_PG[f].page_number # main_PG[h].page_number
BY Zenon, BeforeFacts DEF Owned

(* load_elf in runprogram has copied page k to frame h.                    *)
LEMMA LoadedOne ==
    ASSUME NEW CONSTANT p, Before(p), p \in exec, p \in exec', pc[p] = "load",
           NEW h \in Frame, main_PG[h].page_number = fpage[p], fpage[p] \in Page,
           main_PG' = main_PG, ram' = [ram EXCEPT ![h] = Elf(fpage[p])],
           LoadedPages(p)' = LoadedPages(p) \cup {fpage[p]}
    PROVE  After(p)
<1>1. ExecContents(p) /\ Owned(p) /\ MemOK
  BY Zenon, BeforeFacts
<1>2. ram'[h] = Elf(fpage[p]) /\ \A f \in Frame \ {h} : ram'[f] = ram[f]
  BY Zenon, <1>1 DEF MemOK
<1>3. \A f \in Frame \ {h} : main_PG[f].page_number # fpage[p]
  BY Zenon, OnePage
<1>4. \A f \in Frame : main_PG[f].page_number # 0 =>
         /\ main_PG[f].page_number \in Eager
         /\ ram[f] = IF main_PG[f].page_number \in LoadedPages(p)
                     THEN Elf(main_PG[f].page_number) ELSE Zero
  BY Zenon, <1>1 DEF ExecContents, Loading
<1>5. ASSUME NEW f \in Frame, main_PG'[f].page_number # 0
      PROVE  /\ main_PG'[f].page_number \in Eager
             /\ ram'[f] = IF main_PG'[f].page_number \in LoadedPages(p)'
                          THEN Elf(main_PG'[f].page_number) ELSE Zero
  <2>1. CASE f = h
    BY Zenon, <1>2, <1>4, <1>5, <2>1
  <2>2. CASE f # h
    BY Zenon, <1>2, <1>3, <1>4, <1>5, <2>2
  <2> QED BY Zenon, <2>1, <2>2
<1>6. ExecContents(p)'
  BY Zenon, <1>5 DEF ExecContents
<1> QED BY Zenon, <1>6, StillLoading

(* load_elf for a fault: the frame holds the file's page, or, for a page   *)
(* that is taken for bss, what it was given.                               *)
LEMMA FaultLoaded ==
    ASSUME NEW CONSTANT p, Before(p), p \notin exec, exec' = exec, pc[p] = "load",
           NEW CONSTANT pg \in Page, fpage[p] = pg, NEW h \in Frame, main_PG[h].page_number = pg,
           UNCHANGED <<main_PG, sf_list, disk, p_pid>>,
           \/ is_bssSegment(pg) /\ pc'[p] = "user" /\ ram' = ram
           \/ /\ ~is_bssSegment(pg) /\ pc'[p] = "loaded" /\ fpage'[p] = pg
              /\ ram' = [ram EXCEPT ![h] = Elf(pg)]
    PROVE  After(p)
<1>0. Alone(p) /\ AInv(p) /\ AInv(p)' /\ MemOK /\ NFile \in Nat /\ NFile >= 1 /\ NCode \in Nat
  BY BeforeFacts, PagerAssumption
<1>1. Alive(p) /\ Alive(p)'
  BY Zenon DEF Alive
<1>2. /\ \A f \in Frame : main_PG[f].page_number \in Code /\ main_PG[f].page_number # pg
            => ram[f] = Elf(main_PG[f].page_number)
      /\ \A m \in FilePages : (\E f \in Frame : main_PG[f].page_number = m) \/ Saved(m, p)
      /\ pg \notin FilePages /\ ram[h] = Zero
  BY <1>1, BeforeFacts DEF UserContents
<1>3. \A f \in Frame \ {h} : main_PG[f].page_number # pg /\ ram'[f] = ram[f]
  BY Zenon, <1>0, OnePage DEF MemOK
<1>4. \A m \in FilePages : (\E f \in Frame : main_PG'[f].page_number = m) \/ Saved(m, p)'
  BY Zenon, <1>2 DEF Saved
<1>5. ASSUME NEW CONSTANT m \in Page, m # pg PROVE Current(p, m)' = Current(p, m)
  <2>1. SamePage(p, m)
    BY Zenon, <1>3, <1>5 DEF SamePage
  <2>2. ~Filling(p, m) /\ ~Filling(p, m)'
    BY Zenon, <1>5 DEF Filling
  <2> QED BY Zenon, <1>0, <2>1, <2>2, PageSame
<1>6. Current(p, pg) = InitialImage(pg)
  BY Zenon DEF Current
<1>7. CASE is_bssSegment(pg) /\ pc'[p] = "user" /\ ram' = ram
  <2>1. pg \in Data /\ pg \notin Code /\ InitialImage(pg) = Zero
    BY <1>0, <1>2, <1>7, PagerAssumption DEF is_bssSegment, Data, Code, FilePages, InitialImage
  <2>2. Current(p, pg)' = Zero
    <3>1. CurrentFacts(p, pg)'
      BY Zenon, <1>0, CurrentIs
    <3> QED BY Zenon, <1>0, <1>2, <1>7, <3>1 DEF CurrentFacts, Filling
  <2>3. UserContents(p)'
    BY Zenon, <1>2, <1>4, <1>7, <2>1 DEF UserContents
  <2>4. \A m \in Page : Current(p, m)' = Current(p, m)
    BY Zenon, <1>5, <1>6, <2>1, <2>2
  <2> QED BY Zenon, <1>1, <2>3, <2>4, StillRunning
<1>8. CASE /\ ~is_bssSegment(pg) /\ pc'[p] = "loaded" /\ fpage'[p] = pg
           /\ ram' = [ram EXCEPT ![h] = Elf(pg)]
  <2>1. pg \in Code
    BY <1>0, <1>2, <1>8 DEF is_bssSegment, Data, Code, Page, FilePages
  <2>2. ram'[h] = Elf(pg)
    BY Zenon, <1>0, <1>8 DEF MemOK
  <2>3. \A f \in Frame : main_PG[f].page_number \in Code => ram'[f] = Elf(main_PG[f].page_number)
    BY Zenon, <1>2, <1>3, <2>2
  <2>4. UserContents(p)'
    BY Zenon, <1>4, <1>8, <2>1, <2>3 DEF UserContents
  <2>5. Current(p, pg)' = InitialImage(pg)
    BY Zenon, <1>8 DEF Current
  <2>6. \A m \in Page : Current(p, m)' = Current(p, m)
    BY Zenon, <1>5, <1>6, <2>5
  <2> QED BY Zenon, <1>1, <2>4, <2>6, StillRunning
<1> QED BY Zenon, <1>7, <1>8

LEMMA LoadContents == ASSUME Counting, NEW CONSTANT p, Before(p), load_elf(p) PROVE After(p)
<1>0. /\ Alone(p) /\ AInv(p) /\ pc[p] = "load" /\ fpage[p] \in Page /\ NFile <= LoadedData
      /\ (p \in exec => fpage[p] <= LastLoaded(fpage[p]))
  <2>1. Alone(p) /\ AInv(p) /\ pc[p] = "load" /\ PhaseInv(p) /\ NFile <= LoadedData
    BY Zenon, BeforeFacts DEF load_elf, Running, Before, Reads
  <2> QED BY Zenon, <2>1, LoadEntry DEF PhaseInv
<1>1. PICK i \in Index :
        /\ LoadTLB(p).ent[i].frame \in Frame
        /\ main_PG[LoadTLB(p).ent[i].frame].page_number = fpage[p]
        /\ UNCHANGED <<main_PG, sf_list, disk, p_pid, exec>>
        /\ \/ /\ p \notin exec /\ is_bssSegment(fpage[p]) /\ pc'[p] = "user" /\ ram' = ram
           \/ p \in exec /\ pc'[p] = "exit"
           \/ /\ p \in exec \/ ~is_bssSegment(fpage[p])
              /\ ram' = [ram EXCEPT ![LoadTLB(p).ent[i].frame] = Elf(fpage[p])]
              /\ \/ /\ p \in exec /\ fpage[p] < LastLoaded(fpage[p])
                    /\ fpage'[p] = fpage[p] + 1 /\ pc' = pc
                 \/ /\ ~(p \in exec /\ fpage[p] < LastLoaded(fpage[p]))
                    /\ fpage'[p] = IF p \notin exec THEN fpage[p]
                                   ELSE IF fpage[p] \in Code THEN 1 ELSE NCode + 1
                    /\ pc'[p] = "loaded"
  BY Zenon, <1>0, LoadCases DEF LoadCase
<1> DEFINE h == LoadTLB(p).ent[i].frame
<1>2. CASE p \notin exec
  <2>1. ASSUME NEW CONSTANT pg \in Page, fpage[p] = pg PROVE After(p)
    BY Zenon, <1>0, <1>1, <1>2, <2>1, FaultLoaded
  <2> QED BY Zenon, <1>0, <2>1
<1>3. CASE p \in exec /\ pc'[p] = "exit"
  BY Zenon, <1>3, NotRunning DEF Alive, Loading
<1>4. CASE p \in exec /\ pc'[p] # "exit"
  <2>1. LoadedPages(p)' = LoadedPages(p) \cup {fpage[p]}
    <3>1. CASE fpage[p] < LastLoaded(fpage[p])
      <4>1. pc'[p] = "load" /\ fpage'[p] = fpage[p] + 1
        BY Zenon, <1>0, <1>1, <1>4, <3>1
      <4> QED BY Zenon, <1>0, <3>1, <4>1, LoadOrder DEF LoadedPages
    <3>2. CASE ~(fpage[p] < LastLoaded(fpage[p]))
      <4>1. pc'[p] = "loaded" /\ fpage'[p] = IF fpage[p] \in Code THEN 1 ELSE NCode + 1
        BY Zenon, <1>1, <1>4, <3>2
      <4>2. fpage[p] = LastLoaded(fpage[p])
        BY <1>0, <1>4, <3>2, PagerAssumption DEF LastLoaded, Page
      <4> QED BY Zenon, <1>0, <4>1, <4>2, LoadOrder DEF LoadedPages
    <3> QED BY Zenon, <3>1, <3>2
  <2>2. ram' = [ram EXCEPT ![h] = Elf(fpage[p])] /\ main_PG' = main_PG /\ p \in exec'
    BY Zenon, <1>1, <1>4
  <2> QED BY Zenon, <1>0, <1>1, <1>4, <2>1, <2>2, LoadedOne
<1> QED BY Zenon, <1>2, <1>3, <1>4

LEMMA ProtectContents == ASSUME Counting, NEW CONSTANT p, Before(p), protect(p) PROVE After(p)
<1>0. /\ Alone(p) /\ AInv(p) /\ AInv(p)' /\ Owned(p) /\ SlotInv(p) /\ PhaseInv(p) /\ p \in Proc
      /\ ExecContents(p) /\ UserContents(p) /\ NFile <= LoadedData /\ NCode \in Nat
      /\ p_pid[p] # 0
  <2>1. pc[p] # "none"
    BY Zenon DEF protect, Running
  <2> QED BY Zenon, <2>1, BeforeFacts, PagerAssumption DEF Before, Reads
<1>1. /\ fpage[p] \in Page /\ pc[p] = "loaded"
      /\ \A f \in Frame : main_PG'[f].page_number = main_PG[f].page_number
      /\ UNCHANGED <<ram, sf_list, disk, p_pid>>
      /\ \/ /\ p \in exec /\ fpage[p] \in Code /\ pc'[p] = "load" /\ fpage'[p] = NCode + 1
            /\ exec' = exec
         \/ /\ ~(p \in exec /\ fpage[p] \in Code) /\ pc'[p] = "user"
            /\ exec' = exec \ {p}
  BY Zenon, <1>0, ProtectCases
<1>2. CASE p \in exec /\ fpage[p] \in Code
  <2>1. LoadedPages(p)' = LoadedPages(p)
    BY Zenon, <1>0, <1>1, <1>2, LoadOrder DEF LoadedPages
  <2>2. ExecContents(p)'
    BY Zenon, <1>0, <1>1, <1>2, <2>1 DEF ExecContents, Loading
  <2> QED BY Zenon, <1>1, <1>2, <2>2, StillLoading
<1>3. CASE p \in exec /\ fpage[p] \notin Code
  <2>1. ~Alive(p) /\ Alive(p)' /\ ~Loading(p)'
    BY Zenon, <1>1, <1>3 DEF Alive, Loading
  <2>2. \A f \in Frame : main_PG[f].page_number # 0 =>
           main_PG[f].page_number \in Eager /\ ram[f] = InitialImage(main_PG[f].page_number)
    <3>1. \A f \in Frame : main_PG[f].page_number # 0 =>
             /\ main_PG[f].page_number \in Eager
             /\ ram[f] = IF main_PG[f].page_number \in LoadedAll(fpage[p])
                         THEN Elf(main_PG[f].page_number) ELSE Zero
      BY Zenon, <1>0, <1>1, <1>3 DEF ExecContents, Loading, LoadedPages
    <3> QED BY Zenon, <1>0, <1>1, <1>3, <3>1, LoadOrder
  <2>3. UserContents(p)'
    <3>1. \A f \in Frame : main_PG'[f].page_number \in Code => ram'[f] = Elf(main_PG'[f].page_number)
      BY <1>1, <2>2, PagerAssumption DEF Code, InitialImage
    <3>2. \A m \in FilePages : \E f \in Frame : main_PG'[f].page_number = m
      <4>1. FilePages \in SUBSET Eager
        BY Zenon, <1>0, LoadOrder
      <4> QED BY ZenonT(30), <1>0, <1>1, <1>3, <4>1 DEF PhaseInv
    <3> QED BY Zenon, <1>1, <1>3, <3>1, <3>2 DEF UserContents
  <2>4. ASSUME NEW CONSTANT m \in Page PROVE Current(p, m)' = InitialImage(m)
    <3>1. CurrentFacts(p, m)' /\ ~Filling(p, m)' /\ m # 0
      BY Zenon, <1>0, <1>1, <1>3, CurrentIs, BeforeFacts DEF Filling
    <3>2. ~Saved(m, p)'
      BY Zenon, <1>0, <1>1, <1>3 DEF SlotInv, Saved
    <3>3. CASE \E f \in Frame : main_PG[f].page_number = m
      BY Zenon, <1>0, <1>1, <2>2, <3>1, <3>3 DEF CurrentFacts
    <3>4. CASE \A f \in Frame : main_PG[f].page_number # m
      BY Zenon, <1>0, <1>1, <3>1, <3>2, <3>4 DEF CurrentFacts
    <3> QED BY Zenon, <3>3, <3>4
  <2>5. StartsMem(p) /\ ExecContents(p)'
    BY Zenon, <2>1, <2>4 DEF StartsMem, ExecContents
  <2> QED BY Zenon, <2>3, <2>5 DEF After, ContentsInv, MemStep
<1>4. CASE p \notin exec
  <2>1. Alive(p) /\ Alive(p)' /\ pc'[p] = "user"
    BY Zenon, <1>1, <1>4 DEF Alive
  <2>2. /\ \A f \in Frame : main_PG[f].page_number \in Code => ram[f] = Elf(main_PG[f].page_number)
        /\ \A m \in FilePages : (\E f \in Frame : main_PG[f].page_number = m) \/ Saved(m, p)
        /\ fpage[p] \in Code
    BY Zenon, <1>0, <1>1, <2>1 DEF UserContents
  <2>3. UserContents(p)'
    BY Zenon, <1>1, <2>1, <2>2 DEF UserContents, Saved
  <2>4. ASSUME NEW CONSTANT m \in Page PROVE Current(p, m)' = Current(p, m)
    <3>1. CurrentFacts(p, m) /\ CurrentFacts(p, m)' /\ ~Filling(p, m)'
      BY Zenon, <1>0, <2>1, CurrentIs DEF Filling
    <3>2. CASE Filling(p, m)
      <4>1. PICK f \in Frame : main_PG[f].page_number = m
        BY Zenon, <1>0, <1>1, <1>4, <3>2 DEF AInv, IInv, WorkInv, Kept, FramesOf, Filling
      <4>2. Current(p, m)' = ram[f]
        BY Zenon, <1>0, <1>1, <3>1, <4>1 DEF CurrentFacts
      <4>3. m \in Code /\ Current(p, m) = InitialImage(m)
        BY Zenon, <1>0, <1>1, <2>2, <3>1, <3>2 DEF CurrentFacts, Filling
      <4> QED BY Zenon, <2>2, <4>1, <4>2, <4>3 DEF InitialImage
    <3>3. CASE ~Filling(p, m)
      <4>1. SamePage(p, m)
        BY Zenon, <1>1 DEF SamePage
      <4> QED BY Zenon, <1>0, <1>1, <3>1, <3>3, <4>1, PageSame
    <3> QED BY Zenon, <3>2, <3>3
  <2> QED BY Zenon, <1>1, <2>1, <2>3, <2>4, StillRunning
<1> QED BY Zenon, <1>2, <1>3, <1>4

-----------------------------------------------------------------------------
(* The program's own steps and vm_fault *)

CodeElf == \A f \in Frame : main_PG[f].page_number \in Code => ram[f] = Elf(main_PG[f].page_number)

FileKept(p) ==
    \A pg \in FilePages : (\E f \in Frame : main_PG[f].page_number = pg) \/ Saved(pg, p)

(* Outside load_elf.                                                       *)
Faulting == {"user", "alloc", "swapOut", "swapped", "swapIn", "readIn"}

LEMMA FaultFacts ==
    ASSUME NEW CONSTANT p, Before(p), pc[p] \in Faulting
    PROVE  p \notin exec /\ Alive(p) /\ CodeElf /\ FileKept(p)
<1>1. p \notin exec
  BY Zenon, BeforeFacts DEF PhaseInv, Faulting
<1>2. Alive(p)
  BY Zenon, <1>1 DEF Alive, Faulting
<1> QED BY Zenon, <1>1, <1>2, BeforeFacts DEF UserContents, CodeElf, FileKept, Faulting

(* The file's data pages are as safe as their places.                      *)
LEMMA FileStays ==
    ASSUME NEW CONSTANT p, FileKept(p), p_pid' = p_pid, \A m \in FilePages : SamePage(p, m)
    PROVE  FileKept(p)'
BY Zenon DEF FileKept, SamePage, Saved

LEMMA StoreContents ==
    ASSUME Counting, NEW CONSTANT p, Before(p), NEW CONSTANT pg \in Page, NEW CONSTANT v \in Value,
           store(p, pg, v)
    PROVE  After(p)
<1> DEFINE i == Least(tlb_probe(TLB, pg))
<1>1. /\ pc[p] = "user" /\ pg \in Data /\ tlb_probe(TLB, pg) # {}
      /\ UNCHANGED <<main_PG, sf_list, disk, p_pid, exec>>
      /\ \/ ram' = [ram EXCEPT ![TLB.ent[i].frame] = Stored(p_pid[p], pg, v)] /\ pc' = pc
         \/ Goto(p, "exit")
  BY Zenon DEF store, Running, Before, Reads, swapvars, procvars
<1>2. /\ p \notin exec /\ Alive(p) /\ CodeElf /\ FileKept(p) /\ Alone(p) /\ AInv(p) /\ AInv(p)'
      /\ MemOK /\ RestOK /\ p \in Proc /\ Maps(TLB, main_PG) /\ pg \notin Code
  <2>1. pg \notin Code
    BY <1>1, PagerAssumption DEF Data, Code
  <2>2. pc[p] \in Faulting
    BY Zenon, <1>1 DEF Faulting
  <2>3. Maps(TLB, main_PG)
    BY Zenon, BeforeFacts DEF AInv, PlaceInv, TLBInv
  <2> QED BY Zenon, <2>1, <2>2, <2>3, FaultFacts, BeforeFacts
<1>3. CASE Goto(p, "exit")
  <2>1. pc'[p] = "exit"
    BY Zenon, <1>2, <1>3 DEF Goto, RestOK
  <2> QED BY Zenon, <2>1, NotRunning DEF Alive, Loading
<1>4. CASE ram' = [ram EXCEPT ![TLB.ent[i].frame] = Stored(p_pid[p], pg, v)] /\ pc' = pc
  <2>1. PICK h \in Frame : h = TLB.ent[i].frame /\ main_PG[h].page_number = pg
    <3>1. tlb_probe(TLB, pg) \in SUBSET Nat
      BY PagerAssumption DEF tlb_probe, Index
    <3>2. i \in tlb_probe(TLB, pg)
      BY Zenon, <1>1, <3>1, LeastIn
    <3> QED BY Zenon, <1>2, <3>2 DEF tlb_probe, Maps
  <2> HIDE DEF i
  <2>2. ram'[h] = Stored(p_pid[p], pg, v) /\ \A f \in Frame \ {h} : ram'[f] = ram[f]
    BY Zenon, <1>2, <1>4, <2>1 DEF MemOK
  <2>3. \A f \in Frame \ {h} : main_PG[f].page_number # pg
    BY Zenon, <2>1, OnePage
  <2>4. Alive(p)' /\ pc'[p] = "user"
    BY Zenon, <1>1, <1>2, <1>4 DEF Alive
  <2>5. UserContents(p)'
    <3>1. CodeElf'
      BY Zenon, <1>1, <1>2, <2>1, <2>2 DEF CodeElf
    <3>2. FileKept(p)'
      BY Zenon, <1>1, <1>2 DEF FileKept, Saved
    <3> QED BY Zenon, <2>4, <3>1, <3>2 DEF UserContents, CodeElf, FileKept
  <2>6. ASSUME NEW CONSTANT m \in Page \ {pg} PROVE Current(p, m)' = Current(p, m)
    <3>1. SamePage(p, m)
      BY Zenon, <1>1, <2>1, <2>2 DEF SamePage
    <3>2. ~Filling(p, m) /\ ~Filling(p, m)'
      BY Zenon, <1>1, <2>4 DEF Filling
    <3> QED BY Zenon, <1>1, <1>2, <2>4, <3>1, <3>2, PageSame
  <2>7. Current(p, pg)' = Stored(p_pid[p], pg, v)
    <3>1. CurrentFacts(p, pg)' /\ ~Filling(p, pg)'
      BY Zenon, <1>2, <2>4, CurrentIs DEF Filling
    <3> QED BY Zenon, <1>1, <1>2, <2>1, <2>2, <3>1 DEF CurrentFacts
  <2>8. WritesMem(p, pg, v)
    BY Zenon, <1>1, <1>2, <2>4, <2>6, <2>7 DEF WritesMem
  <2>9. ExecContents(p)'
    BY Zenon, <1>1, <1>2 DEF ExecContents, Loading
  <2> QED BY Zenon, <1>1, <2>5, <2>8, <2>9 DEF After, ContentsInv, MemStep
<1> QED BY Zenon, <1>1, <1>3, <1>4

(* A frame is taken for page pg, which load_elf then fills.                *)
LEMMA TakenContents ==
    ASSUME NEW CONSTANT p, Before(p), pc[p] \in {"user", "alloc"}, NEW CONSTANT pg \in Page,
           alloc_page(pg, p_pid[p], 1), \A f \in Frame : main_PG[f].page_number # pg,
           ~Saved(pg, p), pc'[p] = "load", fpage'[p] = pg, UNCHANGED <<sf_list, disk, p_pid, exec>>
    PROVE  After(p)
<1> DEFINE h == Head(frame_list)
<1>1. /\ p \notin exec /\ Alive(p) /\ CodeElf /\ FileKept(p) /\ Alone(p) /\ AInv(p) /\ AInv(p)'
      /\ MemOK /\ 0 \notin Page
  BY Zenon, FaultFacts, BeforeFacts DEF Faulting
<1>2. Alive(p)'
  BY Zenon, <1>1 DEF Alive
<1>3. ram' = [ram EXCEPT ![h] = Zero]
  BY Zenon DEF alloc_page
<1> HIDE DEF h
<1>4. /\ h \in Frame /\ main_PG[h].page_number = 0 /\ main_PG'[h].page_number = pg
      /\ \A f \in Frame \ {h} : main_PG'[f] = main_PG[f]
  <2>1. /\ h \in Frame /\ main_PG[h].page_number = 0
        /\ main_PG'[h] = [Valid |-> 1, pid |-> p_pid[p], page_number |-> pg, Dirty |-> 1]
        /\ \A f \in Frame \ {h} : main_PG'[f] = main_PG[f]
    BY Zenon, <1>1, Taken DEF h
  <2> QED BY <2>1
<1>5. ram'[h] = Zero /\ \A f \in Frame \ {h} : ram'[f] = ram[f]
  BY Zenon, <1>1, <1>3, <1>4 DEF MemOK
<1>6. ASSUME NEW CONSTANT m \in Page, m # pg PROVE SamePage(p, m)
  BY Zenon, <1>1, <1>4, <1>5, <1>6 DEF SamePage
<1>7. UserContents(p)'
  <2>1. pg \notin FilePages
    BY Zenon, <1>1 DEF FileKept
  <2>2. FileKept(p)'
    <3>1. FilePages \in SUBSET Page
      BY PagerAssumption DEF FilePages, Page
    <3> QED BY Zenon, <1>1, <1>6, <2>1, <3>1, FileStays
  <2>3. \A f \in Frame : main_PG'[f].page_number \in Code /\ main_PG'[f].page_number # pg
           => ram'[f] = Elf(main_PG'[f].page_number)
    BY Zenon, <1>1, <1>4, <1>5 DEF CodeElf
  <2>4. \A f \in Frame : main_PG'[f].page_number = pg => ram'[f] = Zero
    BY Zenon, <1>4, <1>5
  <2> QED BY Zenon, <2>1, <2>2, <2>3, <2>4 DEF UserContents, FileKept
<1>8. ASSUME NEW CONSTANT m \in Page PROVE Current(p, m)' = Current(p, m)
  <2>1. CurrentFacts(p, m) /\ CurrentFacts(p, m)' /\ ~Filling(p, m)
    BY Zenon, <1>1, CurrentIs DEF Filling
  <2>2. CASE m = pg
    BY Zenon, <1>1, <2>1, <2>2 DEF CurrentFacts
  <2>3. CASE m # pg
    <3>1. SamePage(p, m) /\ ~Filling(p, m)'
      BY Zenon, <1>6, <2>3 DEF Filling
    <3> QED BY Zenon, <1>1, <2>1, <3>1, PageSame
  <2> QED BY Zenon, <2>2, <2>3
<1> QED BY Zenon, <1>1, <1>2, <1>7, <1>8, StillRunning

(* Steps of vm_fault after which no page is being filled.                  *)
LEMMA MovesOn ==
    ASSUME NEW CONSTANT p, Before(p), pc[p] \in Faulting \ {"readIn"}, pc'[p] \in Faulting \ {"readIn"},
           p_pid' = p_pid, exec' = exec, CodeElf', FileKept(p)',
           pc'[p] = "swapped" => disk'[slot'[p]] = ram'[victim'[p]],
           \A m \in Page : SamePage(p, m) \/ Current(p, m)' = Current(p, m)
    PROVE  After(p)
<1>1. /\ p \notin exec /\ Alive(p) /\ CodeElf /\ FileKept(p) /\ Alone(p) /\ AInv(p) /\ AInv(p)'
  BY Zenon, FaultFacts, BeforeFacts
<1>2. Alive(p)'
  BY Zenon, <1>1 DEF Alive, Faulting
<1>3. UserContents(p)'
  BY Zenon DEF UserContents, CodeElf, FileKept, Faulting
<1>4. ASSUME NEW CONSTANT m \in Page PROVE Current(p, m)' = Current(p, m)
  <2>1. CASE SamePage(p, m)
    <3>1. ~Filling(p, m) /\ ~Filling(p, m)' /\ pc[p] # "none" /\ pc'[p] # "none"
      BY Zenon DEF Filling, Faulting
    <3> QED BY Zenon, <1>1, <2>1, <3>1, PageSame
  <2> QED BY Zenon, <2>1
<1> QED BY Zenon, <1>1, <1>2, <1>3, <1>4, StillRunning

(* The frame of a code page is freed: the page can be loaded again.        *)
LEMMA DropContents ==
    ASSUME Counting, NEW CONSTANT p, Before(p), pc[p] = "user", pc'[p] = "alloc", NEW h \in Frame,
           main_PG[h].page_number \in Code, main_PG[h].pid # 0, free_kpages(h),
           UNCHANGED <<sf_list, disk, p_pid, exec>>
    PROVE  After(p)
<1> DEFINE c == main_PG[h].page_number
<1>1. /\ p \notin exec /\ CodeElf /\ FileKept(p) /\ Alone(p) /\ AInv(p) /\ AInv(p)'
      /\ MemOK /\ 0 \notin Page /\ SlotInv(p) /\ pc[p] \in Faulting
  BY Zenon, FaultFacts, BeforeFacts DEF Faulting
<1>2. c \notin Data /\ c # 0 /\ c \in Page /\ 0 \notin Code /\ Data \in SUBSET Page
  BY PagerAssumption DEF Code, Data, Page
<1>3. main_PG'[h].page_number = 0 /\ \A f \in Frame \ {h} : main_PG'[f] = main_PG[f]
  BY Zenon, <1>1, Freed
<1>4. \A f \in Frame \ {h} : ram'[f] = ram[f]
  BY Zenon, <1>1 DEF free_kpages, MemOK
<1>5. \A f \in Frame \ {h} : main_PG[f].page_number # c
  BY Zenon, <1>2, OnePage
<1> HIDE DEF c
<1>6. ASSUME NEW CONSTANT m \in Page, m # c PROVE SamePage(p, m)
  <2>1. m # 0 /\ main_PG[h].page_number # m
    BY Zenon, <1>1, <1>6 DEF c
  <2> QED BY Zenon, <1>3, <1>4, <2>1 DEF SamePage
<1>7. ASSUME NEW CONSTANT m \in Page, m = c PROVE Current(p, m)' = Current(p, m)
  <2>1. CurrentFacts(p, m) /\ CurrentFacts(p, m)' /\ ~Filling(p, m) /\ ~Filling(p, m)'
    BY Zenon, <1>1, CurrentIs DEF Filling
  <2>2. Current(p, m) = Elf(m)
    BY Zenon, <1>1, <1>7, <2>1 DEF CurrentFacts, CodeElf, c
  <2>3. \A f \in Frame : main_PG'[f].page_number # m
    BY Zenon, <1>2, <1>3, <1>5, <1>7
  <2>4. ~Saved(m, p)'
    BY <1>1, <1>2, <1>7 DEF Saved, SlotInv, FreeSlot
  <2>5. Current(p, m)' = InitialImage(m)
    BY Zenon, <1>1, <2>1, <2>3, <2>4 DEF CurrentFacts
  <2>6. m \in Code
    BY Zenon, <1>7 DEF c
  <2> QED BY Zenon, <2>2, <2>5, <2>6 DEF InitialImage
<1>8. CodeElf'
  BY Zenon, <1>1, <1>2, <1>3, <1>4 DEF CodeElf
<1>9. FileKept(p)'
  <2>1. FilePages \in SUBSET Data
    BY PagerAssumption DEF FilePages, Data
  <2> QED BY Zenon, <1>1, <1>2, <1>6, <2>1, FileStays
<1> QED BY Zenon, <1>1, <1>6, <1>7, <1>8, <1>9, MovesOn DEF Faulting

LEMMA CodeFaultContents ==
    ASSUME Counting, NEW CONSTANT p, Before(p), NEW CONSTANT pg \in Page, NEW w, fault_code(p, pg, w)
    PROVE  After(p)
<1>1. /\ Alone(p) /\ AInv(p) /\ p \in Proc /\ RestOK /\ IInv /\ Owned(p) /\ SlotInv(p)
      /\ pc[p] = "user" /\ p_pid[p] # 0
  <2>1. pc[p] = "user"
    BY Zenon DEF fault_code, Miss, Running
  <2> QED BY Zenon, <2>1, BeforeFacts
<1>2. /\ UNCHANGED <<sf_list, disk, p_pid, exec>> /\ pageSearch(pg) = {} /\ pg \in Code
      /\ fpage' = [fpage EXCEPT ![p] = pg]
  BY Zenon DEF fault_code, Miss, swapvars, procvars
<1>3. fpage'[p] = pg
  BY Zenon, <1>1, <1>2 DEF RestOK
<1>4. \A f \in Frame : main_PG[f].page_number # pg
  BY Zenon, <1>1, <1>2, WhereIs
<1>5. ~Saved(pg, p)
  <2>1. pg \notin Data /\ pg # 0
    BY <1>2, PagerAssumption DEF Code, Data
  <2> QED BY <1>1, <2>1 DEF SlotInv, FreeSlot, Saved
<1>6. CASE UNCHANGED <<memvars, pc>>
  <2>1. SameContents
    BY Zenon, <1>2, <1>6 DEF SameContents, memvars
  <2> QED BY Zenon, <1>1, <1>6, <2>1, QuietContents
<1>7. CASE alloc_page(pg, p_pid[p], 1) /\ Goto(p, "load")
  <2>1. pc'[p] = "load"
    BY Zenon, <1>1, <1>7 DEF Goto, RestOK
  <2> QED BY Zenon, <1>1, <1>2, <1>3, <1>4, <1>5, <1>7, <2>1, TakenContents
<1>8. CASE (\E f \in victim_pageSearch(p, Code) : free_kpages(f)) /\ Goto(p, "alloc")
  <2>1. PICK f \in Frame :
          main_PG[f].page_number \in Code /\ main_PG[f].pid # 0 /\ free_kpages(f)
    BY Zenon, <1>1, <1>8 DEF victim_pageSearch
  <2>2. pc'[p] = "alloc"
    BY Zenon, <1>1, <1>8 DEF Goto, RestOK
  <2> QED BY Zenon, <1>1, <1>2, <2>1, <2>2, DropContents
<1> QED BY Zenon, <1>6, <1>7, <1>8 DEF fault_code

(* swapOut chooses its victim and its slot.                                *)
LEMMA SwapBegunContents ==
    ASSUME Counting, NEW CONSTANT p, Before(p), pc[p] = "user", swapOut_begin(p),
           UNCHANGED <<memvars, sf_list, disk, p_pid, exec>>
    PROVE  After(p)
<1>1. SameContents /\ p \in Proc /\ RestOK
  BY Zenon, BeforeFacts DEF SameContents, memvars
<1>2. CASE pc' = pc
  BY Zenon, <1>1, <1>2, QuietContents
<1>3. CASE Goto(p, "swapOut")
  <2>1. pc'[p] = "swapOut" /\ pc[p] \in Faulting
    BY Zenon, <1>1, <1>3 DEF Goto, RestOK, Faulting
  <2>2. CodeElf /\ FileKept(p)
    BY Zenon, <2>1, FaultFacts
  <2>3. CodeElf' /\ FileKept(p)'
    BY Zenon, <2>2 DEF CodeElf, FileKept, Saved, memvars
  <2>4. \A m \in Page : SamePage(p, m)
    BY Zenon DEF SamePage, memvars
  <2> QED BY Zenon, <2>1, <2>3, <2>4, MovesOn DEF Faulting
<1> QED BY Zenon, <1>2, <1>3 DEF swapOut_begin

LEMMA NewDataContents ==
    ASSUME Counting, NEW CONSTANT p, Before(p), NEW CONSTANT pg \in Page, NEW w, fault_data_new(p, pg, w)
    PROVE  After(p)
<1>1. /\ Alone(p) /\ AInv(p) /\ p \in Proc /\ RestOK /\ IInv /\ Owned(p) /\ pc[p] = "user"
  BY Zenon, BeforeFacts DEF fault_data_new, Miss, Running
<1>2. /\ UNCHANGED <<sf_list, disk, p_pid, exec>> /\ pageSearch(pg) = {} /\ ~Saved(pg, p)
      /\ fpage' = [fpage EXCEPT ![p] = pg]
  BY Zenon DEF fault_data_new, Miss, Saved, swapvars, procvars
<1>3. fpage'[p] = pg
  BY Zenon, <1>1, <1>2 DEF RestOK
<1>4. \A f \in Frame : main_PG[f].page_number # pg
  BY Zenon, <1>1, <1>2, WhereIs
<1>5. CASE alloc_page(pg, p_pid[p], 1) /\ Goto(p, "load")
  <2>1. pc'[p] = "load"
    BY Zenon, <1>1, <1>5 DEF Goto, RestOK
  <2> QED BY Zenon, <1>1, <1>2, <1>3, <1>4, <1>5, <2>1, TakenContents
<1>6. CASE swapOut_begin(p) /\ UNCHANGED memvars
  BY Zenon, <1>1, <1>2, <1>6, SwapBegunContents
<1> QED BY Zenon, <1>5, <1>6 DEF fault_data_new

LEMMA SwappedDataContents ==
    ASSUME Counting, NEW CONSTANT p, Before(p), NEW CONSTANT pg \in Page, NEW w, fault_data_swapped(p, pg, w)
    PROVE  After(p)
<1>1. pc[p] = "user" /\ swapOut_begin(p) /\ UNCHANGED <<memvars, sf_list, disk, p_pid, exec>>
  BY Zenon DEF fault_data_swapped, Miss, Running, swapvars, procvars
<1> QED BY Zenon, <1>1, SwapBegunContents

(* swapOut writes to a slot that no page is in.                            *)
LEMMA SwapOutContents == ASSUME NEW CONSTANT p, Before(p), swapOut(p) PROVE After(p)
<1>1. Alone(p) /\ AInv(p) /\ p \in Proc /\ RestOK /\ pc[p] = "swapOut" /\ p_pid[p] # 0
  <2>1. pc[p] = "swapOut"
    BY Zenon DEF swapOut, Running
  <2> QED BY Zenon, <2>1, BeforeFacts
<1>2. /\ disk' = [disk EXCEPT ![slot[p]] = ram[victim[p]]] /\ pc'[p] = "swapped"
      /\ UNCHANGED <<main_PG, ram, sf_list, p_pid, exec, slot, victim>>
  BY Zenon, <1>1 DEF swapOut, Goto, Alone, RestOK, memvars, procvars, faultvars
<1>3. slot[p] \in Slot /\ sf_list[slot[p]].p_pid = 0
  BY <1>1, SwappedFacts DEF FreeSlot
<1>4. /\ disk'[slot[p]] = ram[victim[p]] /\ \A s \in Slot \ {slot[p]} : disk'[s] = disk[s]
  BY Zenon, <1>1, <1>2, <1>3 DEF RestOK
<1>5. pc[p] \in Faulting \ {"readIn"} /\ pc'[p] \in Faulting \ {"readIn"}
  BY Zenon, <1>1, <1>2 DEF Faulting
<1>6. CodeElf /\ FileKept(p)
  BY Zenon, <1>5, FaultFacts
<1>7. CodeElf' /\ FileKept(p)'
  BY Zenon, <1>2, <1>6 DEF CodeElf, FileKept, Saved
<1>8. \A m \in Page : SamePage(p, m)
  BY Zenon, <1>1, <1>2, <1>3, <1>4 DEF SamePage
<1> QED BY Zenon, <1>2, <1>4, <1>5, <1>7, <1>8, MovesOn

(* The page is where swapOut wrote it.                                     *)
LEMMA SwapOutDoneContents == ASSUME Counting, NEW CONSTANT p, Before(p), swapOut_done(p) PROVE After(p)
<1> DEFINE f == victim[p]
           v == main_PG[victim[p]]
           t == slot[p]
<1>1. /\ Alone(p) /\ AInv(p) /\ p \in Proc /\ RestOK /\ pc[p] = "swapped" /\ p_pid[p] # 0
      /\ 0 \notin Page /\ AInv(p)' /\ MemOK
  <2>1. pc[p] = "swapped"
    BY Zenon DEF swapOut_done, Running
  <2> QED BY Zenon, <2>1, BeforeFacts
<1>2. /\ free_kpages(f) /\ UNCHANGED <<disk, p_pid, exec>>
      /\ sf_list' = [sf_list EXCEPT ![t] =
            [p_number |-> v.page_number, p_pid |-> v.pid, Dirty |-> v.Dirty]]
      /\ pc'[p] \in {"alloc", "swapIn"}
  BY Zenon, <1>1 DEF swapOut_done, Goto, RestOK, procvars
<1>3. /\ f \in Frame /\ t \in Slot /\ v.pid = p_pid[p] /\ v.page_number \in Data
      /\ sf_list[t].p_pid = 0
  BY <1>1, SwappedFacts DEF FreeSlot
<1>4. main_PG'[f].page_number = 0 /\ \A g \in Frame \ {f} : main_PG'[g] = main_PG[g]
  <2>1. v.pid # 0 /\ pc[p] \notin {"activate", "purged"}
    BY Zenon, <1>1, <1>3
  <2> QED BY Zenon, <1>1, <1>2, <1>3, <2>1, Freed
<1>5. /\ sf_list'[t].p_number = v.page_number /\ sf_list'[t].p_pid = p_pid[p]
      /\ \A s \in Slot \ {t} : sf_list'[s] = sf_list[s]
  BY Zenon, <1>1, <1>2, <1>3 DEF RestOK
<1>6. /\ v.page_number \in Page /\ v.page_number \notin Code
      /\ \A g \in Frame \ {f} : main_PG[g].page_number # v.page_number /\ ram'[g] = ram[g]
  <2>1. v.page_number \in Page /\ v.page_number \notin Code
    BY <1>3, PagerAssumption DEF Data, Code, Page
  <2> QED BY Zenon, <1>1, <1>2, <1>3, <2>1, OnePage DEF free_kpages, MemOK
<1>7. disk[t] = ram[f] /\ CodeElf /\ FileKept(p) /\ pc[p] \in Faulting \ {"readIn"}
  <2>1. pc[p] \in Faulting \ {"readIn"}
    BY Zenon, <1>1 DEF Faulting
  <2>2. Alive(p) /\ CodeElf /\ FileKept(p)
    BY Zenon, <2>1, FaultFacts
  <2> QED BY Zenon, <1>1, <2>1, <2>2, BeforeFacts DEF UserContents
<1> HIDE DEF f, t, v
<1>8. ASSUME NEW CONSTANT m \in Page, m # v.page_number PROVE SamePage(p, m)
  <2>1. m # 0 /\ main_PG[f].page_number # m
    BY Zenon, <1>1, <1>8 DEF f, v
  <2> QED BY Zenon, <1>1, <1>2, <1>3, <1>4, <1>5, <1>6, <1>8, <2>1 DEF SamePage
<1>9. ASSUME NEW CONSTANT m \in Page, m = v.page_number
      PROVE  Current(p, m)' = Current(p, m) /\ Saved(m, p)'
  <2>1. CurrentFacts(p, m) /\ CurrentFacts(p, m)' /\ ~Filling(p, m) /\ ~Filling(p, m)'
    BY Zenon, <1>1, <1>2, CurrentIs DEF Filling
  <2>2. Current(p, m) = ram[f]
    BY Zenon, <1>1, <1>3, <1>9, <2>1 DEF CurrentFacts, f, v
  <2>3. \A g \in Frame : main_PG'[g].page_number # m
    BY Zenon, <1>1, <1>4, <1>6, <1>9
  <2>4. Current(p, m)' = disk'[t]
    BY Zenon, <1>1, <1>2, <1>3, <1>5, <1>9, <2>1, <2>3 DEF CurrentFacts
  <2>5. Saved(m, p)'
    BY Zenon, <1>2, <1>3, <1>5, <1>9 DEF Saved
  <2> QED BY Zenon, <1>2, <1>7, <2>2, <2>4, <2>5
<1>10. CodeElf'
  <2>1. 0 \notin Code
    BY PagerAssumption DEF Code
  <2> QED BY Zenon, <1>4, <1>6, <1>7, <2>1 DEF CodeElf
<1>11. FileKept(p)'
  <2>1. FilePages \in SUBSET Page
    BY PagerAssumption DEF FilePages, Page
  <2>2. ASSUME NEW CONSTANT m \in FilePages
        PROVE  (\E g \in Frame : main_PG'[g].page_number = m) \/ Saved(m, p)'
    <3>1. CASE m = v.page_number
      BY Zenon, <1>9, <2>1, <3>1
    <3>2. CASE m # v.page_number
      BY <1>2, <1>7, <1>8, <2>1, <3>2 DEF SamePage, FileKept, Saved
    <3> QED BY Zenon, <3>1, <3>2
  <2> QED BY Zenon, <2>2 DEF FileKept
<1>12. \A m \in Page : SamePage(p, m) \/ Current(p, m)' = Current(p, m)
  BY Zenon, <1>8, <1>9
<1> QED BY Zenon, <1>2, <1>7, <1>10, <1>11, <1>12, MovesOn DEF Faulting

LEMMA AllocAgainContents == ASSUME Counting, NEW CONSTANT p, Before(p), alloc_again(p) PROVE After(p)
<1>1. /\ pc[p] = "alloc" /\ panicked = "no"
      /\ UNCHANGED <<sf_list, disk, p_pid, exec, fpage, index, slot, victim>>
  BY Zenon DEF alloc_again, Running, swapvars, procvars, faultvars
<1>2. RestOK /\ p \in Proc /\ PhaseInv(p) /\ fpage[p] \in Page
  BY Zenon, <1>1, BeforeFacts DEF IInv, WorkInv, Work
<1>3. CASE alloc_page(fpage[p], p_pid[p], 1) /\ Goto(p, "load")
  <2>1. pc'[p] = "load"
    BY Zenon, <1>2, <1>3 DEF Goto, RestOK
  <2>2. (\A f \in Frame : main_PG[f].page_number # fpage[p]) /\ ~Saved(fpage[p], p)
    BY Zenon, <1>1, <1>2 DEF PhaseInv, SavedIn, Saved
  <2>3. ASSUME NEW CONSTANT pg \in Page, fpage[p] = pg PROVE After(p)
    BY Zenon, <1>1, <1>3, <2>1, <2>2, <2>3, TakenContents
  <2> QED BY Zenon, <1>2, <2>3
<1>4. CASE UNCHANGED <<memvars, pc>>
  <2>1. SameContents
    BY Zenon, <1>1, <1>4 DEF SameContents, memvars
  <2> QED BY Zenon, <1>1, <1>4, <2>1, QuietContents
<1> QED BY Zenon, <1>3, <1>4 DEF alloc_again

(* The page has a frame, but is in the slot until it is read.              *)
LEMMA SwapInContents == ASSUME Counting, NEW CONSTANT p, Before(p), swapIn(p) PROVE After(p)
<1> DEFINE s == sf_list[index[p]]
           h == Head(frame_list)
<1>1. /\ Alone(p) /\ AInv(p) /\ AInv(p)' /\ p \in Proc /\ RestOK /\ pc[p] = "swapIn" /\ p_pid[p] # 0
      /\ 0 \notin Page /\ MemOK /\ SlotInv(p) /\ PhaseInv(p) /\ pc[p] \in Faulting
  <2>1. pc[p] = "swapIn"
    BY Zenon DEF swapIn, Running
  <2> QED BY Zenon, <2>1, BeforeFacts DEF Faulting
<1>2. UNCHANGED <<sf_list, disk, p_pid, exec, fpage, slot, index>>
  BY Zenon DEF swapIn, swapvars, procvars
<1>3. /\ index[p] \in Slot /\ s.p_number = fpage[p] /\ s.p_pid = p_pid[p] /\ s.Dirty \in {0, 1}
      /\ fpage[p] \in Page /\ p \notin exec /\ fpage[p] \in Data
      /\ \A f \in Frame : main_PG[f].page_number # fpage[p]
  <2>1. Work(p)
    BY Zenon, <1>1 DEF AInv, IInv, WorkInv
  <2>2. /\ index[p] \in Slot /\ s.p_number = fpage[p] /\ s.p_pid = p_pid[p] /\ s.Dirty \in {0, 1}
        /\ fpage[p] \in Page /\ p \notin exec /\ \A f \in Frame : main_PG[f].page_number # fpage[p]
    <3>1. 0 \notin Slot
      BY PagerAssumption DEF Slot
    <3> QED BY Zenon, <1>1, <2>1, <3>1 DEF Work, PhaseInv, SavedIn, RestOK, SwapEnt
  <2> QED BY <1>1, <2>2 DEF SlotInv, FreeSlot
<1>4. CASE UNCHANGED <<memvars, pc, victim>>
  <2>1. SameContents
    BY Zenon, <1>2, <1>4 DEF SameContents, memvars
  <2> QED BY Zenon, <1>2, <1>4, <2>1, QuietContents
<1>5. CASE /\ alloc_page(s.p_number, s.p_pid, s.Dirty)
           /\ \/ UNCHANGED pc /\ panicked' = "addTLB"
              \/ Goto(p, "readIn")
  <2>1. alloc_page(fpage[p], p_pid[p], s.Dirty) /\ ram' = [ram EXCEPT ![h] = Zero]
    BY Zenon, <1>3, <1>5 DEF alloc_page
  <2> HIDE DEF h
  <2>2. /\ h \in Frame /\ main_PG[h].page_number = 0 /\ main_PG'[h].page_number = fpage[p]
        /\ \A f \in Frame \ {h} : main_PG'[f] = main_PG[f]
    <3>1. /\ h \in Frame /\ main_PG[h].page_number = 0
          /\ main_PG'[h] = [Valid |-> 1, pid |-> p_pid[p], page_number |-> fpage[p], Dirty |-> s.Dirty]
          /\ \A f \in Frame \ {h} : main_PG'[f] = main_PG[f]
      <4> HIDE DEF s
      <4>1. /\ pc[p] # "none" /\ p_pid' = p_pid /\ s.Dirty \in {0, 1} /\ fpage[p] \in Page
            /\ alloc_page(fpage[p], p_pid[p], s.Dirty)
            /\ \A f \in Frame : main_PG[f].page_number # fpage[p]
        BY Zenon, <1>1, <1>2, <1>3, <2>1
      <4> QED BY Zenon, <1>1, <4>1, Taken DEF h
    <3> QED BY <3>1
  <2>3. \A f \in Frame \ {h} : ram'[f] = ram[f]
    BY Zenon, <1>1, <2>1, <2>2 DEF MemOK
  <2>4. pc'[p] = "readIn"
    <3>1. panicked' # "addTLB"
      BY Zenon, <1>1 DEF AInv, PlaceInv, NoTLBPanic
    <3> QED BY Zenon, <1>1, <1>5, <3>1 DEF Goto, RestOK
  <2>5. Alive(p) /\ CodeElf /\ FileKept(p)
    BY Zenon, <1>1, FaultFacts
  <2>6. Alive(p)'
    BY Zenon, <1>2, <1>3, <2>4 DEF Alive
  <2>7. ASSUME NEW CONSTANT m \in Page, m # fpage[p] PROVE SamePage(p, m)
    BY Zenon, <1>1, <1>2, <2>2, <2>3, <2>7 DEF SamePage
  <2>8. CodeElf'
    <3>1. fpage[p] \notin Code
      BY <1>3, PagerAssumption DEF Data, Code
    <3> QED BY Zenon, <2>2, <2>3, <2>5, <3>1 DEF CodeElf
  <2>9. FileKept(p)'
    <3>1. FilePages \in SUBSET Page
      BY PagerAssumption DEF FilePages, Page
    <3>2. ASSUME NEW CONSTANT m \in FilePages
          PROVE  (\E g \in Frame : main_PG'[g].page_number = m) \/ Saved(m, p)'
      <4>1. CASE m = fpage[p]
        BY Zenon, <2>2, <4>1
      <4>2. CASE m # fpage[p]
        BY Zenon, <1>2, <2>5, <2>7, <3>1, <4>2 DEF SamePage, FileKept, Saved
      <4> QED BY Zenon, <4>1, <4>2
    <3> QED BY Zenon, <3>2 DEF FileKept
  <2>10. UserContents(p)'
    BY Zenon, <2>4, <2>8, <2>9 DEF UserContents, CodeElf, FileKept
  <2>11. ASSUME NEW CONSTANT m \in Page PROVE Current(p, m)' = Current(p, m)
    <3>1. CurrentFacts(p, m) /\ CurrentFacts(p, m)' /\ ~Filling(p, m)
      BY Zenon, <1>1, CurrentIs DEF Filling
    <3>2. CASE m = fpage[p]
      <4>1. Current(p, m)' = disk[index[p]]
        BY Zenon, <1>1, <1>2, <2>4, <3>1, <3>2 DEF CurrentFacts
      <4>2. Current(p, m) = disk[index[p]]
        BY Zenon, <1>1, <1>3, <3>1, <3>2 DEF CurrentFacts
      <4> QED BY Zenon, <4>1, <4>2
    <3>3. CASE m # fpage[p]
      <4>1. SamePage(p, m) /\ ~Filling(p, m)'
        BY Zenon, <1>2, <2>7, <3>3 DEF Filling
      <4> QED BY Zenon, <1>1, <1>2, <2>4, <3>1, <4>1, PageSame
    <3> QED BY Zenon, <3>2, <3>3
  <2> QED BY Zenon, <1>2, <2>5, <2>6, <2>10, <2>11, StillRunning
<1> QED
  <2>1. \/ UNCHANGED <<memvars, TLB, pc, victim>>
        \/ /\ alloc_page(s.p_number, s.p_pid, s.Dirty)
           /\ \/ panic("addTLB") /\ UNCHANGED <<TLB, pc>>
              \/ Goto(p, "readIn")
    BY Zenon DEF swapIn
  <2> QED BY Zenon, <1>4, <1>5, <2>1 DEF panic

LEMMA SwapInReadContents == ASSUME NEW CONSTANT p, Before(p), swapIn_read(p) PROVE After(p)
<1> DEFINE h == victim[p]
           x == index[p]
<1>1. /\ Alone(p) /\ AInv(p) /\ AInv(p)' /\ p \in Proc /\ RestOK /\ pc[p] = "readIn" /\ p_pid[p] # 0
      /\ 0 \notin Page /\ MemOK /\ SlotInv(p) /\ PhaseInv(p) /\ pc[p] \in Faulting
  <2>1. pc[p] = "readIn"
    BY Zenon DEF swapIn_read, Running
  <2> QED BY Zenon, <2>1, BeforeFacts DEF Faulting
<1>2. /\ ram' = [ram EXCEPT ![h] = disk[x]] /\ sf_list' = [sf_list EXCEPT ![x] = FreeSlot]
      /\ pc'[p] = "user" /\ UNCHANGED <<main_PG, disk, p_pid, exec>>
  BY Zenon, <1>1 DEF swapIn_read, Resume, Goto, Alone, RestOK, procvars
<1>3. /\ x \in Slot /\ h \in Frame /\ main_PG[h].page_number = fpage[p] /\ fpage[p] \in Page
      /\ sf_list[x].p_number = fpage[p] /\ fpage[p] \in Data
  <2>1. Work(p) /\ 0 \notin Slot
    BY <1>1, PagerAssumption DEF AInv, IInv, WorkInv, Slot
  <2>2. /\ x \in Slot /\ h \in Frame /\ main_PG[h].page_number = fpage[p] /\ fpage[p] \in Page
        /\ sf_list[x].p_number = fpage[p]
    BY Zenon, <1>1, <2>1 DEF Work, PhaseInv, SavedIn
  <2> QED BY <1>1, <2>2 DEF SlotInv, FreeSlot
<1>4. /\ sf_list'[x].p_number = 0 /\ \A s \in Slot \ {x} : sf_list'[s] = sf_list[s]
      /\ ram'[h] = disk[x] /\ \A f \in Frame \ {h} : ram'[f] = ram[f]
  BY Zenon, <1>1, <1>2, <1>3 DEF RestOK, MemOK, FreeSlot
<1>5. Alive(p) /\ p \notin exec /\ CodeElf /\ FileKept(p)
  BY Zenon, <1>1, FaultFacts
<1>6. Alive(p)'
  BY Zenon, <1>2, <1>5 DEF Alive
<1> HIDE DEF h, x
<1>7. ASSUME NEW CONSTANT m \in Page, m # fpage[p] PROVE SamePage(p, m)
  BY Zenon, <1>1, <1>2, <1>3, <1>4, <1>7 DEF SamePage
<1>8. CodeElf'
  <2>1. fpage[p] \notin Code
    BY <1>3, PagerAssumption DEF Data, Code
  <2> QED BY Zenon, <1>2, <1>3, <1>4, <1>5, <2>1 DEF CodeElf
<1>9. FileKept(p)'
  <2>1. FilePages \in SUBSET Page
    BY PagerAssumption DEF FilePages, Page
  <2>2. ASSUME NEW CONSTANT m \in FilePages
        PROVE  (\E g \in Frame : main_PG'[g].page_number = m) \/ Saved(m, p)'
    <3>1. CASE m = fpage[p]
      BY Zenon, <1>2, <1>3, <3>1
    <3>2. CASE m # fpage[p]
      BY <1>2, <1>5, <1>7, <2>1, <3>2 DEF SamePage, FileKept, Saved
    <3> QED BY Zenon, <3>1, <3>2
  <2> QED BY Zenon, <2>2 DEF FileKept
<1>10. UserContents(p)'
  BY Zenon, <1>2, <1>8, <1>9 DEF UserContents, CodeElf, FileKept
<1>11. ASSUME NEW CONSTANT m \in Page PROVE Current(p, m)' = Current(p, m)
  <2>1. CurrentFacts(p, m) /\ CurrentFacts(p, m)' /\ ~Filling(p, m)'
    BY Zenon, <1>1, <1>2, CurrentIs DEF Filling
  <2>2. CASE m = fpage[p]
    <3>1. Current(p, m) = disk[x]
      BY Zenon, <1>1, <2>1, <2>2 DEF CurrentFacts, x
    <3>2. Current(p, m)' = ram'[h]
      BY Zenon, <1>1, <1>2, <1>3, <2>1, <2>2 DEF CurrentFacts
    <3> QED BY Zenon, <1>4, <3>1, <3>2
  <2>3. CASE m # fpage[p]
    <3>1. SamePage(p, m) /\ ~Filling(p, m)
      BY Zenon, <1>7, <2>3 DEF Filling
    <3> QED BY Zenon, <1>1, <1>2, <2>1, <3>1, PageSame
  <2> QED BY Zenon, <2>2, <2>3
<1> QED BY Zenon, <1>2, <1>5, <1>6, <1>10, <1>11, StillRunning

-----------------------------------------------------------------------------
(* The invariant *)

LEMMA InitContents == ASSUME NEW CONSTANT p, Reads(p), Init, AInv(p) PROVE CInv(p) /\ ~Alive(p)
<1>1. pc[p] = "none"
  BY Zenon DEF Init, Reads, Alone
<1> QED BY Zenon, <1>1 DEF CInv, ExecContents, UserContents, Loading, Alive

LEMMA NextContents ==
    ASSUME Counting, NEW CONSTANT p, Reads(p), CInv(p), AInv(p)', [Next]_vars PROVE CInv(p)' /\ MemStep(p)
<1>1. Before(p) /\ Alone(p)
  BY Zenon DEF Reads, CInv, Before
<1>2. After(p)
  <2>1. CASE UNCHANGED vars
    BY Zenon, <1>1, <2>1, StutterContents
  <2>2. CASE kernel_alloc
    BY Zenon, <1>1, <2>2, KernelAllocContents
  <2>3. CASE \E f \in Frame : kernel_free(f)
    BY Zenon, <1>1, <2>3, KernelFreeContents
  <2>4. CASE proc_create(p) \/ thread_switch(p)
    BY Zenon, <1>1, <2>4, CreateContents, SwitchContents
  <2>5. CASE KernelStep(p)
    BY Zenon, <1>1, <2>5, RunContents, ActivateContents, DefineContents, LoadContents, ProtectContents,
       SwapOutContents, SwapOutDoneContents, AllocAgainContents, SwapInContents,
       SwapInReadContents, EndContents DEF KernelStep
  <2>6. CASE UserStep(p)
    BY Zenon, <1>1, <2>6, EndContents, StoreContents, ReloadContents, CodeFaultContents,
       NewDataContents, SwappedDataContents DEF UserStep
  <2> QED BY Zenon, <1>1, <2>1, <2>2, <2>3, <2>4, <2>5, <2>6 DEF Next, Alone, halted, idle
<1> QED BY Zenon, <1>1, <1>2 DEF After, ContentsInv, CInv, Before

-----------------------------------------------------------------------------
(* The refinement mapping *)

(* What Memory sees.                                                       *)
Live == {q \in Proc : Alive(q)}

Shown(p) == [pg \in Page |-> IF Alive(p) THEN Seen(p, pg) ELSE Image]

Mem == [q \in Proc |-> Shown(q)]

(* A content that a program stored is not that of a page it did not touch, *)
(* and shows the value.                                                    *)
LEMMA SeenFacts ==
    ASSUME NEW CONSTANT p, NEW CONSTANT pg \in Page
    PROVE  /\ Current(p, pg) = InitialImage(pg) => Seen(p, pg) = Image
           /\ \A v \in Value : Current(p, pg) = Stored(p_pid[p], pg, v) => Seen(p, pg) = v
<1>1. Current(p, pg) = InitialImage(pg) => Seen(p, pg) = Image
  BY Zenon DEF Seen
<1>2. ASSUME NEW v \in Value, Current(p, pg) = Stored(p_pid[p], pg, v) PROVE Seen(p, pg) = v
  <2>1. Current(p, pg) # InitialImage(pg)
    BY <1>2 DEF Stored, InitialImage, Elf, Zero
  <2>2. {x \in Value : Current(p, pg) = Stored(p_pid[p], pg, x)} = {v}
    BY <1>2 DEF Stored
  <2>3. Seen(p, pg) = CHOOSE x \in {v} : TRUE
    BY Zenon, <2>1, <2>2 DEF Seen
  <2> QED BY Zenon, <2>3
<1> QED BY Zenon, <1>1, <1>2

(* The same after a step.                                                  *)
LEMMA ImageNow ==
    ASSUME NEW CONSTANT p, NEW CONSTANT pg \in Page
    PROVE  (Current(p, pg) = InitialImage(pg) => Seen(p, pg) = Image)'
<1>1. Current(p, pg) = InitialImage(pg) => Seen(p, pg) = Image
  BY Zenon, SeenFacts
<1> QED BY <1>1, PTL

LEMMA StoredNow ==
    ASSUME NEW CONSTANT p, NEW CONSTANT pg \in Page, NEW CONSTANT v \in Value
    PROVE  (Current(p, pg) = Stored(p_pid[p], pg, v) => Seen(p, pg) = v)'
<1>1. Current(p, pg) = Stored(p_pid[p], pg, v) => Seen(p, pg) = v
  BY Zenon, SeenFacts
<1> QED BY <1>1, PTL

LEMMA SeenSame ==
    ASSUME NEW CONSTANT p, NEW CONSTANT pg, p_pid'[p] = p_pid[p], Current(p, pg)' = Current(p, pg)
    PROVE  Seen(p, pg)' = Seen(p, pg)
BY DEF Seen

(* What a step of Pager is for Memory: a program starts, writes or ends, or *)
(* nothing happens that it could see.                                      *)
LEMMA StepShown ==
    ASSUME NEW CONSTANT p, Proc = {p}, MemStep(p)
    PROVE  \/ Live' = Live /\ Mem' = Mem
           \/ p \notin Live /\ Live' = Live \cup {p} /\ Mem' = Mem
           \/ /\ p \in Live /\ Live' = Live \ {p}
              /\ Mem' = [Mem EXCEPT ![p] = [pg \in Page |-> Image]]
           \/ \E pg \in Data, v \in Value :
                 p \in Live /\ Mem' = [Mem EXCEPT ![p][pg] = v] /\ Live' = Live
<1>1. /\ Mem = [q \in {p} |-> Shown(q)] /\ Mem' = [q \in {p} |-> Shown(q)']
      /\ Live = (IF Alive(p) THEN {p} ELSE {}) /\ Live' = (IF Alive(p)' THEN {p} ELSE {})
  BY Zenon DEF Mem, Live
<1>2. CASE KeepsMem(p)
  <2>1. ASSUME NEW CONSTANT pg \in Page, Alive(p) PROVE Seen(p, pg)' = Seen(p, pg)
    BY Zenon, <1>2, <2>1, SeenSame DEF KeepsMem
  <2>2. Shown(p)' = Shown(p)
    BY Zenon, <1>2, <2>1 DEF Shown, KeepsMem
  <2>3. Mem' = Mem /\ Live' = Live
    BY Zenon, <1>1, <1>2, <2>2 DEF KeepsMem
  <2> QED BY Zenon, <2>3
<1>3. CASE StartsMem(p)
  <2>1. ASSUME NEW CONSTANT pg \in Page PROVE Seen(p, pg)' = Image
    BY Zenon, <1>3, ImageNow DEF StartsMem
  <2>2. Shown(p)' = Shown(p)
    BY Zenon, <1>3, <2>1 DEF Shown, StartsMem
  <2>3. Mem' = Mem /\ Live = {} /\ Live' = {p}
    BY Zenon, <1>1, <1>3, <2>2 DEF StartsMem
  <2> QED BY Zenon, <2>3
<1>4. CASE EndsMem(p)
  <2>1. Shown(p)' = [pg \in Page |-> Image]
    BY Zenon, <1>4 DEF Shown, EndsMem
  <2>2. Mem' = [Mem EXCEPT ![p] = [pg \in Page |-> Image]]
    BY Zenon, <1>1, <2>1
  <2>3. Live = {p} /\ Live' = {}
    BY Zenon, <1>1, <1>4 DEF EndsMem
  <2> QED BY Zenon, <2>2, <2>3
<1>5. ASSUME NEW CONSTANT pg \in Data, NEW CONSTANT v \in Value, WritesMem(p, pg, v)
      PROVE  p \in Live /\ Mem' = [Mem EXCEPT ![p][pg] = v] /\ Live' = Live
  <2>1. Alive(p) /\ Alive(p)' /\ p_pid'[p] = p_pid[p] /\ pg \in Page
    BY <1>5, PagerAssumption DEF WritesMem, Data, Page
  <2>2. Seen(p, pg)' = v
    BY Zenon, <1>5, <2>1, StoredNow DEF WritesMem
  <2>3. ASSUME NEW CONSTANT m \in Page \ {pg} PROVE Seen(p, m)' = Seen(p, m)
    BY Zenon, <1>5, <2>1, SeenSame DEF WritesMem
  <2>4. Shown(p)' = [Shown(p) EXCEPT ![pg] = v]
    BY Zenon, <2>1, <2>2, <2>3 DEF Shown
  <2> QED BY Zenon, <1>1, <2>1, <2>4
<1> QED BY Zenon, <1>2, <1>3, <1>4, <1>5 DEF MemStep

(* At the start no program is in user mode.                               *)
LEMMA InitRefines == ASSUME NEW CONSTANT p, Reads(p), Init, ~Alive(p) PROVE Promise!Init
<1>0. Proc = {p} /\ Code \cup Data = Page
  BY PagerAssumption DEF Reads, Alone, Code, Data, Page
<1>1. Live = {} /\ Mem = [q \in Proc |-> [pg \in Page |-> Image]]
  BY Zenon, <1>0 DEF Live, Mem, Shown
<1> QED BY Zenon, <1>0, <1>1 DEF Promise!Init, Promise!Fresh, Live, Mem, Shown

(* What a step does to the contents is a step of Memory or nothing.       *)
LEMMA StepRefines ==
    ASSUME NEW CONSTANT p, Reads(p), CInv(p), CInv(p)', MemStep(p)
    PROVE  [Promise!Next]_(Promise!vars)
<1>0. Proc = {p} /\ Code \cup Data = Page
  BY PagerAssumption DEF Reads, Alone, Code, Data, Page
<1>1. CASE Live' = Live /\ Mem' = Mem
  BY Zenon, <1>1 DEF Live, Mem, Shown, Promise!vars
<1>2. CASE p \notin Live /\ Live' = Live \cup {p} /\ Mem' = Mem
  <2>1. Promise!Start(p)
    BY Zenon, <1>2 DEF Promise!Start, Live, Mem, Shown
  <2> QED BY Zenon, <1>0, <2>1 DEF Promise!Next
<1>3. CASE /\ p \in Live /\ Live' = Live \ {p}
           /\ Mem' = [Mem EXCEPT ![p] = [pg \in Page |-> Image]]
  <2>1. Promise!Exit(p)
    BY Zenon, <1>0, <1>3 DEF Promise!Exit, Promise!Fresh, Live, Mem, Shown
  <2> QED BY Zenon, <1>0, <2>1 DEF Promise!Next
<1>4. ASSUME NEW pg \in Data, NEW v \in Value, p \in Live,
             Mem' = [Mem EXCEPT ![p][pg] = v], Live' = Live
      PROVE  Promise!Next
  <2>1. Promise!Write(p, pg, v)
    BY Zenon, <1>4 DEF Promise!Write, Live, Mem, Shown
  <2> QED BY Zenon, <1>0, <1>4, <2>1 DEF Promise!Next
<1> QED BY Zenon, <1>0, <1>1, <1>2, <1>3, <1>4, StepShown

=============================================================================
