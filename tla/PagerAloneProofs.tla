-------------------------- MODULE PagerAloneProofs --------------------------
(***************************************************************************)
(* What Pager keeps when programs run one after the other, next to any     *)
(* number of kernel threads: one lemma per action shows that it keeps      *)
(* PlaceInv, for any number of frames, swap slots, TLB entries, pages,     *)
(* programs and kernel allocations, as long as no disk operation fails and *)
(* fewer programs are started than there are pids.  With two programs at   *)
(* once, or with a disk error, the properties that follow do not hold of   *)
(* the code (see the runs slot_race and stale_tlb).                        *)
(***************************************************************************)
EXTENDS PagerProofs

(* An empty TLB is sound, and after set_freeTLBEntries its count is right. *)
LEMMA EmptyTLB ==
    ASSUME Counting, NEW T, TLBOK(T), \A i \in Index : T.ent[i] = Invalid
    PROVE  /\ OneEntry(T) /\ \A PT : Maps(T, PT)
           /\ T.freeTLBEntries = NUM_TLB => Counted(T)
<1>1. OneEntry(T) /\ \A PT : Maps(T, PT)
  BY Zenon DEF OneEntry, Maps
<1>2. Unused(T) = Index
  BY Zenon DEF Unused
<1>3. Cardinality(Index) = NUM_TLB
  BY PagerAssumption DEF Counting, Index
<1> QED BY Zenon, <1>1, <1>2, <1>3 DEF Counted

(* What the two halves of invalidate_TLB leave.                            *)
LEMMA Purged ==
    ASSUME NEW T, TLBOK(T)
    PROVE  /\ purge_TLB(T).ent = [i \in Index |-> Invalid]
           /\ set_freeTLBEntries(T).ent = T.ent /\ set_freeTLBEntries(T).freeTLBEntries = NUM_TLB
           /\ invalidate_TLB(T).ent = [i \in Index |-> Invalid]
           /\ invalidate_TLB(T).freeTLBEntries = NUM_TLB
<1>1. TLBOK(purge_TLB(T)) BY Zenon, InvalidateOK
<1>2. purge_TLB(T).ent = [i \in Index |-> Invalid]
  BY Zenon DEF purge_TLB, TLBOK
<1>3. \A X : TLBOK(X) => set_freeTLBEntries(X).ent = X.ent /\ set_freeTLBEntries(X).freeTLBEntries = NUM_TLB
  BY Zenon DEF set_freeTLBEntries, TLBOK
<1> QED BY Zenon, <1>1, <1>2, <1>3 DEF invalidate_TLB

(* The slots are as they were, and no page got a second place.             *)
LEMMA SlotsKept ==
    ASSUME NEW p, SlotInv(p), sf_list' = sf_list, progs' = progs, p_pid' = p_pid,
           pc'[p] = "exec" \/ p \in exec' => pc[p] = "exec" \/ p \in exec,
           pc[p] # "readIn" \/ UNCHANGED <<pc, index, victim>>,
           \A f \in Frame : main_PG'[f].pid # 0 =>
              main_PG[f].pid # 0 /\ main_PG'[f].page_number = main_PG[f].page_number
    PROVE  SlotInv(p)'
BY Zenon DEF SlotInv

-----------------------------------------------------------------------------
(* Steps that leave the program's pages alone *)

SamePages ==
    \A f \in Frame : /\ main_PG'[f].pid = main_PG[f].pid
                     /\ main_PG'[f].page_number = main_PG[f].page_number
                     /\ main_PG'[f].Dirty = main_PG[f].Dirty

(* The TLB is left alone, or invalidated.                                  *)
LEMMA SameTLB ==
    ASSUME Counting, NEW p, Alone(p), AInv(p), SamePages, UNCHANGED <<exec, pc, fpage>>,
           TLB' = TLB \/ TLB' = invalidate_TLB(TLB)
    PROVE  TLBInv(p)'
<1>1. TLBInv(p) /\ TLBOK(TLB)
  BY Zenon, Basics DEF AInv, PlaceInv
<1>2. CASE TLB' = TLB
  BY Zenon, <1>1, <1>2 DEF TLBInv, SamePages, Maps
<1>3. CASE TLB' = invalidate_TLB(TLB)
  <2>1. TLBOK(TLB') BY Zenon, <1>1, <1>3, InvalidateOK
  <2>2. (\A i \in Index : TLB'.ent[i] = Invalid) /\ TLB'.freeTLBEntries = NUM_TLB
    BY Zenon, <1>1, <1>3, Purged
  <2>3. OneEntry(TLB') /\ Maps(TLB', main_PG') /\ Counted(TLB')
    BY Zenon, <2>1, <2>2, EmptyTLB
  <2> QED BY Zenon, <2>2, <2>3 DEF TLBInv
<1> QED BY Zenon, <1>2, <1>3

LEMMA QuietStep ==
    ASSUME Counting, NEW p, Alone(p), AInv(p), SamePages,
           UNCHANGED <<sf_list, progs, p_pid, exec, pc, fpage, victim, slot, index>>,
           TLB' = TLB \/ TLB' = invalidate_TLB(TLB),
           panicked' # "addTLB", panicked' = "no" => panicked = "no"
    PROVE  PlaceInv(p)'
<1>1. FrameInv(p) /\ SlotInv(p) /\ PhaseInv(p)
  BY Zenon DEF AInv, PlaceInv
<1>2. FrameInv(p)'
  BY Zenon, <1>1 DEF FrameInv, Owned, SamePages
<1>3. SlotInv(p)'
  BY Zenon, <1>1, SlotsKept DEF SamePages
<1>4. PhaseInv(p)'
  <2>1. CASE pc[p] = "readIn"
    <3>1. victim[p] \in Frame
      BY Zenon, <2>1, Basics DEF AInv, IInv, WorkInv, Work
    <3> QED BY Zenon, <1>1, <2>1, <3>1 DEF PhaseInv, SamePages, SavedIn
  <2>2. CASE pc[p] # "readIn"
    BY <1>1, <2>2 DEF PhaseInv, SamePages, SavedIn
  <2> QED BY Zenon, <2>1, <2>2
<1>5. TLBInv(p)'
  BY Zenon, SameTLB
<1> QED BY Zenon, <1>2, <1>3, <1>4, <1>5 DEF PlaceInv, NoTLBPanic

LEMMA SwitchAlone == ASSUME Counting, NEW p, Alone(p), AInv(p), thread_switch(p) PROVE PlaceInv(p)'
<1>1. /\ UNCHANGED <<main_PG, sf_list, progs, p_pid, exec, pc, fpage, victim, slot, index, panicked>>
      /\ TLB' = TLB \/ TLB' = invalidate_TLB(TLB)
  BY Zenon DEF thread_switch, as_activate, tlbvars, memvars, swapvars, procvars, faultvars
<1>2. SamePages
  BY Zenon, <1>1 DEF SamePages
<1>3. panicked' # "addTLB"
  BY Zenon, <1>1 DEF AInv, PlaceInv, NoTLBPanic
<1> QED BY Zenon, <1>1, <1>2, <1>3, QuietStep

LEMMA KernelAllocAlone == ASSUME Counting, NEW p, Alone(p), AInv(p), kernel_alloc PROVE PlaceInv(p)'
<1>1. /\ UNCHANGED <<sf_list, TLB, progs, p_pid, exec, pc, fpage, victim, slot, index>>
      /\ main_PG' = [main_PG EXCEPT ![Head(frame_list)].Valid = 1]
      /\ panicked = "no" /\ panicked' # "addTLB"
  BY Zenon DEF kernel_alloc, alloc_check, tlbvars, swapvars, procvars, faultvars
<1>2. main_PG \in [Frame -> PTE]
  BY Zenon, Basics DEF AInv, MemOK
<1>3. SamePages
  BY Zenon, <1>1, <1>2 DEF SamePages, PTE
<1> QED BY Zenon, <1>1, <1>3, QuietStep

LEMMA KernelFreeAlone ==
    ASSUME Counting, NEW p, Alone(p), AInv(p), NEW f \in Frame, kernel_free(f) PROVE PlaceInv(p)'
<1>1. main_PG \in [Frame -> PTE] /\ Owned(p) /\ KernelInv
  BY Zenon, Basics DEF AInv, MemOK, PlaceInv, FrameInv, IInv
<1>2. main_PG[f].pid = 0 /\ main_PG[f].page_number = 0
  BY Zenon, <1>1 DEF kernel_free, KernelInv, Owned
<1>3. /\ UNCHANGED <<sf_list, TLB, progs, p_pid, exec, pc, fpage, victim, slot, index>>
      /\ main_PG' = [main_PG EXCEPT ![f].Valid = 0, ![f].pid = 0, ![f].page_number = 0]
      /\ panicked = "no" /\ panicked' # "addTLB"
  BY Zenon, <1>2 DEF kernel_free, free_kpages, swapvars, procvars, faultvars
<1>4. SamePages
  BY Zenon, <1>1, <1>2, <1>3 DEF SamePages, PTE
<1> QED BY Zenon, <1>3, <1>4, QuietStep

LEMMA StutterAlone == ASSUME Counting, NEW p, Alone(p), AInv(p), UNCHANGED vars PROVE PlaceInv(p)'
<1>1. UNCHANGED <<main_PG, TLB, sf_list, progs, p_pid, exec, pc, fpage, victim, slot, index, panicked>>
  BY Zenon DEF vars, tlbvars, memvars, swapvars, procvars, faultvars
<1>2. SamePages
  BY Zenon, <1>1 DEF SamePages
<1>3. panicked' # "addTLB"
  BY Zenon, <1>1 DEF AInv, PlaceInv, NoTLBPanic
<1> QED BY Zenon, <1>1, <1>2, <1>3, QuietStep

(* Only as_destroy follows, whatever brought the program to its end.       *)
LEMMA GoExit ==
    ASSUME NEW p, Alone(p), AInv(p), panicked = "no", SamePages,
           pc[p] \notin Bare \cup {"swapOut", "swapped", "swapIn", "readIn"},
           pc'[p] = "exit", UNCHANGED <<sf_list, progs, p_pid, exec, victim, slot, index, panicked>>,
           Maps(TLB', main_PG'), OneEntry(TLB'), Counted(TLB')
    PROVE  PlaceInv(p)'
<1>1. FrameInv(p) /\ SlotInv(p) /\ PhaseInv(p) /\ NoTLBPanic
  BY Zenon DEF AInv, PlaceInv
<1>2. FrameInv(p)'
  BY Zenon, <1>1 DEF FrameInv, Owned, SamePages, Bare
<1>3. SlotInv(p)'
  BY Zenon, <1>1, SlotsKept DEF SamePages
<1>4. TLBInv(p)'
  BY Zenon DEF TLBInv, Bare
<1>5. PhaseInv(p)'
  BY Zenon, <1>1 DEF PhaseInv
<1> QED BY Zenon, <1>1, <1>2, <1>3, <1>4, <1>5 DEF PlaceInv, NoTLBPanic

LEMMA ExitCallAlone == ASSUME NEW p, Alone(p), AInv(p), sys__exit(p) PROVE PlaceInv(p)'
<1>1. p \in Proc /\ pc \in [Proc -> Points] /\ TLBInv(p)
  BY Zenon, Basics DEF AInv, PlaceInv, RestOK
<1>2. /\ UNCHANGED <<main_PG, TLB, sf_list, progs, p_pid, exec, victim, slot, index, panicked>>
      /\ pc[p] = "user" /\ pc'[p] = "exit" /\ panicked = "no"
  BY Zenon, <1>1 DEF sys__exit, Running, Goto, tlbvars, memvars, swapvars, procvars, faultvars
<1>3. SamePages
  BY Zenon, <1>2 DEF SamePages
<1>4. Maps(TLB', main_PG') /\ OneEntry(TLB') /\ Counted(TLB')
  BY Zenon, <1>1, <1>2 DEF TLBInv
<1>5. pc[p] \notin Bare \cup {"swapOut", "swapped", "swapIn", "readIn"}
  BY Zenon, <1>2 DEF Bare
<1> QED BY Zenon, <1>2, <1>3, <1>4, <1>5, GoExit

LEMMA StoreAlone ==
    ASSUME Counting, NEW p, Alone(p), AInv(p), NEW pg \in Page, NEW v \in Value, store(p, pg, v)
    PROVE  PlaceInv(p)'
<1>1. p \in Proc /\ pc \in [Proc -> Points] /\ TLBInv(p) /\ NoTLBPanic
  BY Zenon, Basics DEF AInv, PlaceInv, RestOK
<1>2. /\ UNCHANGED <<main_PG, TLB, sf_list, progs, p_pid, exec, fpage, victim, slot, index, panicked>>
      /\ pc[p] = "user" /\ (pc' = pc \/ pc'[p] = "exit") /\ panicked = "no"
  BY Zenon, <1>1 DEF store, Running, Goto, tlbvars, memvars, swapvars, procvars, faultvars
<1>3. SamePages
  BY Zenon, <1>2 DEF SamePages
<1>4. CASE pc' = pc
  BY Zenon, <1>1, <1>2, <1>3, <1>4, QuietStep DEF NoTLBPanic
<1>5. CASE pc'[p] = "exit"
  <2>1. Maps(TLB', main_PG') /\ OneEntry(TLB') /\ Counted(TLB')
    BY Zenon, <1>1, <1>2 DEF TLBInv
  <2>2. pc[p] \notin Bare \cup {"swapOut", "swapped", "swapIn", "readIn"}
    BY Zenon, <1>2 DEF Bare
  <2> QED BY Zenon, <1>2, <1>3, <1>5, <2>1, <2>2, GoExit
<1> QED BY Zenon, <1>2, <1>4, <1>5

-----------------------------------------------------------------------------
(* The beginning and the end of a program *)

(* The new pid is in no slot: the slots have pids of earlier programs.     *)
LEMMA CreateAlone == ASSUME NEW p, Alone(p), AInv(p), proc_create(p) PROVE PlaceInv(p)'
<1>1. /\ p \in Proc /\ RestOK /\ PidInv
      /\ FrameInv(p) /\ SlotInv(p) /\ PhaseInv(p) /\ TLBInv(p) /\ NoTLBPanic
  BY Zenon, Basics DEF AInv, PlaceInv, IInv
<1>2. /\ UNCHANGED <<main_PG, TLB, sf_list, exec, fpage, victim, slot, index, panicked>>
      /\ pc[p] = "none" /\ pc'[p] = "exec" /\ panicked = "no"
      /\ progs' = progs + 1 /\ p_pid'[p] = next_free_pid /\ next_free_pid = progs + 1
      /\ progs \in Nat
  BY <1>1 DEF proc_create, Goto, tlbvars, memvars, swapvars, faultvars, RestOK, PidInv
<1>3. FrameInv(p)'
  BY Zenon, <1>1, <1>2 DEF FrameInv, Owned, Bare
<1>4. SlotInv(p)'
  <2>0. \A s \in Slot : \/ sf_list[s] = FreeSlot
                        \/ sf_list[s].p_number \in Data /\ sf_list[s].p_pid \in 1..progs
    <3>1. SlotInv(p) BY Zenon, <1>1
    <3> QED BY Zenon, <3>1 DEF SlotInv
  <2>1. sf_list' = sf_list
    BY Zenon, <1>2
  <2>2. \A s \in Slot : \/ sf_list'[s] = FreeSlot
                        \/ sf_list'[s].p_number \in Data /\ sf_list'[s].p_pid \in 1..progs'
    BY <1>2, <2>0, <2>1
  <2>3. \A s \in Slot : sf_list'[s].p_pid # p_pid'[p]
    BY <1>2, <2>0, <2>1 DEF FreeSlot
  <2> QED BY Zenon, <1>1, <1>2, <2>2, <2>3 DEF SlotInv
<1>5. PhaseInv(p)'
  BY Zenon, <1>1, <1>2 DEF PhaseInv
<1>6. TLBInv(p)'
  BY Zenon, <1>1, <1>2 DEF TLBInv, Bare
<1> QED BY Zenon, <1>1, <1>2, <1>3, <1>4, <1>5, <1>6 DEF PlaceInv, NoTLBPanic

(* Back to no program at all.                                              *)
LEMMA ThreadGone ==
    ASSUME NEW p, Alone(p), AInv(p), pc[p] \in {"exec", "purged"}, panicked = "no",
           UNCHANGED <<main_PG, sf_list, progs, index, panicked>>, thread_exit(p),
           Counted(TLB'), TLB'.ent = TLB.ent
    PROVE  PlaceInv(p)'
<1>1. /\ p \in Proc /\ RestOK /\ FrameInv(p) /\ SlotInv(p) /\ PhaseInv(p) /\ TLBInv(p)
      /\ NoTLBPanic
  BY Zenon, Basics DEF AInv, PlaceInv
<1>2. pc'[p] = "none" /\ p_pid'[p] = 0 /\ p \notin exec'
  BY Zenon, <1>1 DEF thread_exit, Goto, RestOK
<1>3. \A f \in Frame : main_PG'[f].pid = 0
  BY Zenon, <1>1 DEF FrameInv, Bare
<1>4. \A i \in Index : TLB'.ent[i] = Invalid
  BY Zenon, <1>1 DEF TLBInv, Bare
<1>5. FrameInv(p)'
  BY Zenon, <1>1, <1>3 DEF FrameInv, Owned
<1>6. SlotInv(p)'
  BY Zenon, <1>1, <1>2, <1>3 DEF SlotInv
<1>7. PhaseInv(p)'
  BY Zenon, <1>1, <1>2 DEF PhaseInv
<1>8. TLBInv(p)'
  BY Zenon, <1>2, <1>4 DEF TLBInv, Maps, OneEntry
<1> QED BY Zenon, <1>1, <1>5, <1>6, <1>7, <1>8 DEF PlaceInv, NoTLBPanic

LEMMA RunAlone == ASSUME NEW p, Alone(p), AInv(p), runprogram(p) PROVE PlaceInv(p)'
<1>1. /\ p \in Proc /\ RestOK /\ FrameInv(p) /\ SlotInv(p) /\ PhaseInv(p) /\ TLBInv(p)
      /\ NoTLBPanic /\ TLBOK(TLB)
  BY Zenon, Basics DEF AInv, PlaceInv
<1>2. /\ UNCHANGED <<main_PG, sf_list, progs, victim, slot, index, panicked>>
      /\ pc[p] = "exec" /\ panicked = "no"
  BY Zenon DEF runprogram, Running, memvars, swapvars
<1>3. CASE thread_exit(p) /\ UNCHANGED TLB
  <2>1. Counted(TLB') /\ TLB'.ent = TLB.ent
    BY Zenon, <1>1, <1>2, <1>3 DEF TLBInv
  <2> QED BY Zenon, <1>2, <1>3, <2>1, ThreadGone
<1>4. CASE /\ IF p_pid[p] # TLB_PID THEN TLB' = purge_TLB(TLB) /\ Goto(p, "activate")
                                    ELSE UNCHANGED TLB /\ Goto(p, "define")
           /\ exec' = exec \cup {p} /\ fpage' = [fpage EXCEPT ![p] = 1] /\ UNCHANGED p_pid
  <2>1. /\ fpage'[p] = 1 /\ p \in exec'
        /\ \/ pc'[p] = "activate" /\ TLB' = purge_TLB(TLB)
           \/ pc'[p] = "define" /\ TLB' = TLB
    BY Zenon, <1>1, <1>4 DEF Goto, RestOK
  <2>2. \A f \in Frame : main_PG'[f].pid = 0 /\ main_PG'[f].page_number = 0
    BY Zenon, <1>1, <1>2 DEF FrameInv, Owned, Bare
  <2>3. \A i \in Index : TLB'.ent[i] = Invalid
    BY ZenonT(30), <1>1, <1>2, <2>1, Purged DEF TLBInv, Bare
  <2>4. FrameInv(p)'
    BY Zenon, <1>1, <1>4, <2>2 DEF FrameInv, Owned
  <2>5. SlotInv(p)'
    BY Zenon, <1>1, <1>2, <1>4, <2>2 DEF SlotInv
  <2>6. PhaseInv(p)'
    <3>1. index'[p] = 0
      BY Zenon, <1>1, <1>2 DEF PhaseInv
    <3>2. /\ \A f \in Frame : main_PG'[f].page_number < fpage'[p]
          /\ \A m \in Eager : ~(m < fpage'[p])
      BY <2>1, <2>2, EagerPages
    <3> QED BY Zenon, <2>1, <3>1, <3>2, EagerPages DEF PhaseInv
  <2>7. TLBInv(p)'
    <3>1. Maps(TLB', main_PG') /\ OneEntry(TLB')
      BY Zenon, <2>3 DEF Maps, OneEntry
    <3>2. pc'[p] = "define" => Counted(TLB')
      BY Zenon, <1>1, <1>2, <2>1 DEF TLBInv
    <3> QED BY Zenon, <2>1, <2>3, <3>1, <3>2 DEF TLBInv
  <2> QED BY Zenon, <1>1, <1>2, <2>4, <2>5, <2>6, <2>7 DEF PlaceInv, NoTLBPanic
<1> QED BY Zenon, <1>3, <1>4 DEF runprogram

LEMMA ActivateAlone == ASSUME Counting, NEW p, Alone(p), AInv(p), as_activate_done(p) PROVE PlaceInv(p)'
<1>1. /\ p \in Proc /\ RestOK /\ FrameInv(p) /\ SlotInv(p) /\ PhaseInv(p) /\ TLBInv(p)
      /\ NoTLBPanic /\ TLBOK(TLB)
  BY Zenon, Basics DEF AInv, PlaceInv
<1>2. /\ UNCHANGED <<main_PG, sf_list, progs, p_pid, exec, fpage, victim, slot, index, panicked>>
      /\ pc[p] = "activate" /\ panicked = "no" /\ pc'[p] = "define"
      /\ TLB' = set_freeTLBEntries(TLB)
  BY Zenon, <1>1 DEF as_activate_done, Running, Goto, memvars, swapvars, procvars, faultvars, RestOK
<1>3. \A f \in Frame : main_PG'[f].pid = 0 /\ main_PG'[f].page_number = 0
  BY Zenon, <1>1, <1>2 DEF FrameInv, Owned, Bare
<1>4. (\A i \in Index : TLB'.ent[i] = Invalid) /\ TLB'.freeTLBEntries = NUM_TLB /\ TLBOK(TLB')
  BY Zenon, <1>1, <1>2, Purged, InvalidateOK DEF TLBInv, Bare
<1>5. FrameInv(p)'
  BY Zenon, <1>1, <1>2, <1>3 DEF FrameInv, Owned
<1>6. SlotInv(p)'
  BY Zenon, <1>1, <1>2, <1>3, SlotsKept
<1>7. PhaseInv(p)'
  <2>1. /\ fpage'[p] = 1 /\ 1 \in Eager /\ \A m \in Eager : m >= 1 /\ m \in Nat
        /\ index'[p] = 0
    BY Zenon, <1>1, <1>2, EagerPages DEF PhaseInv
  <2>2. /\ \A m \in Eager : ~(m < fpage'[p])
        /\ \A f \in Frame : main_PG'[f].page_number < fpage'[p]
    BY <1>3, <2>1
  <2> QED BY Zenon, <1>1, <1>2, <2>1, <2>2 DEF PhaseInv
<1>8. TLBInv(p)'
  BY Zenon, <1>2, <1>4, EmptyTLB DEF TLBInv
<1> QED BY Zenon, <1>1, <1>2, <1>5, <1>6, <1>7, <1>8 DEF PlaceInv, NoTLBPanic

(* One frame less, or the TLB is purged when there is none left.           *)
LEMMA DestroyAlone == ASSUME Counting, NEW p, Alone(p), AInv(p), as_destroy(p) PROVE PlaceInv(p)'
<1> DEFINE mine == {f \in Frame : main_PG[f].Valid = 1 /\ main_PG[f].pid = p_pid[p]}
<1>1. /\ p \in Proc /\ RestOK /\ FrameInv(p) /\ SlotInv(p) /\ PhaseInv(p) /\ TLBInv(p)
      /\ NoTLBPanic /\ TLBOK(TLB)
  BY Zenon, Basics DEF AInv, PlaceInv
<1>2. /\ UNCHANGED <<sf_list, progs, p_pid, exec, fpage, victim, slot, index>>
      /\ pc[p] = "exit" /\ panicked = "no" /\ p_pid[p] # 0
      /\ \A f \in Frame : main_PG[f].pid # 0 => main_PG[f].Valid = 1 /\ main_PG[f].pid = p_pid[p]
  BY Zenon, <1>1, Basics DEF as_destroy, Running, swapvars, procvars, faultvars, AInv, FrameInv, Owned
<1>3. CASE mine # {}
  <2>1. Least(mine) \in mine
    <3>1. mine \in SUBSET Nat BY PagerAssumption DEF Frame
    <3> QED BY Zenon, <1>3, <3>1, LeastIn
  <2>2. PICK f \in Frame : main_PG[f].pid # 0 /\ free_kpages(f) /\ pc' = pc
    BY Zenon, <1>2, <1>3, <2>1 DEF as_destroy
  <2>3. /\ main_PG'[f].pid = 0 /\ main_PG'[f].page_number = 0
        /\ \A g \in Frame \ {f} : main_PG'[g] = main_PG[g]
        /\ Owned(p)' /\ Maps(TLB', main_PG') /\ OneEntry(TLB') /\ Counted(TLB')
        /\ panicked' = "no"
    BY Zenon, <1>2, <2>2, Freed
  <2>4. FrameInv(p)'
    BY Zenon, <1>2, <2>2, <2>3 DEF FrameInv, Bare
  <2>5. SlotInv(p)'
    BY Zenon, <1>1, <1>2, <2>2, <2>3, SlotsKept
  <2>6. PhaseInv(p)'
    BY Zenon, <1>1, <1>2, <2>2 DEF PhaseInv
  <2>7. TLBInv(p)'
    BY Zenon, <1>2, <2>2, <2>3 DEF TLBInv, Bare
  <2> QED BY Zenon, <2>3, <2>4, <2>5, <2>6, <2>7 DEF PlaceInv, NoTLBPanic
<1>4. CASE mine = {}
  <2>1. /\ TLB' = purge_TLB(TLB) /\ pc'[p] = "purged" /\ UNCHANGED <<main_PG, panicked>>
    BY Zenon, <1>1, <1>4 DEF as_destroy, Goto, RestOK, memvars
  <2>2. \A f \in Frame : main_PG'[f].pid = 0
    BY Zenon, <1>2, <1>4, <2>1
  <2>3. \A i \in Index : TLB'.ent[i] = Invalid
    BY Zenon, <1>1, <2>1, Purged
  <2>4. FrameInv(p)'
    BY Zenon, <1>1, <1>2, <2>1, <2>2 DEF FrameInv, Owned
  <2>5. SlotInv(p)'
    BY Zenon, <1>1, <1>2, <2>1, SlotsKept
  <2>6. PhaseInv(p)'
    BY Zenon, <1>1, <1>2, <2>1 DEF PhaseInv
  <2>7. TLBInv(p)'
    BY Zenon, <2>1, <2>3 DEF TLBInv, Maps, OneEntry
  <2> QED BY Zenon, <1>1, <2>1, <2>4, <2>5, <2>6, <2>7 DEF PlaceInv, NoTLBPanic
<1> QED BY Zenon, <1>3, <1>4

LEMMA EndAlone == ASSUME Counting, NEW p, Alone(p), AInv(p), as_destroy_done(p) PROVE PlaceInv(p)'
<1>1. TLBOK(TLB) /\ TLBInv(p)
  BY Zenon, Basics DEF AInv, PlaceInv
<1>2. /\ UNCHANGED <<main_PG, sf_list, progs, index, panicked>> /\ thread_exit(p)
      /\ pc[p] = "purged" /\ panicked = "no" /\ TLB' = set_freeTLBEntries(TLB)
  BY Zenon DEF as_destroy_done, Running, memvars, swapvars
<1>3. TLB'.ent = TLB.ent /\ TLB'.freeTLBEntries = NUM_TLB /\ TLBOK(TLB')
  BY Zenon, <1>1, <1>2, Purged, InvalidateOK
<1>4. \A i \in Index : TLB'.ent[i] = Invalid
  BY Zenon, <1>1, <1>2, <1>3 DEF TLBInv, Bare
<1>5. Counted(TLB')
  BY Zenon, <1>3, <1>4, EmptyTLB
<1> QED BY Zenon, <1>2, <1>3, <1>5, ThreadGone

-----------------------------------------------------------------------------
(* Allocation and loading *)

LEMMA DefineAlone == ASSUME Counting, NEW p, Alone(p), AInv(p), as_define_region(p) PROVE PlaceInv(p)'
<1> DEFINE pg == fpage[p]
           h == Head(frame_list)
           rest == {m \in Eager : m > pg}
<1>1. /\ p \in Proc /\ RestOK /\ FrameInv(p) /\ SlotInv(p) /\ PhaseInv(p) /\ TLBInv(p)
      /\ NoTLBPanic
  BY Zenon, Basics DEF AInv, PlaceInv
<1>2. /\ UNCHANGED <<sf_list, progs, p_pid, exec, victim, slot, index>>
      /\ pc[p] = "define" /\ panicked = "no" /\ p \in exec
  BY Zenon, <1>1 DEF as_define_region, Running, swapvars, procvars, faultvars, AInv, IInv, WorkInv, Work
<1>3. /\ pg \in Eager /\ pg \in Page /\ pg \in Nat /\ index[p] = 0
      /\ \A f \in Frame : main_PG[f].page_number < pg
      /\ \A m \in Eager : m < pg => \E f \in Frame : main_PG[f].page_number = m
      /\ \A f \in Frame : main_PG[f].page_number # pg
  <2>1. /\ pg \in Eager /\ pg \in Page /\ pg \in Nat /\ index[p] = 0
        /\ \A f \in Frame : main_PG[f].page_number < pg
        /\ \A m \in Eager : m < pg => \E f \in Frame : main_PG[f].page_number = m
    BY Zenon, <1>1, <1>2, EagerPages DEF PhaseInv
  <2> QED BY <2>1
<1>4. CASE frame_list = <<>>
  <2>1. UNCHANGED <<main_PG, TLB, pc, fpage>> /\ panicked' = "alloc_pages"
    BY Zenon, <1>4 DEF as_define_region, panic, memvars
  <2>2. SamePages BY Zenon, <2>1 DEF SamePages
  <2> QED BY Zenon, <1>2, <2>1, <2>2, QuietStep
<1>5. CASE frame_list # <<>>
  <2>1. /\ alloc_page(pg, p_pid[p], 1)
        /\ IF TLB.freeTLBEntries = 0 \/ pg = NCode + NData
             THEN alloc_check /\ UNCHANGED TLB
             ELSE IF addTLB_panics(TLB, main_PG', pg, p_pid[p])
             THEN panic("addTLB") /\ UNCHANGED TLB
             ELSE alloc_check /\ TLB' = addTLB(TLB, main_PG', pg, p_pid[p])
        /\ IF rest # {}
             THEN fpage' = [fpage EXCEPT ![p] = Least(rest)] /\ UNCHANGED pc
             ELSE fpage' = [fpage EXCEPT ![p] = 1] /\ Goto(p, "load")
    BY Zenon, <1>5 DEF as_define_region
  <2> HIDE DEF h
  <2>2. /\ h \in Frame /\ main_PG[h].pid = 0
        /\ main_PG'[h] = [Valid |-> 1, pid |-> p_pid[p], page_number |-> pg, Dirty |-> 1]
        /\ \A f \in Frame \ {h} : main_PG'[f] = main_PG[f]
        /\ Owned(p)' /\ Maps(TLB, main_PG') /\ tlb_probe(TLB, pg) = {}
        /\ FramesOf(main_PG', pg, p_pid[p]) = {h}
        /\ main_PG' \in [Frame -> PTE] /\ ~alloc_panics
    BY ZenonT(30), <1>2, <1>3, <2>1, Taken DEF h
  <2> USE DEF h
  <2>3. SoundTLB(TLB, main_PG')
    BY Zenon, <1>2, <2>2, NowSound DEF SoundTLB
  <2>4. SoundTLB(TLB', main_PG') /\ panicked' = "no"
    <3>1. /\ ~addTLB_panics(TLB, main_PG', pg, p_pid[p])
          /\ SoundTLB(addTLB(TLB, main_PG', pg, p_pid[p]), main_PG')
      BY ZenonT(30), <1>3, <2>2, <2>3, Added
    <3>2. alloc_check => panicked' = "no"
      BY Zenon, <1>2, <2>2 DEF alloc_check
    <3> QED BY Zenon, <2>1, <2>3, <3>1, <3>2
  <2>5. /\ \A f \in Frame : main_PG'[f].page_number <= pg
        /\ \A m \in Eager : m <= pg => \E f \in Frame : main_PG'[f].page_number = m
    <3>1. \A f \in Frame : main_PG'[f].page_number <= pg
      <4>1. \A f \in Frame : main_PG[f].page_number \in Nat
        BY Zenon, Basics, EagerPages DEF AInv
      <4> QED BY <1>3, <2>2, <4>1
    <3>2. ASSUME NEW m \in Eager, m < pg PROVE \E f \in Frame : main_PG'[f].page_number = m
      <4>1. PICK f \in Frame : main_PG[f].page_number = m
        BY Zenon, <1>3, <3>2
      <4>2. m \in Page /\ main_PG[f].pid # 0
        BY Zenon, <4>1, EagerPages, WhereIs, <1>1 DEF AInv, FrameInv
      <4> QED BY Zenon, <2>2, <4>1, <4>2
    <3>3. \A m \in Eager : m <= pg => m < pg \/ m = pg
      <4>1. pg \in Nat /\ \A m \in Eager : m \in Nat BY Zenon, <1>3, EagerPages
      <4> QED BY <4>1
    <3> QED BY SMTT(30), <2>2, <3>1, <3>2, <3>3
  <2>6. FrameInv(p)'
    BY Zenon, <1>1, <1>2, <2>1, <2>2 DEF FrameInv, Bare, Goto, RestOK
  <2>7. SlotInv(p)'
    <3>1. \A s \in Slot : sf_list[s].p_pid # p_pid[p]
      BY Zenon, <1>1, <1>2 DEF SlotInv
    <3> QED BY Zenon, <1>1, <1>2, <3>1 DEF SlotInv
  <2>8. CASE rest # {}
    <3>1. Least(rest) \in rest /\ \A m \in rest : Least(rest) <= m
      <4>1. rest \in SUBSET Nat BY Zenon, EagerPages
      <4> QED BY Zenon, <2>8, <4>1, LeastIn
    <3>2. pc'[p] = "define" /\ fpage'[p] = Least(rest) /\ fpage'[p] \in Eager /\ fpage'[p] > pg
      BY Zenon, <1>1, <1>2, <2>1, <2>8, <3>1 DEF RestOK
    <3>3. \A m \in Eager : m < fpage'[p] => m <= pg
      <4>1. pg \in Nat /\ fpage'[p] \in Nat /\ \A m \in Eager : m \in Nat
        BY Zenon, <1>3, <3>2, EagerPages
      <4> QED BY <3>1, <3>2, <4>1
    <3>4. \A f \in Frame : main_PG'[f].page_number < fpage'[p]
      <4> SUFFICES ASSUME NEW f \in Frame PROVE main_PG'[f].page_number < fpage'[p] BY Zenon
      <4>1. main_PG'[f].page_number \in Page \cup {0}
        BY Zenon, <2>2 DEF PTE
      <4>2. main_PG'[f].page_number \in Nat /\ fpage'[p] \in Nat
        BY Zenon, <3>2, <4>1, EagerPages
      <4> QED BY <1>3, <2>5, <3>2, <4>2
    <3>5. PhaseInv(p)'
      BY Zenon, <1>2, <1>3, <2>5, <3>2, <3>3, <3>4 DEF PhaseInv
    <3>6. TLBInv(p)'
      BY Zenon, <2>4, <3>2 DEF TLBInv, SoundTLB, Bare
    <3> QED BY Zenon, <2>4, <2>6, <2>7, <3>5, <3>6 DEF PlaceInv, NoTLBPanic
  <2>9. CASE rest = {}
    <3>1. pc'[p] = "load" /\ fpage'[p] = 1 /\ p \in exec'
      BY Zenon, <1>1, <1>2, <2>1, <2>9 DEF RestOK, Goto
    <3>2. \A m \in Eager : m <= pg
      BY <1>3, <2>9, EagerPages
    <3>3. PhaseInv(p)'
      BY Zenon, <1>2, <1>3, <2>5, <3>1, <3>2, EagerPages DEF PhaseInv
    <3>4. TLBInv(p)'
      BY Zenon, <2>4, <3>1 DEF TLBInv, SoundTLB, Bare
    <3> QED BY Zenon, <2>4, <2>6, <2>7, <3>3, <3>4 DEF PlaceInv, NoTLBPanic
  <2> QED BY Zenon, <2>8, <2>9
<1> QED BY Zenon, <1>4, <1>5

LEMMA LoadAlone == ASSUME Counting, NEW p, Alone(p), AInv(p), load_elf(p) PROVE PlaceInv(p)'
<1> DEFINE pg == fpage[p]
<1>1. /\ p \in Proc /\ RestOK /\ FrameInv(p) /\ SlotInv(p) /\ PhaseInv(p) /\ TLBInv(p)
      /\ NoTLBPanic /\ Kept(p)
  BY Zenon, Basics DEF AInv, PlaceInv, IInv, WorkInv
<1>2. pc[p] = "load" /\ panicked = "no"
  BY Zenon DEF load_elf, Running
<1>3. SoundTLB(LoadTLB(p), main_PG) /\ SoundTLB(TLB, main_PG) /\ pg \in Page
  BY Zenon, <1>2, LoadEntry, NowSound
<1>4. PICK i \in Index :
         /\ tlb_probe(LoadTLB(p), fpage[p]) = {i}
         /\ p \notin exec => LoadTLB(p).ent[i].dirty = 1
         /\ UNCHANGED <<main_PG, sf_list, progs, p_pid, exec, panicked>>
         /\ \/ /\ p \notin exec
               /\ pc'[p] = "user" /\ index'[p] = 0 /\ TLB' = TLB
            \/ pc'[p] = "exit" /\ TLB' = LoadTLB(p) /\ UNCHANGED <<fpage, victim, slot, index>>
            \/ /\ TLB' = LoadTLB(p) /\ UNCHANGED <<victim, slot, index>>
               /\ \/ /\ p \in exec /\ fpage[p] < LastLoaded(fpage[p])
                     /\ fpage'[p] = fpage[p] + 1 /\ pc' = pc
                  \/ /\ fpage'[p] = IF p \notin exec THEN fpage[p]
                                    ELSE IF fpage[p] \in Code THEN 1 ELSE NCode + 1
                     /\ pc'[p] = "loaded"
  <2>1. PICK i \in Index : LoadCase(p, i) BY Zenon, LoadCases
  <2> QED BY Zenon, <2>1 DEF LoadCase
<1>5. SamePages /\ SoundTLB(TLB', main_PG')
  BY Zenon, <1>3, <1>4 DEF SamePages
<1>6. SlotInv(p)'
  <2>1. pc'[p] # "exec"
    BY Zenon, <1>2, <1>4
  <2> QED BY Zenon, <1>1, <1>2, <1>4, <2>1, SlotsKept
<1>7. pc'[p] \in {"user", "exit", "load", "loaded"}
  BY Zenon, <1>2, <1>4
<1>8. FrameInv(p)'
  BY Zenon, <1>1, <1>4, <1>7 DEF FrameInv, Owned, Bare
<1>9. CASE pc'[p] = "user" /\ p \notin exec /\ index'[p] = 0
  <2>1. PhaseInv(p)'
    BY Zenon, <1>4, <1>9 DEF PhaseInv
  <2>2. TLBInv(p)'
    BY Zenon, <1>5, <1>9 DEF TLBInv, SoundTLB, Bare
  <2> QED BY Zenon, <1>1, <1>4, <1>6, <1>8, <2>1, <2>2 DEF PlaceInv, NoTLBPanic
<1>10. CASE pc'[p] = "exit" /\ UNCHANGED <<victim, slot, index>>
  <2>1. pc[p] \notin Bare \cup {"swapOut", "swapped", "swapIn", "readIn"}
    BY Zenon, <1>2 DEF Bare
  <2> QED BY Zenon, <1>2, <1>4, <1>5, <1>10, <2>1, GoExit DEF SoundTLB
<1>11. CASE /\ p \in exec /\ pg < LastLoaded(pg) /\ fpage'[p] = pg + 1 /\ pc' = pc
            /\ UNCHANGED index
  <2>1. fpage'[p] <= LastLoaded(fpage'[p])
    BY Zenon, <1>3, <1>11, EagerPages
  <2>2. PhaseInv(p)'
    BY Zenon, <1>1, <1>2, <1>4, <1>11, <2>1 DEF PhaseInv
  <2>3. TLBInv(p)'
    BY Zenon, <1>2, <1>4, <1>5, <1>11 DEF TLBInv, SoundTLB, Bare
  <2> QED BY Zenon, <1>1, <1>4, <1>6, <1>8, <2>2, <2>3 DEF PlaceInv, NoTLBPanic
<1>12. CASE /\ fpage'[p] = IF p \notin exec THEN pg ELSE IF pg \in Code THEN 1 ELSE NCode + 1
            /\ pc'[p] = "loaded" /\ UNCHANGED index
  <2>1. p \in exec => fpage'[p] <= LastLoaded(fpage'[p])
    <3>1. NCode \in Nat /\ LastLoaded(1) \in Nat /\ LastLoaded(NCode + 1) \in Nat
      BY PagerAssumption DEF LastLoaded
    <3> QED BY Zenon, <1>12, <3>1, EagerPages
  <2>2. PhaseInv(p)'
    BY Zenon, <1>1, <1>2, <1>4, <1>12, <2>1 DEF PhaseInv
  <2>3. TLBInv(p)'
    BY Zenon, <1>5, <1>12 DEF TLBInv, SoundTLB, Bare
  <2> QED BY Zenon, <1>1, <1>4, <1>6, <1>8, <2>2, <2>3 DEF PlaceInv, NoTLBPanic
<1> QED BY Zenon, <1>4, <1>9, <1>10, <1>11, <1>12

LEMMA ProtectAlone == ASSUME Counting, NEW p, Alone(p), AInv(p), protect(p) PROVE PlaceInv(p)'
<1>1. /\ p \in Proc /\ FrameInv(p) /\ SlotInv(p) /\ PhaseInv(p) /\ NoTLBPanic
  BY Zenon, Basics DEF AInv, PlaceInv
<1>2. /\ pc[p] = "loaded" /\ panicked = "no"
      /\ \A f \in Frame : /\ main_PG'[f].pid = main_PG[f].pid
                          /\ main_PG'[f].page_number = main_PG[f].page_number
      /\ SoundTLB(TLB', main_PG')
      /\ UNCHANGED <<sf_list, progs, p_pid, panicked>>
      /\ \/ /\ p \in exec /\ pc'[p] = "load" /\ fpage'[p] = NCode + 1 /\ UNCHANGED <<exec, index>>
         \/ pc'[p] = "user" /\ index'[p] = 0 /\ exec' = exec \ {p}
  BY Zenon, ProtectCases
<1>3. FrameInv(p)'
  BY Zenon, <1>1, <1>2 DEF FrameInv, Owned, Bare
<1>4. SlotInv(p)'
  BY Zenon, <1>1, <1>2, SlotsKept
<1>5. PhaseInv(p)'
  <2>1. CASE p \in exec /\ pc'[p] = "load" /\ fpage'[p] = NCode + 1 /\ UNCHANGED <<exec, index>>
    <3>1. fpage'[p] <= LastLoaded(fpage'[p])
      BY Zenon, <2>1, EagerPages, PagerAssumption DEF LastLoaded
    <3>2. index'[p] = 0 /\ \A m \in Eager : \E f \in Frame : main_PG'[f].page_number = m
      BY ZenonT(30), <1>1, <1>2, <2>1 DEF PhaseInv
    <3> QED BY Zenon, <2>1, <3>1, <3>2 DEF PhaseInv
  <2>2. CASE pc'[p] = "user" /\ index'[p] = 0 /\ exec' = exec \ {p}
    BY Zenon, <2>2 DEF PhaseInv
  <2> QED BY Zenon, <1>2, <2>1, <2>2
<1>6. TLBInv(p)'
  BY Zenon, <1>2 DEF TLBInv, SoundTLB, Bare
<1> QED BY Zenon, <1>1, <1>2, <1>3, <1>4, <1>5, <1>6 DEF PlaceInv, NoTLBPanic

LEMMA ReloadAlone ==
    ASSUME Counting, NEW p, Alone(p), AInv(p), NEW pg \in Page, NEW w, fault_reload(p, pg, w)
    PROVE  PlaceInv(p)'
<1>1. /\ p \in Proc /\ FrameInv(p) /\ SlotInv(p) /\ PhaseInv(p) /\ NoTLBPanic
      /\ main_PG \in [Frame -> PTE] /\ IInv /\ Owned(p)
  BY Zenon, Basics DEF AInv, PlaceInv, MemOK, FrameInv
<1>2. /\ UNCHANGED <<main_PG, sf_list, progs, p_pid, exec, pc, fpage, victim, slot, index>>
      /\ pc[p] = "user" /\ panicked = "no" /\ tlb_probe(TLB, pg) = {} /\ pageSearch(pg) # {}
  BY Zenon DEF fault_reload, Miss, Running, memvars, swapvars, procvars, faultvars
<1>3. FramesOf(main_PG, pg, p_pid[p]) # {}
  BY Zenon, <1>1, <1>2, WhereIs
<1>4. SoundTLB(TLB, main_PG)
  BY Zenon, <1>2, NowSound
<1>5. SoundTLB(TLB', main_PG') /\ panicked' = panicked
  <2>1. /\ ~addTLB_panics(TLB, main_PG, pg, p_pid[p])
        /\ SoundTLB(addTLB(TLB, main_PG, pg, p_pid[p]), main_PG)
    BY Zenon, <1>1, <1>2, <1>3, <1>4, Added
  <2>2. TLB' = addTLB(TLB, main_PG, pg, p_pid[p]) /\ panicked' = panicked
    BY Zenon, <2>1 DEF fault_reload
  <2> QED BY Zenon, <1>2, <2>1, <2>2
<1>6. FrameInv(p)' /\ SlotInv(p)' /\ PhaseInv(p)'
  BY Zenon, <1>1, <1>2, <1>5 DEF FrameInv, Owned, SlotInv, PhaseInv, SavedIn
<1>7. TLBInv(p)'
  BY Zenon, <1>2, <1>5 DEF TLBInv, SoundTLB, Bare
<1> QED BY Zenon, <1>1, <1>5, <1>6, <1>7 DEF PlaceInv, NoTLBPanic

-----------------------------------------------------------------------------
(* vm_fault *)

(* A frame for a page that is nowhere yet: the page is then loaded.        *)
LEMMA LoadBegins ==
    ASSUME NEW p, Alone(p), AInv(p), pc[p] \in {"user", "alloc"}, panicked = "no", NEW pg \in Page,
           alloc_page(pg, p_pid[p], 1), alloc_check, \A f \in Frame : main_PG[f].page_number # pg,
           \A s \in Slot : ~(sf_list[s].p_number = pg /\ sf_list[s].p_pid = p_pid[p]),
           pc'[p] = "load", fpage'[p] = pg, UNCHANGED <<sf_list, TLB, progs, p_pid, exec, index>>
    PROVE  PlaceInv(p)'
<1> DEFINE h == Head(frame_list)
<1>1. /\ p \in Proc /\ SlotInv(p) /\ PhaseInv(p) /\ TLBInv(p)
  BY Zenon, Basics DEF AInv, PlaceInv
<1>2. p \notin exec /\ index[p] = 0
  BY Zenon, <1>1 DEF PhaseInv
<1> HIDE DEF h
<1>3. /\ h \in Frame /\ main_PG[h].pid = 0
      /\ main_PG'[h] = [Valid |-> 1, pid |-> p_pid[p], page_number |-> pg, Dirty |-> 1]
      /\ \A f \in Frame \ {h} : main_PG'[f] = main_PG[f]
      /\ Owned(p)' /\ Maps(TLB, main_PG') /\ tlb_probe(TLB, pg) = {}
      /\ ~alloc_panics
  BY Zenon, Taken DEF h
<1>4. FrameInv(p)'
  BY Zenon, <1>3 DEF FrameInv, Bare
<1>5. SlotInv(p)'
  <2>1. \A s \in Slot, f \in Frame :
          ~(main_PG'[f].pid # 0 /\ sf_list[s].p_pid = p_pid[p]
            /\ sf_list[s].p_number = main_PG'[f].page_number)
    <3> SUFFICES ASSUME NEW s \in Slot, NEW f \in Frame, main_PG'[f].pid # 0,
                        sf_list[s].p_pid = p_pid[p], sf_list[s].p_number = main_PG'[f].page_number
                 PROVE  FALSE
      BY Zenon
    <3>1. CASE f = h
      BY <1>3, <3>1
    <3>2. CASE f # h
      BY Zenon, <1>1, <1>3, <3>2 DEF SlotInv
    <3> QED BY Zenon, <3>1, <3>2
  <2> QED BY Zenon, <1>1, <1>2, <2>1 DEF SlotInv
<1>6. PhaseInv(p)'
  BY SMTT(30), <1>2, <1>3 DEF PhaseInv
<1>7. TLBInv(p)'
  BY Zenon, <1>1, <1>3 DEF TLBInv, Bare, tlb_probe
<1>8. panicked' = "no"
  BY Zenon, <1>3 DEF alloc_check
<1> QED BY Zenon, <1>4, <1>5, <1>6, <1>7, <1>8 DEF PlaceInv, NoTLBPanic

(* vm_fault stops the machine before it has changed anything.              *)
LEMMA FaultPanics ==
    ASSUME NEW p, Alone(p), AInv(p), pc[p] = "user", panicked = "no",
           UNCHANGED <<main_PG, TLB, sf_list, progs, p_pid, exec, pc>>,
           index'[p] = 0 \/ SavedIn(index[p], p)', panicked' \notin {"no", "addTLB"}
    PROVE  PlaceInv(p)'
<1>1. FrameInv(p) /\ SlotInv(p) /\ PhaseInv(p) /\ TLBInv(p)
  BY Zenon DEF AInv, PlaceInv
<1>2. FrameInv(p)' /\ SlotInv(p)'
  BY Zenon, <1>1 DEF FrameInv, Owned, SlotInv
<1>3. PhaseInv(p)'
  BY Zenon, <1>1 DEF PhaseInv
<1>4. TLBInv(p)'
  BY Zenon, <1>1 DEF TLBInv
<1> QED BY Zenon, <1>2, <1>3, <1>4 DEF PlaceInv, NoTLBPanic

LEMMA CodeFaultAlone ==
    ASSUME Counting, NEW p, Alone(p), AInv(p), NEW pg \in Page, NEW w, fault_code(p, pg, w)
    PROVE  PlaceInv(p)'
<1>1. /\ p \in Proc /\ RestOK /\ FrameInv(p) /\ SlotInv(p) /\ PhaseInv(p) /\ Owned(p) /\ IInv
  BY Zenon, Basics DEF AInv, PlaceInv, FrameInv
<1>2. /\ UNCHANGED <<sf_list, progs, p_pid, exec, victim, slot, index>>
      /\ pc[p] = "user" /\ panicked = "no" /\ pageSearch(pg) = {} /\ pg \in Code
      /\ fpage'[p] = pg
  BY Zenon, <1>1 DEF fault_code, Miss, Running, swapvars, procvars, RestOK
<1>3. \A f \in Frame : main_PG[f].page_number # pg
  BY Zenon, <1>1, <1>2, WhereIs
<1>4. \A s \in Slot : ~(sf_list[s].p_number = pg /\ sf_list[s].p_pid = p_pid[p])
  <2>1. pg \notin Data /\ pg # 0
    BY SMTT(30), <1>2, PagerAssumption DEF Code, Data
  <2> QED BY SMTT(30), <1>1, <2>1 DEF SlotInv, FreeSlot
<1>5. p \notin exec /\ index'[p] = 0 /\ index[p] = 0
  BY Zenon, <1>1, <1>2 DEF PhaseInv
<1>6. CASE panicked' \in {"code write", "no victim"} /\ UNCHANGED <<main_PG, TLB, pc>>
  BY Zenon, <1>2, <1>5, <1>6, FaultPanics
<1>7. CASE alloc_page(pg, p_pid[p], 1) /\ alloc_check /\ Goto(p, "load") /\ UNCHANGED TLB
  <2>1. pc'[p] = "load"
    BY Zenon, <1>1, <1>7 DEF Goto, RestOK
  <2> QED BY Zenon, <1>2, <1>3, <1>4, <1>7, <2>1, LoadBegins
<1>8. CASE (\E f \in victim_pageSearch(p, Code) : free_kpages(f)) /\ Goto(p, "alloc")
  <2>1. PICK f \in Frame : main_PG[f].pid # 0 /\ free_kpages(f)
    BY Zenon, <1>2, <1>8, Basics DEF victim_pageSearch, AInv
  <2>2. pc'[p] = "alloc"
    BY Zenon, <1>1, <1>8 DEF Goto, RestOK
  <2>3. /\ main_PG'[f].pid = 0 /\ main_PG'[f].page_number = 0
        /\ \A g \in Frame \ {f} : main_PG'[g] = main_PG[g]
        /\ Owned(p)' /\ Maps(TLB', main_PG') /\ OneEntry(TLB') /\ Counted(TLB')
        /\ panicked' = "no"
    BY Zenon, <1>2, <2>1, Freed
  <2>4. FrameInv(p)'
    BY Zenon, <2>2, <2>3 DEF FrameInv, Bare
  <2>5. SlotInv(p)'
    BY Zenon, <1>1, <1>2, <2>2, <2>3, SlotsKept
  <2>6. PhaseInv(p)'
    <3>1. \A g \in Frame : main_PG'[g].page_number # fpage'[p]
      BY Zenon, <1>2, <1>3, <2>3, Basics DEF AInv
    <3>2. \A s \in Slot : ~SavedIn(s, p)'
      BY Zenon, <1>2, <1>4 DEF SavedIn
    <3> QED BY Zenon, <1>2, <1>5, <2>2, <3>1, <3>2 DEF PhaseInv
  <2>7. TLBInv(p)'
    BY Zenon, <2>2, <2>3 DEF TLBInv, Bare
  <2> QED BY Zenon, <2>3, <2>4, <2>5, <2>6, <2>7 DEF PlaceInv, NoTLBPanic
<1> QED BY Zenon, <1>6, <1>7, <1>8 DEF fault_code, panic, memvars

(* swapOut has its victim and a free slot, for a page that is in no frame, *)
(* and either in no slot or in the one swapIn will read.                   *)
LEMMA SwapBegins ==
    ASSUME Counting, NEW p, Alone(p), AInv(p), pc[p] = "user", panicked = "no", NEW pg \in Page,
           \A f \in Frame : main_PG[f].page_number # pg, fpage'[p] = pg,
           swapOut_begin(p), UNCHANGED <<main_PG, TLB, sf_list, progs, p_pid, exec>>,
           \/ index'[p] = 0 /\ \A s \in Slot : ~SavedIn(s, p)'
           \/ index'[p] # 0 /\ SavedIn(index[p], p)'
    PROVE  PlaceInv(p)'
<1> DEFINE free == {t \in Slot : sf_list[t] = FreeSlot}
<1>1. /\ p \in Proc /\ RestOK /\ FrameInv(p) /\ SlotInv(p) /\ PhaseInv(p) /\ TLBInv(p)
  BY Zenon, Basics DEF AInv, PlaceInv
<1>2. CASE panicked' \in {"no victim", "out of swap"} /\ pc' = pc
  BY Zenon, <1>2, FaultPanics
<1>3. CASE /\ free # {} /\ slot' = [slot EXCEPT ![p] = Least(free)]
           /\ Goto(p, "swapOut") /\ UNCHANGED panicked
  <2>1. pc'[p] = "swapOut" /\ slot'[p] = Least(free)
    BY Zenon, <1>1, <1>3 DEF Goto, RestOK
  <2>2. Least(free) \in free
    <3>1. free \in SUBSET Nat BY SMTT(30), PagerAssumption DEF Slot
    <3> QED BY Zenon, <1>3, <3>1, LeastIn
  <2>3. FrameInv(p)'
    BY Zenon, <1>1, <2>1 DEF FrameInv, Owned, Bare
  <2>4. SlotInv(p)'
    BY Zenon, <1>1, <2>1, SlotsKept
  <2>5. PhaseInv(p)'
    <3>1. p \notin exec
      BY Zenon, <1>1 DEF PhaseInv
    <3>2. sf_list'[slot'[p]] = FreeSlot
      BY Zenon, <2>1, <2>2
    <3> QED BY Zenon, <2>1, <3>1, <3>2 DEF PhaseInv
  <2>6. TLBInv(p)'
    BY Zenon, <1>1, <2>1 DEF TLBInv, Bare
  <2> QED BY Zenon, <1>3, <2>3, <2>4, <2>5, <2>6 DEF PlaceInv, NoTLBPanic
<1> QED BY Zenon, <1>2, <1>3 DEF swapOut_begin, panic

LEMMA NewDataAlone ==
    ASSUME Counting, NEW p, Alone(p), AInv(p), NEW pg \in Page, NEW w, fault_data_new(p, pg, w)
    PROVE  PlaceInv(p)'
<1>1. /\ p \in Proc /\ RestOK /\ PhaseInv(p) /\ Owned(p) /\ IInv
  BY Zenon, Basics DEF AInv, PlaceInv, FrameInv
<1>2. /\ UNCHANGED <<sf_list, TLB, progs, p_pid, exec, index>>
      /\ pc[p] = "user" /\ panicked = "no" /\ pageSearch(pg) = {}
      /\ \A s \in Slot : ~(sf_list[s].p_number = pg /\ sf_list[s].p_pid = p_pid[p])
      /\ fpage'[p] = pg
  BY Zenon, <1>1 DEF fault_data_new, Miss, Running, swapvars, tlbvars, procvars, RestOK
<1>3. \A f \in Frame : main_PG[f].page_number # pg
  BY Zenon, <1>1, <1>2, WhereIs
<1>4. index'[p] = 0 /\ \A s \in Slot : ~SavedIn(s, p)'
  BY Zenon, <1>1, <1>2 DEF PhaseInv, SavedIn
<1>5. CASE alloc_page(pg, p_pid[p], 1) /\ alloc_check /\ Goto(p, "load")
  <2>1. pc'[p] = "load"
    BY Zenon, <1>1, <1>5 DEF Goto, RestOK
  <2> QED BY Zenon, <1>2, <1>3, <1>5, <2>1, LoadBegins
<1>6. CASE swapOut_begin(p) /\ UNCHANGED main_PG
  BY Zenon, <1>2, <1>3, <1>4, <1>6, SwapBegins
<1> QED BY Zenon, <1>5, <1>6 DEF fault_data_new, memvars

LEMMA SwappedDataAlone ==
    ASSUME Counting, NEW p, Alone(p), AInv(p), NEW pg \in Page, NEW w, fault_data_swapped(p, pg, w)
    PROVE  PlaceInv(p)'
<1> DEFINE S == {t \in Slot : sf_list[t].p_number = pg /\ sf_list[t].p_pid = p_pid[p]}
<1>1. /\ p \in Proc /\ RestOK /\ Owned(p) /\ IInv /\ 0 \notin Slot
  BY Zenon, Basics DEF AInv, PlaceInv, FrameInv
<1>2. /\ UNCHANGED <<main_PG, sf_list, TLB, progs, p_pid, exec>>
      /\ pc[p] = "user" /\ panicked = "no" /\ pageSearch(pg) = {}
      /\ fpage'[p] = pg /\ swapOut_begin(p) /\ S # {} /\ index'[p] = Least(S)
  BY Zenon, <1>1 DEF fault_data_swapped, Miss, Running, memvars, swapvars, tlbvars, procvars, RestOK
<1>3. \A f \in Frame : main_PG[f].page_number # pg
  BY Zenon, <1>1, <1>2, WhereIs
<1>4. Least(S) \in S
  <2>1. S \in SUBSET Nat BY PagerAssumption DEF Slot
  <2> QED BY Zenon, <1>2, <2>1, LeastIn
<1>5. index'[p] # 0 /\ SavedIn(index[p], p)'
  BY Zenon, <1>1, <1>2, <1>4 DEF SavedIn
<1> QED BY Zenon, <1>2, <1>3, <1>5, SwapBegins

LEMMA SwapOutAlone == ASSUME NEW p, Alone(p), AInv(p), swapOut(p) PROVE PlaceInv(p)'
<1>1. /\ p \in Proc /\ RestOK /\ FrameInv(p) /\ SlotInv(p) /\ PhaseInv(p) /\ TLBInv(p) /\ NoTLBPanic
  BY Zenon, Basics DEF AInv, PlaceInv
<1>2. /\ pc[p] = "swapOut" /\ panicked = "no" /\ pc'[p] = "swapped"
      /\ UNCHANGED <<main_PG, sf_list, TLB, progs, p_pid, exec, fpage, victim, slot, index, panicked>>
  BY Zenon, <1>1 DEF swapOut, Running, Goto, Alone, RestOK, memvars, tlbvars, procvars, faultvars
<1>3. p \notin exec
  BY Zenon, <1>2, SwappedFacts
<1>4. FrameInv(p)' /\ TLBInv(p)'
  BY Zenon, <1>1, <1>2 DEF FrameInv, Owned, TLBInv, Bare
<1>5. SlotInv(p)'
  BY Zenon, <1>1, <1>2, SlotsKept
<1>6. PhaseInv(p)'
  BY Zenon, <1>1, <1>2, <1>3 DEF PhaseInv, SavedIn
<1> QED BY Zenon, <1>1, <1>2, <1>4, <1>5, <1>6 DEF PlaceInv, NoTLBPanic

(* The page moves: it is in the slot and in no frame afterwards.           *)
LEMMA SwapOutDoneAlone == ASSUME Counting, NEW p, Alone(p), AInv(p), swapOut_done(p) PROVE PlaceInv(p)'
<1> DEFINE f == victim[p]
           v == main_PG[victim[p]]
           t == slot[p]
<1>1. /\ p \in Proc /\ RestOK /\ Owned(p) /\ SlotInv(p) /\ PhaseInv(p) /\ 0 \notin Page
      /\ (pc[p] # "none" => p_pid[p] \in 1..progs /\ p_pid[p] # 0)
  BY Zenon, Basics DEF AInv, PlaceInv, FrameInv
<1>2. /\ pc[p] = "swapped" /\ panicked = "no" /\ free_kpages(f)
      /\ sf_list' = [sf_list EXCEPT ![t] =
            [p_number |-> v.page_number, p_pid |-> v.pid, Dirty |-> v.Dirty]]
      /\ pc'[p] = IF index[p] = 0 THEN "alloc" ELSE "swapIn"
      /\ UNCHANGED <<progs, p_pid, exec, fpage, victim, slot, index>>
  BY Zenon, <1>1 DEF swapOut_done, Running, Goto, RestOK, procvars, faultvars
<1>3. /\ f \in Frame /\ t \in Slot /\ p \notin exec /\ fpage[p] \in Page
      /\ v.pid = p_pid[p] /\ v.pid # 0 /\ v.page_number \in Data /\ v.page_number # fpage[p]
      /\ sf_list[t] = FreeSlot /\ (index[p] # 0 => index[p] \in Slot \ {t})
      /\ \A s \in Slot : ~(sf_list[s].p_pid = p_pid[p] /\ sf_list[s].p_number = v.page_number)
  BY Zenon, <1>2, SwappedFacts
<1>4. /\ main_PG'[f].pid = 0 /\ main_PG'[f].page_number = 0
      /\ \A g \in Frame \ {f} : main_PG'[g] = main_PG[g]
      /\ Owned(p)' /\ Maps(TLB', main_PG') /\ OneEntry(TLB') /\ Counted(TLB')
      /\ panicked' = "no"
  BY Zenon, <1>2, <1>3, Freed
<1>5. /\ sf_list'[t].p_number = v.page_number /\ sf_list'[t].p_pid = p_pid[p]
      /\ \A s \in Slot \ {t} : sf_list'[s] = sf_list[s]
  BY Zenon, <1>1, <1>2, <1>3 DEF RestOK
<1>6. \A g \in Frame \ {f} : main_PG[g].page_number # v.page_number
  BY Zenon, <1>1, <1>3 DEF Owned
<1> HIDE DEF f, v, t
<1>7. FrameInv(p)'
  BY Zenon, <1>2, <1>4 DEF FrameInv, Bare
<1>8. SlotInv(p)'
  <2>1. \A s \in Slot : \/ sf_list'[s] = FreeSlot
                        \/ sf_list'[s].p_number \in Data /\ sf_list'[s].p_pid \in 1..progs
    <3>1. \A s \in Slot : \/ sf_list[s] = FreeSlot
                          \/ sf_list[s].p_number \in Data /\ sf_list[s].p_pid \in 1..progs
      BY Zenon, <1>1 DEF SlotInv
    <3> QED BY Zenon, <1>1, <1>2, <1>3, <1>5, <3>1
  <2>2. \A s, u \in Slot :
          /\ sf_list'[s].p_pid # 0 /\ sf_list'[s].p_pid = sf_list'[u].p_pid
          /\ sf_list'[s].p_number = sf_list'[u].p_number
          => s = u
    BY <1>1, <1>3, <1>5 DEF SlotInv
  <2>3. \A s \in Slot, g \in Frame :
          ~(main_PG'[g].pid # 0 /\ sf_list'[s].p_pid = p_pid[p]
            /\ sf_list'[s].p_number = main_PG'[g].page_number)
    <3> SUFFICES ASSUME NEW s \in Slot, NEW g \in Frame, main_PG'[g].pid # 0,
                        sf_list'[s].p_pid = p_pid[p], sf_list'[s].p_number = main_PG'[g].page_number
                 PROVE  FALSE
      BY Zenon
    <3>1. g # f /\ main_PG'[g] = main_PG[g]
      BY Zenon, <1>4
    <3>2. CASE s = t
      BY Zenon, <1>5, <1>6, <3>1, <3>2
    <3>3. CASE s # t
      BY SMTT(30), <1>1, <1>2, <1>5, <3>1, <3>3 DEF SlotInv
    <3> QED BY Zenon, <3>2, <3>3
  <2>4. pc'[p] # "exec" /\ p \notin exec'
    BY Zenon, <1>2, <1>3
  <2> QED BY Zenon, <1>2, <2>1, <2>2, <2>3, <2>4 DEF SlotInv
<1>9. PhaseInv(p)'
  <2>1. \A g \in Frame : main_PG'[g].page_number # fpage'[p]
    BY ZenonT(30), <1>1, <1>2, <1>3, <1>4 DEF PhaseInv
  <2>2. CASE index[p] = 0
    <3>1. \A s \in Slot : ~SavedIn(s, p)'
      BY SMTT(30), <1>1, <1>2, <1>3, <1>5, <2>2 DEF PhaseInv, SavedIn
    <3> QED BY Zenon, <1>2, <1>3, <2>1, <2>2, <3>1 DEF PhaseInv
  <2>3. CASE index[p] # 0
    <3>1. SavedIn(index[p], p)'
      BY Zenon, <1>1, <1>2, <1>3, <1>5, <2>3 DEF PhaseInv, SavedIn
    <3> QED BY Zenon, <1>2, <1>3, <2>1, <2>3, <3>1 DEF PhaseInv
  <2> QED BY Zenon, <2>2, <2>3
<1>10. TLBInv(p)'
  BY Zenon, <1>2, <1>4 DEF TLBInv, Bare
<1> QED BY Zenon, <1>4, <1>7, <1>8, <1>9, <1>10 DEF PlaceInv, NoTLBPanic

LEMMA AllocAgainAlone == ASSUME Counting, NEW p, Alone(p), AInv(p), alloc_again(p) PROVE PlaceInv(p)'
<1>1. /\ p \in Proc /\ RestOK /\ PhaseInv(p) /\ Work(p)
  BY Zenon, Basics DEF AInv, PlaceInv, IInv, WorkInv
<1>2. /\ pc[p] = "alloc" /\ panicked = "no"
      /\ UNCHANGED <<sf_list, TLB, progs, p_pid, exec, fpage, victim, slot, index>>
  BY Zenon DEF alloc_again, Running, swapvars, tlbvars, procvars, faultvars
<1>3. CASE alloc_page(fpage[p], p_pid[p], 1) /\ alloc_check /\ Goto(p, "load")
  <2>1. pc'[p] = "load" /\ fpage[p] \in Page /\ fpage'[p] = fpage[p]
    BY Zenon, <1>1, <1>2, <1>3 DEF Goto, RestOK, Work
  <2>2. /\ \A f \in Frame : main_PG[f].page_number # fpage[p]
        /\ \A s \in Slot : ~(sf_list[s].p_number = fpage[p] /\ sf_list[s].p_pid = p_pid[p])
    BY Zenon, <1>1, <1>2 DEF PhaseInv, SavedIn
  <2> QED BY Zenon, <1>2, <1>3, <2>1, <2>2, LoadBegins
<1>4. CASE panicked' = "wild frame" /\ UNCHANGED <<main_PG, pc>>
  <2>1. SamePages BY Zenon, <1>4 DEF SamePages
  <2> QED BY Zenon, <1>2, <1>4, <2>1, QuietStep
<1> QED BY Zenon, <1>3, <1>4 DEF alloc_again, panic, memvars

(* The page is back in a frame, and still in the slot until it is read.    *)
LEMMA SwapInAlone == ASSUME Counting, NEW p, Alone(p), AInv(p), swapIn(p) PROVE PlaceInv(p)'
<1> DEFINE s == sf_list[index[p]]
           h == Head(frame_list)
<1>1. /\ p \in Proc /\ RestOK /\ SlotInv(p) /\ PhaseInv(p) /\ Work(p) /\ 0 \notin Slot
      /\ (pc[p] # "none" => p_pid[p] # 0)
  BY Zenon, Basics DEF AInv, PlaceInv, IInv, WorkInv
<1>2. /\ pc[p] = "swapIn" /\ panicked = "no"
      /\ UNCHANGED <<sf_list, progs, p_pid, exec, fpage, slot, index>>
  BY Zenon DEF swapIn, Running, swapvars, procvars
<1>3. /\ index[p] \in Slot /\ s.p_number = fpage[p] /\ s.p_pid = p_pid[p] /\ s.Dirty \in {0, 1}
      /\ fpage[p] \in Page /\ p \notin exec /\ index[p] # 0
      /\ \A f \in Frame : main_PG[f].page_number # fpage[p]
  BY Zenon, <1>1, <1>2 DEF Work, PhaseInv, SavedIn, RestOK, SwapEnt
<1>4. CASE panicked' = "swapIn" /\ UNCHANGED <<main_PG, TLB, pc, victim>>
  <2>1. SamePages BY Zenon, <1>4 DEF SamePages
  <2> QED BY Zenon, <1>2, <1>4, <2>1, QuietStep
<1>5. CASE /\ alloc_page(s.p_number, s.p_pid, s.Dirty)
           /\ victim' = [victim EXCEPT ![p] = h]
           /\ IF addTLB_panics(TLB, main_PG', s.p_number, s.p_pid)
                THEN panic("addTLB") /\ UNCHANGED <<TLB, pc>>
                ELSE /\ TLB' = addTLB(TLB, main_PG', s.p_number, s.p_pid)
                     /\ alloc_check /\ Goto(p, "readIn")
  <2>1. alloc_page(fpage[p], p_pid[p], s.Dirty)
    BY Zenon, <1>3, <1>5
  <2> HIDE DEF h, s
  <2>2. /\ h \in Frame /\ main_PG[h].pid = 0
        /\ main_PG'[h] = [Valid |-> 1, pid |-> p_pid[p], page_number |-> fpage[p], Dirty |-> s.Dirty]
        /\ \A f \in Frame \ {h} : main_PG'[f] = main_PG[f]
        /\ Owned(p)' /\ Maps(TLB, main_PG') /\ tlb_probe(TLB, fpage[p]) = {}
        /\ FramesOf(main_PG', fpage[p], p_pid[p]) = {h}
        /\ main_PG' \in [Frame -> PTE] /\ ~alloc_panics
    BY ZenonT(30), <1>2, <1>3, <2>1, Taken DEF h
  <2>2a. main_PG'[h].pid = p_pid[p] /\ main_PG'[h].page_number = fpage[p]
    BY <2>2
  <2>3. SoundTLB(TLB, main_PG')
    BY Zenon, <1>2, <2>2, NowSound DEF SoundTLB
  <2>4. /\ ~addTLB_panics(TLB, main_PG', fpage[p], p_pid[p])
        /\ SoundTLB(addTLB(TLB, main_PG', fpage[p], p_pid[p]), main_PG')
    BY Zenon, <1>3, <2>2, <2>3, Added
  <2>5. SoundTLB(TLB', main_PG') /\ panicked' = "no" /\ pc'[p] = "readIn" /\ victim'[p] = h
    BY ZenonT(30), <1>1, <1>3, <1>5, <2>2, <2>4 DEF alloc_check, Goto, RestOK
  <2>6. FrameInv(p)'
    BY Zenon, <2>2, <2>5 DEF FrameInv, Bare
  <2>7. SlotInv(p)'
    <3>1. ASSUME NEW r \in Slot, NEW f \in Frame, main_PG'[f].pid # 0,
                 sf_list'[r].p_pid = p_pid[p], sf_list'[r].p_number = main_PG'[f].page_number
          PROVE  r = index[p] /\ f = h
      <4>1. CASE f = h
        <5>1. sf_list[r].p_pid = p_pid[p] /\ sf_list[r].p_number = fpage[p] /\ p_pid[p] # 0
          BY Zenon, <1>1, <1>2, <2>2a, <3>1, <4>1
        <5>2. sf_list[index[p]].p_pid = p_pid[p] /\ sf_list[index[p]].p_number = fpage[p]
          BY Zenon, <1>3 DEF s
        <5>3. r = index[p]
          BY Zenon, <1>1, <1>3, <5>1, <5>2 DEF SlotInv
        <5> QED BY ZenonT(30), <4>1, <5>3
      <4>2. CASE f # h
        BY Zenon, <1>1, <1>2, <2>2, <3>1, <4>2 DEF SlotInv
      <4> QED BY Zenon, <4>1, <4>2
    <3> QED BY Zenon, <1>1, <1>2, <1>3, <2>5, <3>1 DEF SlotInv
  <2>8. PhaseInv(p)'
    <3>1. SavedIn(index[p], p)'
      BY ZenonT(30), <1>2, <1>3 DEF SavedIn, s
    <3>2. main_PG'[victim'[p]].pid # 0 /\ main_PG'[victim'[p]].page_number = fpage'[p]
      BY Zenon, <1>1, <1>2, <2>2a, <2>5
    <3> QED BY Zenon, <1>2, <1>3, <2>5, <3>1, <3>2 DEF PhaseInv
  <2>9. TLBInv(p)'
    BY Zenon, <2>5 DEF TLBInv, SoundTLB, Bare
  <2> QED BY Zenon, <2>5, <2>6, <2>7, <2>8, <2>9 DEF PlaceInv, NoTLBPanic
<1> QED BY Zenon, <1>4, <1>5 DEF swapIn, panic, memvars

LEMMA SwapInReadAlone == ASSUME NEW p, Alone(p), AInv(p), swapIn_read(p) PROVE PlaceInv(p)'
<1>1. /\ p \in Proc /\ RestOK /\ FrameInv(p) /\ SlotInv(p) /\ PhaseInv(p) /\ TLBInv(p)
      /\ NoTLBPanic /\ Work(p) /\ (pc[p] # "none" => p_pid[p] # 0)
  BY Zenon, Basics DEF AInv, PlaceInv, IInv, WorkInv
<1>2. /\ pc[p] = "readIn" /\ pc'[p] = "user" /\ index'[p] = 0
      /\ sf_list' = [sf_list EXCEPT ![index[p]] = FreeSlot]
      /\ UNCHANGED <<main_PG, TLB, progs, p_pid, exec, panicked>>
  BY Zenon, <1>1 DEF swapIn_read, Running, Resume, Goto, Alone, RestOK, tlbvars, procvars
<1>3. index[p] \in Slot /\ p \notin exec
  BY Zenon, <1>1, <1>2 DEF Work, PhaseInv
<1>4. sf_list'[index[p]] = FreeSlot /\ \A s \in Slot \ {index[p]} : sf_list'[s] = sf_list[s]
  BY Zenon, <1>1, <1>2, <1>3 DEF RestOK
<1>5. FrameInv(p)' /\ TLBInv(p)'
  BY Zenon, <1>1, <1>2 DEF FrameInv, Owned, TLBInv, Bare
<1>6. SlotInv(p)'
  <2>1. \A s \in Slot : \/ sf_list'[s] = FreeSlot
                        \/ sf_list'[s].p_number \in Data /\ sf_list'[s].p_pid \in 1..progs
    BY Zenon, <1>1, <1>4 DEF SlotInv
  <2>2. FreeSlot.p_pid = 0
    BY Zenon DEF FreeSlot
  <2>3. \A s, t \in Slot :
          /\ sf_list'[s].p_pid # 0 /\ sf_list'[s].p_pid = sf_list'[t].p_pid
          /\ sf_list'[s].p_number = sf_list'[t].p_number
          => s = t
    BY <1>1, <1>4, <2>2 DEF SlotInv
  <2>4. \A s \in Slot, f \in Frame :
          ~(main_PG[f].pid # 0 /\ sf_list'[s].p_pid = p_pid[p]
            /\ sf_list'[s].p_number = main_PG[f].page_number)
    BY Zenon, <1>1, <1>2, <1>4, <2>2 DEF SlotInv
  <2> QED BY Zenon, <1>2, <1>3, <2>1, <2>3, <2>4 DEF SlotInv
<1>7. PhaseInv(p)'
  BY Zenon, <1>2, <1>3 DEF PhaseInv
<1> QED BY Zenon, <1>1, <1>2, <1>5, <1>6, <1>7 DEF PlaceInv, NoTLBPanic

-----------------------------------------------------------------------------
(* The invariant *)

(* When the system has started no program has a page anywhere.            *)
LEMMA InitPlace == ASSUME Counting, NEW p, Alone(p), Init, IInv PROVE PlaceInv(p)
<1>2. p \in Proc /\ pc[p] = "none" /\ exec = {} /\ index[p] = 0 /\ panicked = "no"
  BY Zenon DEF Init, Alone
<1>3. /\ \A f \in Frame : main_PG[f].pid = 0 /\ main_PG[f].page_number = 0
      /\ \A s \in Slot : sf_list[s] = FreeSlot /\ sf_list[s].p_pid = 0
      /\ \A i \in Index : TLB.ent[i] = Invalid
      /\ TLB.freeTLBEntries = NUM_TLB
  BY Zenon DEF Init, Free, FreeSlot
<1>4. FrameInv(p)
  BY Zenon, <1>3 DEF FrameInv, Owned
<1>5. SlotInv(p)
  BY Zenon, <1>2, <1>3 DEF SlotInv
<1>6. PhaseInv(p)
  BY Zenon, <1>2 DEF PhaseInv
<1>7. TLBInv(p)
  <2>1. TLBOK(TLB) BY Zenon DEF IInv
  <2>2. OneEntry(TLB) /\ Maps(TLB, main_PG) /\ Counted(TLB) BY Zenon, <1>3, <2>1, EmptyTLB
  <2> QED BY Zenon, <1>2, <1>3, <2>2 DEF TLBInv
<1> QED BY Zenon, <1>2, <1>4, <1>5, <1>6, <1>7 DEF PlaceInv, NoTLBPanic

(* Every step keeps the program's pages in their places.                 *)
LEMMA NextPlace == ASSUME Counting, NEW p, Alone(p), AInv(p), [Next]_vars PROVE PlaceInv(p)'
<1>1. CASE UNCHANGED vars
  BY Zenon, <1>1, StutterAlone
<1>2. CASE kernel_alloc
  BY Zenon, <1>2, KernelAllocAlone
<1>3. CASE \E f \in Frame : kernel_free(f)
  BY Zenon, <1>3, KernelFreeAlone
<1>4. CASE proc_create(p) \/ thread_switch(p)
  BY Zenon, <1>4, CreateAlone, SwitchAlone
<1>5. CASE KernelStep(p)
  BY Zenon, <1>5, RunAlone, ActivateAlone, DefineAlone, LoadAlone, ProtectAlone, SwapOutAlone,
     SwapOutDoneAlone, AllocAgainAlone, SwapInAlone, SwapInReadAlone, DestroyAlone, EndAlone
     DEF KernelStep
<1>6. CASE UserStep(p)
  BY Zenon, <1>6, ExitCallAlone, StoreAlone, ReloadAlone, CodeFaultAlone, NewDataAlone, SwappedDataAlone
     DEF UserStep
<1> QED BY Zenon, <1>1, <1>2, <1>3, <1>4, <1>5, <1>6 DEF Next, Alone, halted, idle

-----------------------------------------------------------------------------
(* The properties *)

(* A set whose elements are all equal has at most one.                     *)
LEMMA AtMostOne == ASSUME Counting, NEW S, \A x, y \in S : x = y PROVE Cardinality(S) <= 1
<1>1. CASE S = {}
  BY <1>1 DEF Counting
<1>2. CASE S # {}
  <2>1. PICK x \in S : TRUE BY Zenon, <1>2
  <2>2. S = {x} BY Zenon, <2>1
  <2>3. Cardinality(S) = 1 BY Zenon, <2>2 DEF Counting
  <2> QED BY <2>3
<1> QED BY Zenon, <1>1, <1>2

(* TLBInv says what TLBSound says, and of TLBs without a program too.      *)
LEMMA TLBIsSound == ASSUME NEW p, Alone(p), AInv(p) PROVE TLBSound
<1>1. /\ p \in Proc /\ IInv /\ Owned(p) /\ TLBInv(p) /\ NoTLBPanic
  BY Zenon, Basics DEF AInv, PlaceInv, FrameInv
<1>2. TLBCounted
  BY Zenon, <1>1 DEF TLBCounted, TLBInv, Counted, Unused, Alone
<1>3. TLBCoherent
  <2> SUFFICES ASSUME NEW i \in Index, TLB.ent[i] # Invalid
               PROVE  /\ tlb_probe(TLB, TLB.ent[i].page) = {i}
                      /\ \E q \in Proc : FramesOf(main_PG, TLB.ent[i].page, p_pid[q]) = {TLB.ent[i].frame}
    BY Zenon DEF TLBCoherent
  <2>1. tlb_probe(TLB, TLB.ent[i].page) = {i}
    BY Zenon, <1>1 DEF tlb_probe, TLBInv, OneEntry
  <2>2. /\ TLB.ent[i].page \in Page /\ TLB.ent[i].frame \in Frame
        /\ main_PG[TLB.ent[i].frame].page_number = TLB.ent[i].page
    BY Zenon, <1>1 DEF TLBInv, Maps
  <2>3. FramesOf(main_PG, TLB.ent[i].page, p_pid[p]) = {TLB.ent[i].frame}
    BY SMTT(30), <1>1, <2>2, WhereIs
  <2> QED BY Zenon, <1>1, <2>1, <2>3
<1> QED BY Zenon, <1>1, <1>2, <1>3 DEF TLBSound

(* SlotInv and FrameInv give each page its one place.                      *)
LEMMA PagesAreKept == ASSUME Counting, NEW p, Alone(p), AInv(p) PROVE PagesKept
<1>1. /\ p \in Proc /\ RestOK /\ Owned(p) /\ FrameInv(p) /\ SlotInv(p) /\ Pid \in SUBSET Nat
      /\ \A f \in Frame : main_PG[f].pid # 0 => main_PG[f].Valid = 1
      /\ (pc[p] # "none" => p_pid[p] # 0)
  BY Zenon, Basics DEF AInv, PlaceInv, FrameInv
<1>2. OnePlace
  <2> SUFFICES ASSUME NEW id \in Pid \ {0}, NEW pg \in Page
               PROVE  LET F == FramesOf(main_PG, pg, id)
                          S == SlotsOf(pg, id)
                      IN /\ Cardinality(F) <= 1 /\ Cardinality(S) <= 1
                         /\ F = {} \/ S = {} \/ \E q \in Proc : /\ pc[q] = "readIn" /\ F = {victim[q]}
                                                             /\ S = {index[q]} /\ p_pid[q] = id
    BY Zenon DEF OnePlace
  <2> DEFINE F == FramesOf(main_PG, pg, id)
             S == SlotsOf(pg, id)
  <2>1. \A f, g \in F : f = g
    BY Zenon, <1>1 DEF FramesOf, Owned
  <2>2. \A s, t \in S : s = t
    BY Zenon, <1>1 DEF SlotsOf, SlotInv
  <2>3. ASSUME F # {}, S # {} 
        PROVE  pc[p] = "readIn" /\ F = {victim[p]} /\ S = {index[p]} /\ p_pid[p] = id
    <3>1. PICK f \in F : TRUE BY Zenon, <2>3
    <3>2. PICK s \in S : TRUE BY Zenon, <2>3
    <3>3. F = {f} /\ S = {s} BY Zenon, <2>1, <2>2
    <3>4. f \in Frame /\ main_PG[f].page_number = pg /\ main_PG[f].pid = id /\ p_pid[p] = id
      BY Zenon, <1>1 DEF FramesOf, Owned
    <3>5. s \in Slot /\ sf_list[s].p_number = pg /\ sf_list[s].p_pid = id
      BY Zenon DEF SlotsOf
    <3>6. pc[p] = "readIn" /\ s = index[p] /\ f = victim[p]
      BY Zenon, <1>1, <3>4, <3>5 DEF SlotInv
    <3> QED BY Zenon, <3>3, <3>4, <3>6
  <2>4. Cardinality(F) <= 1 /\ Cardinality(S) <= 1
    <3> HIDE DEF F, S
    <3> QED BY Zenon, <2>1, <2>2, AtMostOne
  <2> QED BY Zenon, <1>1, <2>3, <2>4
<1>3. FramesReturned
  BY Zenon, <1>1 DEF FramesReturned, FrameInv, Owned, Bare
<1>4. NoOldPages
  BY SMTT(30), <1>1 DEF NoOldPages, SlotsOf, SlotInv, Alone, RestOK
<1> QED BY Zenon, <1>2, <1>3, <1>4 DEF PagesKept

-----------------------------------------------------------------------------
(* A frame for every fault *)

(* The frame that was freed for a fault is still there when it is taken.   *)
RoomInv(p) == FrameForFault /\ (pc[p] \in {"alloc", "swapIn"} => frame_list # <<>>)

(* free_kpages leaves a frame on the list, and no panic of vm_fault.       *)
LEMMA FreeMakesRoom ==
    ASSUME NEW p, Alone(p), AInv(p), NEW f, free_kpages(f) PROVE RoomInv(p)'
<1>1. frame_list' = <<f>> \o frame_list /\ frame_list \in Seq(Frame)
  BY Zenon, Basics DEF free_kpages, AInv, MemOK
<1>2. frame_list' # <<>>
  BY <1>1
<1>3. panicked' \in {"no", "free_kpages"}
  BY Zenon DEF free_kpages
<1> QED BY Zenon, <1>2, <1>3 DEF RoomInv, FrameForFault

LEMMA RoomStep ==
    ASSUME Counting, NEW p, Alone(p), KMax = 0, AInv(p), RoomInv(p), [Next]_vars PROVE RoomInv(p)'
<1>1. /\ p \in Proc /\ RestOK /\ panicked \notin {"wild frame", "swapIn"}
  BY Zenon, Basics DEF AInv, RoomInv, FrameForFault
<1>2. CASE kernel_alloc
  <2>1. IsFiniteSet(kpages)
    <3>1. IsFiniteSet(Frame) BY PagerAssumption DEF Counting, Frame
    <3> QED BY Zenon, <1>1, <3>1 DEF Counting, RestOK
  <2>2. Cardinality(kpages) \in Nat BY Zenon, <2>1 DEF Counting
  <2> QED BY <1>2, <2>2 DEF kernel_alloc
<1>3. CASE \E f \in Frame : kernel_free(f)
  BY Zenon, <1>3, FreeMakesRoom DEF kernel_free
<1>4. CASE UNCHANGED vars \/ thread_switch(p)
  <2>1. UNCHANGED <<frame_list, pc, panicked>>
    BY Zenon, <1>4 DEF vars, memvars, thread_switch
  <2> QED BY Zenon, <2>1 DEF RoomInv, FrameForFault
<1>5. CASE \E pg \in Page, w \in {"read", "write"} : fault_code(p, pg, w)
  <2>1. PICK pg, w : fault_code(p, pg, w) BY Zenon, <1>5
  <2>2. CASE \E f \in victim_pageSearch(p, Code) : free_kpages(f)
    BY Zenon, <2>2, FreeMakesRoom
  <2>3. CASE ~\E f \in victim_pageSearch(p, Code) : free_kpages(f)
    <3>1. /\ pc'[p] \in {"user", "load"}
          /\ panicked' \in {"code write", "no victim", "no", "alloc_kpages"}
      BY Zenon, <1>1, <2>1, <2>3 DEF fault_code, Miss, Running, Goto, panic, alloc_check, RestOK
    <3> QED BY Zenon, <3>1 DEF RoomInv, FrameForFault
  <2> QED BY Zenon, <2>2, <2>3
<1>6. CASE swapOut_done(p)
  BY Zenon, <1>6, FreeMakesRoom DEF swapOut_done
<1>7. CASE alloc_again(p)
  <2>1. pc[p] = "alloc" /\ frame_list # <<>>
    BY Zenon, <1>7 DEF alloc_again, Running, RoomInv
  <2>2. pc'[p] = "load" /\ panicked' \in {"alloc_kpages", "no"}
    BY Zenon, <1>1, <1>7, <2>1 DEF alloc_again, Goto, alloc_check, RestOK
  <2> QED BY Zenon, <2>2 DEF RoomInv, FrameForFault
<1>8. CASE swapIn(p)
  <2>1. pc[p] = "swapIn" /\ frame_list # <<>>
    BY Zenon, <1>8 DEF swapIn, Running, RoomInv
  <2>2. NoTLBPanic'
    BY Zenon, <1>8, SwapInAlone DEF PlaceInv
  <2>3. pc'[p] = "readIn" /\ panicked' \in {"alloc_kpages", "no"}
    BY Zenon, <1>1, <1>8, <2>1, <2>2 DEF swapIn, Goto, alloc_check, panic, NoTLBPanic, RestOK
  <2> QED BY Zenon, <2>3 DEF RoomInv, FrameForFault
<1>9. CASE as_destroy(p)
  <2>1. CASE \E f : free_kpages(f)
    BY Zenon, <2>1, FreeMakesRoom
  <2>2. CASE ~\E f : free_kpages(f)
    <3>1. pc'[p] = "purged" /\ panicked' = panicked
      BY Zenon, <1>1, <1>9, <2>2 DEF as_destroy, Goto, RestOK
    <3> QED BY Zenon, <1>1, <3>1 DEF RoomInv, FrameForFault
  <2> QED BY Zenon, <2>1, <2>2
<1>10. CASE load_elf(p)
  <2>1. pc[p] = "load" /\ panicked' = panicked /\ pc'[p] \in {"user", "exit", "load", "loaded"}
    BY Zenon, <1>10, LoadCases DEF LoadCase, load_elf, Running
  <2> QED BY Zenon, <1>1, <2>1 DEF RoomInv, FrameForFault
<1>11. CASE protect(p)
  <2>1. panicked' = panicked /\ pc'[p] \in {"load", "user"}
    BY Zenon, <1>11, ProtectCases
  <2> QED BY Zenon, <1>1, <2>1 DEF RoomInv, FrameForFault
<1>12. CASE \/ proc_create(p) \/ runprogram(p) \/ as_activate_done(p) \/ as_define_region(p)
            \/ swapOut(p) \/ swapIn_read(p) \/ as_destroy_done(p) \/ sys__exit(p)
  <2>1. /\ pc'[p] \in {"exec", "none", "activate", "define", "load", "swapped", "user", "exit"}
        /\ panicked' \in {panicked, "no", "alloc_pages", "addTLB", "alloc_kpages"}
    BY Zenon, <1>1, <1>12 DEF proc_create, runprogram, thread_exit, as_activate_done, as_define_region,
       swapOut, swapIn_read, as_destroy_done, sys__exit, Running, Goto, Resume, panic, alloc_check,
       Alone, RestOK
  <2> QED BY Zenon, <1>1, <2>1 DEF RoomInv, FrameForFault
<1>13. ASSUME NEW pg \in Page,
              \/ \E v \in Value : store(p, pg, v)
              \/ \E w \in {"read", "write"} : \/ fault_reload(p, pg, w) \/ fault_data_new(p, pg, w)
                                             \/ fault_data_swapped(p, pg, w)
       PROVE  RoomInv(p)'
  <2>1. /\ pc'[p] \in {"user", "exit", "load", "swapOut"}
        /\ panicked' \in {panicked, "no", "addTLB", "alloc_kpages", "no victim", "out of swap"}
    BY Zenon, <1>1, <1>13 DEF store, fault_reload, fault_data_new, fault_data_swapped, swapOut_begin, Miss,
       Running, Goto, panic, alloc_check, RestOK
  <2> QED BY Zenon, <1>1, <2>1 DEF RoomInv, FrameForFault
<1> QED BY Zenon, <1>2, <1>3, <1>4, <1>5, <1>6, <1>7, <1>8, <1>9, <1>10, <1>11, <1>12, <1>13
        DEF Next, KernelStep, UserStep, Alone, halted, idle

=============================================================================
