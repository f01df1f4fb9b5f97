---------------------------- MODULE PagerProofs -----------------------------
(***************************************************************************)
(* What the operators of Pager do to frames, TLB and the program's pages,  *)
(* and the accounting of frames, for any number of frames, swap slots, TLB *)
(* entries, pages and processes, with disk errors, as long as fewer        *)
(* programs have been started than there are pids: one lemma per action    *)
(* shows that it keeps IInv.                                               *)
(***************************************************************************)
EXTENDS PagerInv, TLAPS

-----------------------------------------------------------------------------
(* The TLB *)

(* What the proofs use of numbers and finite sets.  It is a theorem:       *)
(* PagerTheorems proves it, and the lemmas in between assume it, so that   *)
(* they need not see the library's theorems.                               *)
Counting ==
    /\ \A S \in SUBSET Nat : S # {} => \E n \in S : \A m \in S : n <= m
    /\ \A a, b \in Nat : IsFiniteSet(a..b) /\ Cardinality(a..b) = IF a > b THEN 0 ELSE b - a + 1
    /\ \A S : IsFiniteSet(S) => Cardinality(S) \in Nat /\ (Cardinality(S) = 0 <=> S = {})
    /\ \A S : IsFiniteSet(S) => \A T \in SUBSET S : IsFiniteSet(T) /\ Cardinality(T) <= Cardinality(S)
    /\ \A S, x : IsFiniteSet(S) /\ x \notin S => Cardinality(S \cup {x}) = Cardinality(S) + 1
    /\ \A S, x : IsFiniteSet(S) /\ x \in S => Cardinality(S \ {x}) = Cardinality(S) - 1
    /\ Cardinality({}) = 0 /\ \A x : Cardinality({x}) = 1

(* A nonempty set of numbers has a least one: the loops of pageSearch,     *)
(* addTLB, tlb_probe and as_destroy stop at the first hit.                 *)
LEMMA LeastIn ==
    ASSUME Counting, NEW S \in SUBSET Nat, S # {}
    PROVE  Least(S) \in S /\ \A m \in S : Least(S) <= m
<1>1. \E n \in S : \A m \in S : n <= m
  BY Zenon DEF Counting
<1> QED BY Zenon, <1>1 DEF Least

(* Least of a set of one.                                                  *)
LEMMA LeastOne == \A n \in Nat : Least({n}) = n
BY DEF Least

(* The contents that frames and slots are given.                           *)
LEMMA Contents ==
    /\ Zero \in Content
    /\ \A pg \in Page : Elf(pg) \in Content
    /\ \A id \in Pid, pg \in Page, v \in Value : Stored(id, pg, v) \in Content
BY DEF Content

(* What addTLB writes is a TLB entry, and not an invalid one.              *)
LEMMA Entries ==
    /\ Invalid \in Entry
    /\ \A pg \in Page \cup {0}, f \in Frame, d \in {0, 1} :
          /\ [page |-> pg, frame |-> f, dirty |-> d] \in Entry
          /\ [page |-> pg, frame |-> f, dirty |-> d] # Invalid
BY PagerAssumption DEF Entry, Invalid, Frame

(* next_victim and freeTLBEntries stay in their ranges.                    *)
LEMMA IndexFacts ==
    /\ Index \in SUBSET Nat /\ 0 \in Index
    /\ \A i \in Index : (i + 1) % NUM_TLB \in Index
    /\ NUM_TLB \in 0..(CountSpace - 1)
    /\ \A n \in 0..(CountSpace - 1) : /\ (n + 1) % CountSpace \in 0..(CountSpace - 1)
                                     /\ (n + CountSpace - 1) % CountSpace \in 0..(CountSpace - 1)
<1>1. Index \in SUBSET Nat /\ 0 \in Index
  BY PagerAssumption DEF Index
<1>2. \A i \in Index : (i + 1) % NUM_TLB \in Index
  BY PagerAssumption DEF Index
<1>3. NUM_TLB \in 0..(CountSpace - 1)
  BY PagerAssumption
<1>4. \A n \in 0..(CountSpace - 1) : /\ (n + 1) % CountSpace \in 0..(CountSpace - 1)
                                    /\ (n + CountSpace - 1) % CountSpace \in 0..(CountSpace - 1)
  BY PagerAssumption
<1> QED BY Zenon, <1>1, <1>2, <1>3, <1>4

(* Both halves of invalidate_TLB, alone and together, leave a TLB.         *)
LEMMA InvalidateOK ==
    ASSUME NEW T, TLBOK(T)
    PROVE  TLBOK(purge_TLB(T)) /\ TLBOK(set_freeTLBEntries(T)) /\ TLBOK(invalidate_TLB(T))
<1>1. ASSUME NEW U, TLBOK(U) PROVE TLBOK(purge_TLB(U))
  <2> DEFINE E == [i \in Index |-> Invalid]
  <2>1. E \in [Index -> Entry] BY Zenon, Entries
  <2>2. purge_TLB(U) = [U EXCEPT !.ent = E] BY Zenon DEF purge_TLB
  <2> HIDE DEF E
  <2> QED BY Zenon, <1>1, <2>1, <2>2 DEF TLBOK
<1>2. ASSUME NEW U, TLBOK(U) PROVE TLBOK(set_freeTLBEntries(U))
  BY Zenon, <1>2, IndexFacts DEF TLBOK, set_freeTLBEntries
<1> QED BY Zenon, <1>1, <1>2 DEF invalidate_TLB

(* removeTLBv1 leaves a TLB.                                               *)
LEMMA RemoveOK ==
    ASSUME NEW T, TLBOK(T), NEW pg
    PROVE  TLBOK(removeTLBv1(T, pg))
<1> DEFINE i == Least(tlb_probe(T, pg))
<1>1. CASE tlb_probe(T, pg) = {}
  BY Zenon, <1>1 DEF removeTLBv1
<1>2. CASE tlb_probe(T, pg) # {}
  <2>1. removeTLBv1(T, pg) =
           [T EXCEPT !.ent[i] = Invalid, !.freeTLBEntries = (@ + 1) % CountSpace]
    BY Zenon, <1>2 DEF removeTLBv1
  <2> HIDE DEF i
  <2> QED BY Zenon, <2>1, IndexFacts, Entries DEF TLBOK
<1> QED BY Zenon, <1>1, <1>2

(* addTLB leaves a TLB, whether it finds an unused entry or replaces one.  *)
LEMMA AddOK ==
    ASSUME Counting, NEW T, TLBOK(T), NEW PT \in [Frame -> PTE], NEW pg \in Page \cup {0}, NEW id,
           FramesOf(PT, pg, id) # {}
    PROVE  TLBOK(addTLB(T, PT, pg, id))
<1> DEFINE F == FramesOf(PT, pg, id)
           f == Least(F)
           U == {i \in Index : T.ent[i] = Invalid}
           i == Least(U)
           e(d) == [page |-> pg, frame |-> f, dirty |-> d]
<1>1. f \in Frame /\ PT[f].Dirty \in {0, 1}
  <2>1. F \in SUBSET Nat BY PagerAssumption DEF FramesOf, Frame
  <2>2. f \in F BY Zenon, <2>1, LeastIn
  <2> QED BY Zenon, <2>2 DEF FramesOf, PTE
<1>2. \A d \in {0, 1} : e(d) \in Entry
  BY Zenon, <1>1, Entries
<1>3. \/ addTLB(T, PT, pg, id) = [T EXCEPT !.ent[i] = e(PT[f].Dirty),
                                          !.freeTLBEntries = (@ + CountSpace - 1) % CountSpace]
      \/ addTLB(T, PT, pg, id) = [T EXCEPT !.ent[T.next_victim] = e(1),
                                          !.next_victim = (@ + 1) % NUM_TLB]
  BY Zenon DEF addTLB
<1>4. e(PT[f].Dirty) \in Entry /\ e(1) \in Entry
  BY Zenon, <1>1, <1>2
<1> HIDE DEF e, f, i
<1> QED BY ZenonT(30), <1>3, <1>4, IndexFacts DEF TLBOK

(* The unused entries can be counted, and there are at most NUM_TLB.       *)
LEMMA UnusedCount ==
    ASSUME Counting, NEW T
    PROVE  /\ IsFiniteSet(Unused(T)) /\ Cardinality(Unused(T)) \in 0..NUM_TLB
           /\ Unused(T) \in SUBSET Nat
<1>1. IsFiniteSet(Index) /\ Cardinality(Index) = NUM_TLB
  <2>1. NUM_TLB - 1 \in Nat BY PagerAssumption
  <2>2. IsFiniteSet(Index) /\ Cardinality(Index) = IF 0 > NUM_TLB - 1 THEN 0 ELSE NUM_TLB - 1 - 0 + 1
    BY Zenon, <2>1 DEF Counting, Index
  <2> QED BY <2>2, PagerAssumption
<1>2. Unused(T) \in SUBSET Index
  BY Zenon DEF Unused
<1>3. IsFiniteSet(Unused(T)) /\ Cardinality(Unused(T)) <= Cardinality(Index)
  BY Zenon, <1>1, <1>2 DEF Counting
<1>4. Cardinality(Unused(T)) \in Nat
  BY Zenon, <1>3 DEF Counting
<1>5. Cardinality(Unused(T)) <= NUM_TLB /\ NUM_TLB \in Nat
  BY Zenon, <1>1, <1>3, PagerAssumption
<1>6. Unused(T) \in SUBSET Nat
  BY Zenon, <1>2, IndexFacts
<1> QED BY <1>3, <1>4, <1>5, <1>6

(* A is T with the page in frame f at entry i, writable if the page is.    *)
Entered(A, T, PT, pg, i, f, d) ==
    /\ A.ent = [T.ent EXCEPT ![i] = [page |-> pg, frame |-> f, dirty |-> d]]
    /\ PT[f].Dirty = 1 => d = 1

(* addTLB changes one entry, to one for the page, and keeps the count.     *)
LEMMA AddEntry ==
    ASSUME Counting, NEW T, TLBOK(T), Counted(T), NEW PT \in [Frame -> PTE], NEW pg \in Page, NEW id,
           FramesOf(PT, pg, id) # {}
    PROVE  /\ Counted(addTLB(T, PT, pg, id))
           /\ \E i \in Index, f \in FramesOf(PT, pg, id), d \in {0, 1} :
                 Entered(addTLB(T, PT, pg, id), T, PT, pg, i, f, d)
<1> DEFINE F == FramesOf(PT, pg, id)
           f == Least(F)
           U == Unused(T)
           i == Least(U)
           A == addTLB(T, PT, pg, id)
           e(d) == [page |-> pg, frame |-> f, dirty |-> d]
           n == T.freeTLBEntries
<1>1. f \in F /\ f \in Frame /\ PT[f].Dirty \in {0, 1}
  <2>1. F \in SUBSET Nat BY PagerAssumption DEF FramesOf, Frame
  <2>2. f \in F BY Zenon, <2>1, LeastIn
  <2> QED BY Zenon, <2>2 DEF FramesOf, PTE
<1>2. e(PT[f].Dirty) # Invalid /\ e(1) # Invalid
  BY Zenon, <1>1, Entries
<1>3. n = Cardinality(U) /\ n \in 0..NUM_TLB /\ IsFiniteSet(U)
  BY Zenon, UnusedCount DEF Counted
<1>4. CASE U # {}
  <2>1. i \in U /\ i \in Index
    BY Zenon, <1>4, UnusedCount, LeastIn DEF Unused
  <2>2. A = [T EXCEPT !.ent[i] = e(PT[f].Dirty),
                      !.freeTLBEntries = (@ + CountSpace - 1) % CountSpace]
    BY Zenon, <1>4 DEF addTLB, Unused
  <2> HIDE DEF i, f, e, A, U
  <2>3. A.ent = [T.ent EXCEPT ![i] = e(PT[f].Dirty)] /\ A.freeTLBEntries = (n + CountSpace - 1) % CountSpace
    BY Zenon, <2>2 DEF TLBOK
  <2>4. Unused(A) = U \ {i}
    BY Zenon, <1>2, <2>1, <2>3 DEF Unused, TLBOK, U
  <2>5. Cardinality(U \ {i}) = n - 1 /\ n # 0
    BY Zenon, <1>3, <2>1 DEF Counting
  <2>6. (n + CountSpace - 1) % CountSpace = n - 1
    BY <1>3, <2>5, PagerAssumption
  <2>7. Counted(A)
    BY Zenon, <2>3, <2>4, <2>5, <2>6 DEF Counted
  <2> QED BY Zenon, <1>1, <2>1, <2>3, <2>7 DEF A, e, Entered
<1>5. CASE U = {}
  <2>1. A = [T EXCEPT !.ent[T.next_victim] = e(1), !.next_victim = (@ + 1) % NUM_TLB]
    BY Zenon, <1>5 DEF addTLB, Unused
  <2>2. T.next_victim \in Index
    BY Zenon DEF TLBOK
  <2> HIDE DEF i, f, e, A, U
  <2>3. A.ent = [T.ent EXCEPT ![T.next_victim] = e(1)] /\ A.freeTLBEntries = n
    BY Zenon, <2>1 DEF TLBOK
  <2>4. Unused(A) = U
    BY Zenon, <1>2, <1>5, <2>2, <2>3 DEF Unused, TLBOK, U
  <2>5. Counted(A)
    BY Zenon, <1>3, <2>3, <2>4 DEF Counted
  <2> QED BY Zenon, <1>1, <2>2, <2>3, <2>5 DEF A, e, Entered
<1> QED BY Zenon, <1>4, <1>5

(* addTLB of a page that was not in the TLB.                               *)
LEMMA AddMaps ==
    ASSUME NEW T, TLBOK(T), NEW PT \in [Frame -> PTE], NEW pg \in Page, NEW A,
           Maps(T, PT), OneEntry(T), tlb_probe(T, pg) = {},
           NEW i \in Index, NEW f \in Frame, PT[f].page_number = pg, NEW d \in {0, 1},
           Entered(A, T, PT, pg, i, f, d)
    PROVE  Maps(A, PT) /\ OneEntry(A) /\ tlb_probe(A, pg) = {i}
<1> DEFINE e == [page |-> pg, frame |-> f, dirty |-> d]
<1>1. e # Invalid /\ e.page = pg /\ e.frame = f
  BY Zenon, Entries
<1>2. A.ent[i] = e /\ \A j \in Index \ {i} : A.ent[j] = T.ent[j]
  BY Zenon DEF TLBOK, Entered
<1>3. \A j \in Index : T.ent[j] # Invalid => T.ent[j].page # pg
  BY Zenon DEF tlb_probe
<1> HIDE DEF e
<1>4. Maps(A, PT)
  BY Zenon, <1>1, <1>2 DEF Maps
<1>5. OneEntry(A)
  BY Zenon, <1>1, <1>2, <1>3 DEF OneEntry
<1>6. tlb_probe(A, pg) = {i}
  BY Zenon, <1>1, <1>2, <1>3 DEF tlb_probe
<1> QED BY Zenon, <1>4, <1>5, <1>6

(* removeTLBv1 invalidates the entry of the page, if there is one.         *)
LEMMA RemoveEntry ==
    ASSUME Counting, NEW T, TLBOK(T), Counted(T), OneEntry(T), NEW pg
    PROVE  /\ Counted(removeTLBv1(T, pg)) /\ OneEntry(removeTLBv1(T, pg))
           /\ tlb_probe(removeTLBv1(T, pg), pg) = {}
           /\ \A i \in Index : removeTLBv1(T, pg).ent[i] # Invalid =>
                 removeTLBv1(T, pg).ent[i] = T.ent[i] /\ T.ent[i].page # pg
<1> DEFINE A == removeTLBv1(T, pg)
           P == tlb_probe(T, pg)
           i == Least(P)
           n == T.freeTLBEntries
<1>1. CASE P = {}
  BY Zenon, <1>1 DEF removeTLBv1, tlb_probe
<1>2. CASE P # {}
  <2>1. i \in P /\ i \in Index /\ T.ent[i] # Invalid /\ T.ent[i].page = pg
    <3>1. P \in SUBSET Nat BY Zenon, IndexFacts DEF tlb_probe
    <3>2. i \in P BY Zenon, <1>2, <3>1, LeastIn
    <3> QED BY Zenon, <3>2 DEF tlb_probe
  <2>2. A = [T EXCEPT !.ent[i] = Invalid, !.freeTLBEntries = (@ + 1) % CountSpace]
    BY Zenon, <1>2 DEF removeTLBv1
  <2> HIDE DEF A, i, P
  <2>3. A.ent = [T.ent EXCEPT ![i] = Invalid] /\ A.freeTLBEntries = (n + 1) % CountSpace
    BY Zenon, <2>2 DEF TLBOK
  <2>4. A.ent[i] = Invalid /\ \A j \in Index \ {i} : A.ent[j] = T.ent[j]
    BY Zenon, <2>1, <2>3 DEF TLBOK
  <2>5. \A j \in Index : A.ent[j] # Invalid => A.ent[j] = T.ent[j] /\ T.ent[j].page # pg
    BY Zenon, <2>1, <2>4 DEF OneEntry
  <2>6. OneEntry(A) /\ tlb_probe(A, pg) = {}
    BY Zenon, <2>5 DEF OneEntry, tlb_probe
  <2>7. Unused(A) = Unused(T) \cup {i} /\ i \notin Unused(T)
    BY Zenon, <2>1, <2>4 DEF Unused
  <2>8. Cardinality(Unused(A)) = n + 1 /\ n + 1 \in 0..NUM_TLB
    <3>1. n = Cardinality(Unused(T)) /\ IsFiniteSet(Unused(T)) /\ n \in Nat
      BY UnusedCount DEF Counted
    <3>2. Cardinality(Unused(A)) = n + 1
      BY <2>7, <3>1 DEF Counting
    <3> QED BY Zenon, <3>1, <3>2, UnusedCount
  <2>9. (n + 1) % CountSpace = n + 1
    BY <2>8, PagerAssumption
  <2>10. Counted(A)
    BY Zenon, <2>3, <2>8, <2>9 DEF Counted
  <2> QED BY Zenon, <2>5, <2>6, <2>10 DEF A
<1> QED BY Zenon, <1>1, <1>2

-----------------------------------------------------------------------------
(* Frames *)

(* Taking the head of the list for any entry that is valid.                *)
LEMMA TakeHead ==
    ASSUME MemOK, FreeInv, frame_list # <<>>, frame_list' = Tail(frame_list),
           NEW e \in PTE, e.Valid = 1,
           main_PG' = [main_PG EXCEPT ![Head(frame_list)] = e],
           ram' = [ram EXCEPT ![Head(frame_list)] = Zero]
    PROVE  /\ MemOK' /\ FreeInv'
           /\ Head(frame_list) \in Frame /\ main_PG[Head(frame_list)].Valid = 0
           /\ main_PG'[Head(frame_list)] = e
           /\ \A f \in Frame \ {Head(frame_list)} : main_PG'[f] = main_PG[f]
<1> DEFINE h == Head(frame_list)
           n == Len(frame_list)
<1>1. /\ n \in Nat \ {0} /\ h = frame_list[1] /\ h \in Frame
      /\ Len(frame_list') = n - 1 /\ frame_list' \in Seq(Frame)
      /\ \A i \in 1..(n - 1) : frame_list'[i] = frame_list[i + 1]
      /\ \A i \in 1..n : frame_list[i] \in Frame
  BY DEF MemOK
<1>2. main_PG[h].Valid = 0
  <2>1. h \in Listed BY <1>1 DEF Listed
  <2> QED BY Zenon, <1>1, <2>1 DEF FreeInv
<1>3. main_PG' \in [Frame -> PTE] /\ main_PG'[h] = e
  BY Zenon, <1>1 DEF MemOK
<1>4. \A f \in Frame \ {h} : main_PG'[f] = main_PG[f]
  BY Zenon, <1>1 DEF MemOK
<1>5. ram' \in [Frame -> Content]
  BY Zenon, <1>1, Contents DEF MemOK
<1>6. \A i, j \in 1..(n - 1) : frame_list'[i] = frame_list'[j] => i = j
  <2> SUFFICES ASSUME NEW i \in 1..(n - 1), NEW j \in 1..(n - 1),
                      frame_list'[i] = frame_list'[j]
               PROVE  i = j
    BY Zenon
  <2>1. i + 1 \in 1..n /\ j + 1 \in 1..n BY <1>1
  <2>2. frame_list[i + 1] = frame_list[j + 1] BY Zenon, <1>1
  <2>3. i + 1 = j + 1 BY Zenon, <2>1, <2>2 DEF FreeInv
  <2> QED BY <2>3
<1>7. \A f \in Frame : main_PG'[f].Valid = 0 <=> f \in Listed'
  <2> SUFFICES ASSUME NEW f \in Frame PROVE main_PG'[f].Valid = 0 <=> f \in Listed'
    BY Zenon
  <2>1. f \in Listed' <=> \E i \in 1..(n - 1) : frame_list'[i] = f
    BY Zenon, <1>1 DEF Listed
  <2>2. f \in Listed <=> \E i \in 1..n : frame_list[i] = f
    BY Zenon DEF Listed
  <2>3. CASE f = h
    <3>1. main_PG'[f].Valid = 1 BY Zenon, <1>3, <2>3
    <3>2. \A i \in 1..(n - 1) : frame_list'[i] # h
      <4> SUFFICES ASSUME NEW i \in 1..(n - 1), frame_list'[i] = h PROVE FALSE BY Zenon
      <4>1. i + 1 \in 1..n /\ 1 \in 1..n /\ frame_list[i + 1] = frame_list[1] BY <1>1
      <4>2. i + 1 = 1 BY Zenon, <4>1 DEF FreeInv
      <4> QED BY <4>2
    <3> QED BY <2>1, <2>3, <3>1, <3>2
  <2>4. CASE f # h
    <3>1. main_PG'[f].Valid = 0 <=> f \in Listed
      BY Zenon, <1>4, <2>4 DEF FreeInv
    <3>2. ASSUME NEW i \in 1..n, frame_list[i] = f
          PROVE  i - 1 \in 1..(n - 1) /\ frame_list'[i - 1] = f
      <4>1. i # 1 BY Zenon, <1>1, <2>4, <3>2
      <4>2. i - 1 \in 1..(n - 1) BY <1>1, <4>1
      <4>3. frame_list'[i - 1] = frame_list[(i - 1) + 1] BY Zenon, <1>1, <4>2
      <4> QED BY <3>2, <4>2, <4>3
    <3>3. ASSUME NEW i \in 1..(n - 1), frame_list'[i] = f
          PROVE  i + 1 \in 1..n /\ frame_list[i + 1] = f
      BY <1>1, <3>3
    <3> QED BY Zenon, <2>1, <2>2, <3>1, <3>2, <3>3
  <2> QED BY Zenon, <2>3, <2>4
<1> QED BY <1>1, <1>2, <1>3, <1>4, <1>5, <1>6, <1>7 DEF MemOK, FreeInv

(* alloc_kpages with addPT.                                                *)
LEMMA AllocOK ==
    ASSUME MemOK, FreeInv, NEW pg \in Page \cup {0}, NEW id \in Pid, NEW d \in {0, 1},
           alloc_page(pg, id, d)
    PROVE  /\ MemOK' /\ FreeInv'
           /\ Head(frame_list) \in Frame /\ main_PG[Head(frame_list)].Valid = 0
           /\ main_PG'[Head(frame_list)] =
                 [Valid |-> 1, pid |-> id, page_number |-> pg, Dirty |-> d]
           /\ \A f \in Frame \ {Head(frame_list)} : main_PG'[f] = main_PG[f]
<1> DEFINE e == [Valid |-> 1, pid |-> id, page_number |-> pg, Dirty |-> d]
<1>1. e \in PTE /\ e.Valid = 1
  BY Zenon DEF PTE
<1>2. /\ frame_list # <<>> /\ frame_list' = Tail(frame_list)
      /\ main_PG' = [main_PG EXCEPT ![Head(frame_list)] = e]
      /\ ram' = [ram EXCEPT ![Head(frame_list)] = Zero]
  BY Zenon DEF alloc_page, addPT
<1> HIDE DEF e
<1>3. /\ MemOK' /\ FreeInv'
      /\ Head(frame_list) \in Frame /\ main_PG[Head(frame_list)].Valid = 0
      /\ main_PG'[Head(frame_list)] = e
      /\ \A f \in Frame \ {Head(frame_list)} : main_PG'[f] = main_PG[f]
  BY Zenon, <1>1, <1>2, TakeHead
<1> QED BY Zenon, <1>3 DEF e

(* The invariant, regrouped by what actions change.                        *)
LEMMA Parts == IInv <=> MemInv /\ TLBOK(TLB) /\ RestOK /\ PidInv /\ WorkInv /\ NoFramePanic
BY Zenon DEF IInv, TypeOK, MemInv, MemOK, RestOK, TLBOK

(* What the invariant of PagerProofs says of the one program.              *)
LEMMA Basics ==
    ASSUME NEW p, Alone(p), IInv
    PROVE  /\ p \in Proc /\ MemOK /\ FreeInv /\ CleanInv /\ TLBOK(TLB) /\ RestOK
           /\ \A f \in Frame : /\ main_PG[f].pid # 0 => main_PG[f].Valid = 1
                               /\ main_PG[f].pid \in Pid /\ main_PG[f].page_number \in Page \cup {0}
           /\ pc[p] # "none" => p_pid[p] \in 1..progs /\ p_pid[p] # 0
           /\ 0 \notin Page /\ 0 \notin Slot /\ Pid \in SUBSET Nat
<1>1. p \in Proc
  BY Zenon DEF Alone
<1>2. MemOK /\ FreeInv /\ CleanInv /\ TLBOK(TLB) /\ RestOK /\ PidInv
  BY Zenon, Parts DEF MemInv
<1>3. \A f \in Frame : main_PG[f] \in PTE
  BY Zenon, <1>2 DEF MemOK
<1>4. \A f \in Frame : main_PG[f].Valid \in {0, 1} /\ main_PG[f].pid \in Pid
                       /\ main_PG[f].page_number \in Page \cup {0}
  BY Zenon, <1>3 DEF PTE
<1>5. \A f \in Frame : main_PG[f].pid # 0 => main_PG[f].Valid = 1
  BY Zenon, <1>2, <1>4 DEF CleanInv
<1>6. pc[p] # "none" => p_pid[p] \in 1..progs /\ p_pid[p] # 0
  BY <1>1, <1>2 DEF PidInv, RestOK
<1>7. 0 \notin Page /\ 0 \notin Slot /\ Pid \in SUBSET Nat
  BY PagerAssumption DEF Page, Slot, Pid
<1> QED BY Zenon, <1>1, <1>2, <1>4, <1>5, <1>6, <1>7

(* A page of the program that runs is in a frame exactly if some entry of  *)
(* the page table has its number, and then in that frame only.             *)
LEMMA WhereIs ==
    ASSUME NEW p, Alone(p), IInv, Owned(p), NEW pg \in Page
    PROVE  /\ \A f \in Frame : main_PG[f].page_number = pg =>
                 /\ main_PG[f].pid # 0 /\ main_PG[f].pid = p_pid[p] /\ main_PG[f].Valid = 1
                 /\ FramesOf(main_PG, pg, p_pid[p]) = {f} /\ pageSearch(pg) = {f}
           /\ pageSearch(pg) = {} <=> \A f \in Frame : main_PG[f].page_number # pg
           /\ FramesOf(main_PG, pg, p_pid[p]) = {} <=> \A f \in Frame : main_PG[f].page_number # pg
           /\ tlb_probe(TLB, pg) # {} /\ Maps(TLB, main_PG) =>
                 \E f \in Frame : main_PG[f].page_number = pg
<1>1. \A f \in Frame : main_PG[f].page_number = pg =>
         /\ main_PG[f].pid # 0 /\ main_PG[f].pid = p_pid[p] /\ main_PG[f].Valid = 1
         /\ \A g \in Frame : main_PG[g].page_number = pg => g = f
  BY Zenon, Basics DEF Owned
<1>2. ASSUME NEW f \in Frame, main_PG[f].page_number = pg
      PROVE  FramesOf(main_PG, pg, p_pid[p]) = {f} /\ pageSearch(pg) = {f}
  BY Zenon, <1>1, <1>2 DEF FramesOf, pageSearch
<1>3. /\ pageSearch(pg) = {} <=> \A f \in Frame : main_PG[f].page_number # pg
      /\ FramesOf(main_PG, pg, p_pid[p]) = {} <=> \A f \in Frame : main_PG[f].page_number # pg
  BY Zenon, <1>1 DEF FramesOf, pageSearch
<1>4. tlb_probe(TLB, pg) # {} /\ Maps(TLB, main_PG) => \E f \in Frame : main_PG[f].page_number = pg
  BY Zenon DEF tlb_probe, Maps
<1> QED BY Zenon, <1>1, <1>2, <1>3, <1>4

(* free_kpages of a page of the program takes it from frame and TLB.       *)
LEMMA Freed ==
    ASSUME Counting, NEW p, Alone(p), AInv(p), NEW f \in Frame, main_PG[f].pid # 0, free_kpages(f),
           pc[p] \notin {"activate", "purged"}, p_pid' = p_pid
    PROVE  /\ main_PG'[f].pid = 0 /\ main_PG'[f].page_number = 0
           /\ \A g \in Frame \ {f} : main_PG'[g] = main_PG[g]
           /\ Owned(p)' /\ Maps(TLB', main_PG') /\ OneEntry(TLB') /\ Counted(TLB')
           /\ panicked' = "no" /\ frame_list' # <<>>
<1>1. /\ MemOK /\ FreeInv /\ TLBOK(TLB) /\ main_PG[f].Valid = 1 /\ 0 \notin Page
      /\ main_PG \in [Frame -> PTE]
  BY Zenon, Basics DEF AInv, MemOK
<1>2. Owned(p) /\ Maps(TLB, main_PG) /\ OneEntry(TLB) /\ Counted(TLB)
  BY Zenon DEF AInv, PlaceInv, FrameInv, TLBInv
<1>3. /\ main_PG' = [main_PG EXCEPT ![f].Valid = 0, ![f].pid = 0, ![f].page_number = 0]
      /\ TLB' = removeTLBv1(TLB, main_PG[f].page_number)
      /\ panicked' = "no" /\ frame_list' = <<f>> \o frame_list
  BY <1>1 DEF free_kpages
<1>4. /\ main_PG'[f].pid = 0 /\ main_PG'[f].page_number = 0
      /\ \A g \in Frame \ {f} : main_PG'[g] = main_PG[g]
  BY Zenon, <1>1, <1>3 DEF PTE
<1>5. frame_list' # <<>>
  BY <1>1, <1>3 DEF MemOK
<1>6. Owned(p)'
  BY <1>2, <1>4, <1>1 DEF Owned
<1>7. /\ Counted(TLB') /\ OneEntry(TLB')
      /\ \A i \in Index : TLB'.ent[i] # Invalid =>
            TLB'.ent[i] = TLB.ent[i] /\ TLB.ent[i].page # main_PG[f].page_number
  BY <1>1, <1>2, <1>3, RemoveEntry
<1>8. Maps(TLB', main_PG')
  BY <1>2, <1>4, <1>7 DEF Maps
<1> QED BY Zenon, <1>3, <1>4, <1>5, <1>6, <1>7, <1>8

(* alloc_page of a page that is in no frame.                               *)
LEMMA Taken ==
    ASSUME NEW p, Alone(p), AInv(p), pc[p] # "none", NEW pg \in Page, NEW d \in {0, 1},
           alloc_page(pg, p_pid[p], d), p_pid' = p_pid,
           \A f \in Frame : main_PG[f].page_number # pg
    PROVE  /\ Head(frame_list) \in Frame /\ main_PG[Head(frame_list)].pid = 0
           /\ main_PG[Head(frame_list)].page_number = 0
           /\ main_PG'[Head(frame_list)] =
                 [Valid |-> 1, pid |-> p_pid[p], page_number |-> pg, Dirty |-> d]
           /\ \A f \in Frame \ {Head(frame_list)} : main_PG'[f] = main_PG[f]
           /\ Owned(p)' /\ Maps(TLB, main_PG') /\ tlb_probe(TLB, pg) = {}
           /\ FramesOf(main_PG', pg, p_pid[p]) = {Head(frame_list)}
           /\ main_PG' \in [Frame -> PTE] /\ ~alloc_panics
<1> DEFINE h == Head(frame_list)
<1>1. /\ MemOK /\ FreeInv /\ CleanInv /\ 0 \notin Page /\ p_pid[p] # 0 /\ p_pid[p] \in Pid
      /\ p \in Proc
  BY Zenon, Basics DEF AInv, RestOK
<1>2. Owned(p) /\ Maps(TLB, main_PG)
  BY Zenon DEF AInv, PlaceInv, FrameInv, TLBInv
<1>3. /\ MemOK' /\ h \in Frame /\ main_PG[h].Valid = 0
      /\ main_PG'[h] = [Valid |-> 1, pid |-> p_pid[p], page_number |-> pg, Dirty |-> d]
      /\ \A f \in Frame \ {h} : main_PG'[f] = main_PG[f]
  BY Zenon, <1>1, AllocOK
<1>4. main_PG[h].pid = 0 /\ main_PG[h].page_number = 0
  BY Zenon, <1>1, <1>2, <1>3 DEF CleanInv, Owned
<1>5. Owned(p)'
  BY <1>1, <1>2, <1>3 DEF Owned
<1>6. Maps(TLB, main_PG')
  BY Zenon, <1>1, <1>2, <1>3, <1>4 DEF Maps
<1>7. tlb_probe(TLB, pg) = {}
  BY Zenon, <1>2 DEF tlb_probe, Maps
<1>8. FramesOf(main_PG', pg, p_pid[p]) = {h}
  BY <1>3 DEF FramesOf
<1>9. ~alloc_panics
  BY <1>3 DEF alloc_panics
<1> QED BY Zenon, <1>3, <1>4, <1>5, <1>6, <1>7, <1>8, <1>9 DEF MemOK

-----------------------------------------------------------------------------
(* Loading and swapping *)

LEMMA EagerPages ==
    /\ Eager \in SUBSET Page /\ Eager \in SUBSET Nat /\ 1 \in Eager
    /\ \A pg \in Page : pg <= LastLoaded(pg) => pg \in Eager
    /\ LastLoaded(1) >= 1 /\ LastLoaded(NCode + 1) >= NCode + 1
    /\ \A pg \in Page : pg < LastLoaded(pg) => pg + 1 \in Page /\ pg + 1 <= LastLoaded(pg + 1)
    /\ \A m \in Eager : m >= 1 /\ m \in Nat /\ m \in Page
    /\ \A m \in Page \cup {0} : m \in Nat
<1>1. /\ Eager \in SUBSET Page /\ Eager \in SUBSET Nat /\ 1 \in Eager
      /\ \A m \in Eager : m >= 1 /\ m \in Nat /\ m \in Page
      /\ \A m \in Page \cup {0} : m \in Nat
  BY PagerAssumption DEF Eager, Page
<1>2. \A pg \in Page : pg <= LastLoaded(pg) => pg \in Eager
  BY PagerAssumption DEF Eager, Page, LastLoaded, Code
<1>3. LastLoaded(1) >= 1 /\ LastLoaded(NCode + 1) >= NCode + 1
  BY PagerAssumption DEF LastLoaded, Code
<1>4. \A pg \in Page : pg < LastLoaded(pg) => pg + 1 \in Page /\ pg + 1 <= LastLoaded(pg + 1)
  BY PagerAssumption DEF Page, LastLoaded, Code
<1> QED BY Zenon, <1>1, <1>2, <1>3, <1>4

SoundTLB(T, PT) == TLBOK(T) /\ Counted(T) /\ OneEntry(T) /\ Maps(T, PT)

(* Neither panic of addTLB fires for a page in memory and not in the TLB,  *)
(* and afterwards the page has one entry, which leads to a frame of it.    *)
LEMMA Added ==
    ASSUME Counting, NEW T, NEW PT \in [Frame -> PTE], SoundTLB(T, PT), NEW pg \in Page, NEW id,
           tlb_probe(T, pg) = {}, FramesOf(PT, pg, id) # {}
    PROVE  /\ ~addTLB_panics(T, PT, pg, id)
           /\ SoundTLB(addTLB(T, PT, pg, id), PT)
           /\ \E i \in Index, f \in FramesOf(PT, pg, id) :
                 /\ tlb_probe(addTLB(T, PT, pg, id), pg) = {i}
                 /\ addTLB(T, PT, pg, id).ent[i].frame = f
                 /\ PT[f].Dirty = 1 => addTLB(T, PT, pg, id).ent[i].dirty = 1
<1> DEFINE A == addTLB(T, PT, pg, id)
<1>1. ~addTLB_panics(T, PT, pg, id)
  BY Zenon DEF addTLB_panics
<1>0. TLBOK(T) /\ Counted(T) /\ OneEntry(T) /\ Maps(T, PT)
  BY Zenon DEF SoundTLB
<1>2. TLBOK(A)
  BY Zenon, <1>0, AddOK
<1>3. /\ Counted(A)
      /\ \E i \in Index, f \in FramesOf(PT, pg, id), d \in {0, 1} :
            Entered(A, T, PT, pg, i, f, d)
  BY Zenon, <1>0, AddEntry
<1> HIDE DEF A
<1>4. PICK i \in Index, f \in FramesOf(PT, pg, id), d \in {0, 1} : Entered(A, T, PT, pg, i, f, d)
  BY Zenon, <1>3
<1>5. f \in Frame /\ PT[f].page_number = pg
  BY Zenon DEF FramesOf
<1>6. Maps(A, PT) /\ OneEntry(A) /\ tlb_probe(A, pg) = {i}
  BY <1>0, <1>4, <1>5, AddMaps
<1>7. A.ent[i].frame = f /\ (PT[f].Dirty = 1 => A.ent[i].dirty = 1)
  BY <1>0, <1>4 DEF TLBOK, Entered
<1> QED BY Zenon, <1>1, <1>2, <1>3, <1>6, <1>7 DEF A, SoundTLB

LEMMA NowSound ==
    ASSUME NEW p, Alone(p), AInv(p), pc[p] \notin {"activate", "purged"}
    PROVE  SoundTLB(TLB, main_PG)
BY Zenon, Basics DEF SoundTLB, AInv, PlaceInv, TLBInv

(* The TLB through which load_segment writes.                              *)
LoadTLB(p) ==
    IF tlb_probe(TLB, fpage[p]) = {} THEN addTLB(TLB, main_PG, fpage[p], p_pid[p]) ELSE TLB

(* load_segment writes through the one entry of the page, to its frame.    *)
LEMMA LoadEntry ==
    ASSUME Counting, NEW p, Alone(p), AInv(p), pc[p] = "load"
    PROVE  /\ ~(tlb_probe(TLB, fpage[p]) = {} /\ addTLB_panics(TLB, main_PG, fpage[p], p_pid[p]))
           /\ SoundTLB(LoadTLB(p), main_PG) /\ fpage[p] \in Page
           /\ \E i \in Index, f \in Frame :
                 /\ main_PG[f].page_number = fpage[p]
                 /\ tlb_probe(LoadTLB(p), fpage[p]) = {i} /\ LoadTLB(p).ent[i].frame = f
                 /\ p \notin exec => LoadTLB(p).ent[i].dirty = 1
<1> DEFINE pg == fpage[p]
<1>1. /\ p \in Proc /\ FrameInv(p) /\ PhaseInv(p) /\ TLBInv(p) /\ Work(p) /\ Kept(p) /\ IInv
      /\ main_PG \in [Frame -> PTE] /\ Owned(p)
  BY Zenon, Basics DEF AInv, PlaceInv, IInv, WorkInv, MemOK, FrameInv
<1>2. pg \in Page
  BY Zenon, <1>1 DEF Work
<1>3. PICK f \in Frame : main_PG[f].page_number = pg
  <2>1. CASE p \in exec
    BY Zenon, <1>1, <1>2, <2>1, EagerPages DEF PhaseInv
  <2>2. CASE p \notin exec
    BY Zenon, <1>1, <2>2 DEF Kept, FramesOf
  <2> QED BY Zenon, <2>1, <2>2
<1>4. FramesOf(main_PG, pg, p_pid[p]) = {f}
  BY SMTT(30), <1>1, <1>2, <1>3, WhereIs
<1>5. p \notin exec => main_PG[f].Dirty = 1
  BY Zenon, <1>1, <1>3 DEF PhaseInv
<1>6. SoundTLB(TLB, main_PG)
  BY Zenon, NowSound
<1>7. CASE tlb_probe(TLB, pg) = {}
  <2> DEFINE A == addTLB(TLB, main_PG, pg, p_pid[p])
  <2>1. LoadTLB(p) = A
    BY Zenon, <1>7 DEF LoadTLB
  <2>2. /\ ~addTLB_panics(TLB, main_PG, pg, p_pid[p]) /\ SoundTLB(A, main_PG)
        /\ \E i \in Index, g \in FramesOf(main_PG, pg, p_pid[p]) :
              /\ tlb_probe(A, pg) = {i} /\ A.ent[i].frame = g
              /\ main_PG[g].Dirty = 1 => A.ent[i].dirty = 1
    BY SMTT(30), <1>1, <1>2, <1>4, <1>6, <1>7, Added
  <2> HIDE DEF A
  <2> QED BY Zenon, <1>2, <1>3, <1>4, <1>5, <2>1, <2>2
<1>8. CASE tlb_probe(TLB, pg) # {}
  <2>1. LoadTLB(p) = TLB
    BY Zenon, <1>8 DEF LoadTLB
  <2>2. PICK i \in Index : TLB.ent[i] # Invalid /\ TLB.ent[i].page = pg
    BY Zenon, <1>8 DEF tlb_probe
  <2>3. tlb_probe(TLB, pg) = {i}
    BY Zenon, <1>1, <2>2 DEF tlb_probe, TLBInv, OneEntry
  <2>4. TLB.ent[i].frame \in Frame /\ main_PG[TLB.ent[i].frame].page_number = pg
    BY Zenon, <1>1, <2>2 DEF TLBInv, Maps
  <2>5. p \notin exec => TLB.ent[i].dirty = 1
    BY Zenon, <1>1, <2>2 DEF TLBInv
  <2> QED BY Zenon, <1>2, <1>6, <1>8, <2>1, <2>3, <2>4, <2>5
<1> QED BY Zenon, <1>7, <1>8

(* What load_elf does with entry i of its TLB, without disk errors.        *)
LoadCase(p, i) ==
    /\ tlb_probe(LoadTLB(p), fpage[p]) = {i}
    /\ LoadTLB(p).ent[i].frame \in Frame
    /\ main_PG[LoadTLB(p).ent[i].frame].page_number = fpage[p]
    /\ p \notin exec => LoadTLB(p).ent[i].dirty = 1
    /\ UNCHANGED <<frame_list, main_PG, sf_list, disk, progs, p_pid, exec, panicked>>
    /\ \/ /\ p \notin exec /\ is_bssSegment(fpage[p])
          /\ pc'[p] = "user" /\ index'[p] = 0 /\ UNCHANGED <<ram, TLB>>
       \/ /\ p \in exec /\ LoadTLB(p).ent[i].dirty = 0 /\ pc'[p] = "exit"
          /\ TLB' = LoadTLB(p) /\ UNCHANGED <<ram, fpage, victim, slot, index>>
       \/ /\ p \in exec \/ ~is_bssSegment(fpage[p])
          /\ ram' = [ram EXCEPT ![LoadTLB(p).ent[i].frame] = Elf(fpage[p])]
          /\ TLB' = LoadTLB(p) /\ UNCHANGED <<victim, slot, index>>
          /\ \/ /\ p \in exec /\ fpage[p] < LastLoaded(fpage[p])
                /\ fpage'[p] = fpage[p] + 1 /\ pc' = pc
             \/ /\ ~(p \in exec /\ fpage[p] < LastLoaded(fpage[p]))
                /\ fpage'[p] = IF p \notin exec THEN fpage[p]
                               ELSE IF fpage[p] \in Code THEN 1 ELSE NCode + 1
                /\ pc'[p] = "loaded"

LEMMA LoadCases ==
    ASSUME Counting, NEW p, Alone(p), AInv(p), load_elf(p)
    PROVE  \E i \in Index : LoadCase(p, i)
<1> USE DEF LoadCase
<1> DEFINE pg == fpage[p]
           T == LoadTLB(p)
<1>1. p \in Proc /\ RestOK
  BY Zenon, Basics DEF AInv
<1>2. pc[p] = "load" /\ panicked = "no"
  BY Zenon DEF load_elf, Running
<1>3. PICK i \in Index, f \in Frame :
         /\ main_PG[f].page_number = pg /\ tlb_probe(T, pg) = {i} /\ T.ent[i].frame = f
         /\ p \notin exec => T.ent[i].dirty = 1
  BY Zenon, <1>2, LoadEntry
<1>4. UNCHANGED <<frame_list, main_PG, sf_list, disk, progs>>
  BY Zenon DEF load_elf, swapvars
<1>5. CASE p \notin exec /\ is_bssSegment(pg) /\ Resume(p) /\ UNCHANGED <<ram, TLB, p_pid, exec, panicked>>
  <2>1. pc'[p] = "user" /\ index'[p] = 0
    BY Zenon, <1>1, <1>5 DEF Resume, Goto, RestOK
  <2> QED BY Zenon, <1>3, <1>4, <1>5, <2>1
<1>6. CASE /\ p \in exec \/ ~is_bssSegment(pg)
           /\ load_segment(p) /\ UNCHANGED <<p_pid, exec, ftype, victim, slot, index>>
  <2>1. i \in Nat /\ Least(tlb_probe(T, pg)) = i
    BY Zenon, <1>3, IndexFacts, LeastOne
  <2>2. ~(tlb_probe(TLB, pg) = {} /\ addTLB_panics(TLB, main_PG, pg, p_pid[p]))
    BY Zenon, <1>2, LoadEntry
  <2>3. \/ T.ent[i].dirty = 0 /\ Goto(p, "exit") /\ TLB' = T /\ UNCHANGED <<ram, fpage, panicked>>
        \/ /\ T.ent[i].dirty # 0
           /\ ram' = [ram EXCEPT ![T.ent[i].frame] = Elf(pg)]
           /\ TLB' = T
           /\ IF p \in exec /\ pg < LastLoaded(pg)
                THEN fpage' = [fpage EXCEPT ![p] = pg + 1] /\ UNCHANGED pc
                ELSE /\ fpage' = [fpage EXCEPT ![p] = IF p \notin exec THEN pg
                                                     ELSE IF pg \in Code THEN 1 ELSE NCode + 1]
                     /\ Goto(p, "loaded")
           /\ UNCHANGED panicked
    <3> HIDE DEF T
    <3> QED BY Zenon, <1>6, <2>1, <2>2 DEF load_segment, LoadTLB, T
  <2> HIDE DEF T
  <2>4. CASE T.ent[i].dirty = 0 /\ Goto(p, "exit") /\ TLB' = T /\ UNCHANGED <<ram, fpage, panicked>>
    <3>1. pc'[p] = "exit" /\ p \in exec
      BY SMTT(30), <1>1, <1>3, <2>4 DEF Goto, RestOK
    <3> QED BY Zenon, <1>3, <1>4, <1>6, <2>4, <3>1 DEF T
  <2>5. CASE /\ ram' = [ram EXCEPT ![T.ent[i].frame] = Elf(pg)]
             /\ TLB' = T
             /\ p \in exec /\ pg < LastLoaded(pg)
             /\ fpage' = [fpage EXCEPT ![p] = pg + 1] /\ UNCHANGED <<pc, panicked>>
    <3>1. fpage'[p] = pg + 1
      BY Zenon, <1>1, <2>5 DEF RestOK
    <3> QED BY Zenon, <1>3, <1>4, <1>6, <2>5, <3>1 DEF T
  <2>6. CASE /\ ram' = [ram EXCEPT ![T.ent[i].frame] = Elf(pg)]
             /\ TLB' = T
             /\ ~(p \in exec /\ pg < LastLoaded(pg))
             /\ fpage' = [fpage EXCEPT ![p] = IF p \notin exec THEN pg
                                              ELSE IF pg \in Code THEN 1 ELSE NCode + 1]
             /\ Goto(p, "loaded") /\ UNCHANGED panicked
    <3>1. /\ fpage'[p] = IF p \notin exec THEN pg ELSE IF pg \in Code THEN 1 ELSE NCode + 1
          /\ pc'[p] = "loaded"
      BY Zenon, <1>1, <2>6 DEF RestOK, Goto
    <3> QED BY Zenon, <1>3, <1>4, <1>6, <2>6, <3>1 DEF T
  <2> QED BY Zenon, <2>3, <2>4, <2>5, <2>6
<1>7. ~IOErrors
  BY Zenon DEF Alone
<1> QED BY Zenon, <1>5, <1>6, <1>7 DEF load_elf

(* The page of load_segment is in memory, and only its dirty bit changes.  *)
LEMMA ProtectCases ==
    ASSUME Counting, NEW p, Alone(p), AInv(p), protect(p)
    PROVE  /\ fpage[p] \in Page /\ pc[p] = "loaded" /\ panicked = "no"
           /\ \A f \in Frame : /\ main_PG'[f].pid = main_PG[f].pid
                               /\ main_PG'[f].page_number = main_PG[f].page_number
                               /\ main_PG'[f].Valid = main_PG[f].Valid
           /\ SoundTLB(TLB', main_PG')
           /\ UNCHANGED <<frame_list, ram, sf_list, disk, progs, p_pid, panicked>>
           /\ \/ /\ p \in exec /\ fpage[p] \in Code /\ pc'[p] = "load" /\ fpage'[p] = NCode + 1
                 /\ UNCHANGED <<exec, index>>
              \/ /\ ~(p \in exec /\ fpage[p] \in Code) /\ pc'[p] = "user" /\ index'[p] = 0
                 /\ exec' = exec \ {p}
<1> DEFINE pg == fpage[p]
           T == removeTLBv1(TLB, pg)
<1>1. /\ p \in Proc /\ RestOK /\ FrameInv(p) /\ PhaseInv(p) /\ TLBInv(p) /\ Work(p) /\ Kept(p)
      /\ NoTLBPanic /\ main_PG \in [Frame -> PTE] /\ IInv /\ Owned(p) /\ TLBOK(TLB)
  BY Zenon, Basics DEF AInv, PlaceInv, IInv, WorkInv, MemOK, FrameInv
<1>2. pc[p] = "loaded" /\ panicked = "no" /\ UNCHANGED <<frame_list, ram, sf_list, disk, progs, p_pid>>
  BY Zenon DEF protect, Running, swapvars
<1>3. pg \in Page
  BY Zenon, <1>1, <1>2 DEF Work
<1>4. PICK f \in Frame : main_PG[f].page_number = pg
  <2>1. CASE p \in exec
    BY Zenon, <1>1, <1>2, <1>3, <2>1, EagerPages DEF PhaseInv
  <2>2. CASE p \notin exec
    BY Zenon, <1>1, <1>2, <2>2 DEF Kept, FramesOf
  <2> QED BY Zenon, <2>1, <2>2
<1>5. FramesOf(main_PG, pg, p_pid[p]) = {f} /\ pageSearch(pg) = {f}
  BY <1>1, <1>3, <1>4, WhereIs
<1>6. Least(pageSearch(pg)) = f
  BY <1>5, LeastOne, PagerAssumption DEF Frame
<1>7. main_PG' = IF pg \in Code THEN [main_PG EXCEPT ![f].Dirty = 0] ELSE main_PG
  BY Zenon, <1>5, <1>6 DEF protect
<1>8. /\ main_PG' \in [Frame -> PTE]
      /\ \A g \in Frame : /\ main_PG'[g].pid = main_PG[g].pid
                          /\ main_PG'[g].page_number = main_PG[g].page_number
                          /\ main_PG'[g].Valid = main_PG[g].Valid
  BY Zenon, <1>1, <1>7 DEF PTE
<1>9. FramesOf(main_PG', pg, p_pid[p]) = {f}
  BY Zenon, <1>5, <1>8 DEF FramesOf
<1>10. SoundTLB(T, main_PG') /\ tlb_probe(T, pg) = {}
  <2>1. SoundTLB(TLB, main_PG)
    BY Zenon, <1>2, NowSound
  <2>2. /\ Counted(T) /\ OneEntry(T) /\ tlb_probe(T, pg) = {}
        /\ \A i \in Index : T.ent[i] # Invalid => T.ent[i] = TLB.ent[i]
    BY <2>1, RemoveEntry DEF SoundTLB
  <2>3. TLBOK(T)
    BY Zenon, <1>1, RemoveOK
  <2> HIDE DEF T
  <2>4. Maps(T, main_PG')
    BY ZenonT(30), <1>8, <2>1, <2>2 DEF SoundTLB, Maps
  <2> QED BY Zenon, <2>2, <2>3, <2>4 DEF SoundTLB
<1>11. ~addTLB_panics(T, main_PG', pg, p_pid[p]) /\ SoundTLB(addTLB(T, main_PG', pg, p_pid[p]), main_PG')
  BY Zenon, <1>3, <1>8, <1>9, <1>10, Added
<1>12. /\ TLB' = addTLB(T, main_PG', pg, p_pid[p])
       /\ IF p \in exec /\ pg \in Code
            THEN /\ Goto(p, "load")
                 /\ fpage' = [fpage EXCEPT ![p] = NCode + 1]
                 /\ UNCHANGED <<exec, ftype, victim, slot, index>>
            ELSE Resume(p) /\ exec' = exec \ {p}
       /\ UNCHANGED panicked
  BY Zenon, <1>11 DEF protect
<1> HIDE DEF T
<1>13. CASE p \in exec /\ pg \in Code
  <2>1. pc'[p] = "load" /\ fpage'[p] = NCode + 1 /\ UNCHANGED <<exec, index>>
    BY Zenon, <1>1, <1>12, <1>13 DEF Goto, RestOK
  <2> QED BY Zenon, <1>2, <1>3, <1>8, <1>11, <1>12, <1>13, <2>1
<1>14. CASE ~(p \in exec /\ pg \in Code)
  <2>1. pc'[p] = "user" /\ index'[p] = 0 /\ exec' = exec \ {p}
    BY Zenon, <1>1, <1>12, <1>14 DEF Resume, Goto, RestOK
  <2> QED BY Zenon, <1>2, <1>3, <1>8, <1>11, <1>12, <1>14, <2>1
<1> QED BY Zenon, <1>13, <1>14

(* What swapOut's second half has in hand.                                 *)
LEMMA SwappedFacts ==
    ASSUME NEW p, Alone(p), AInv(p), pc[p] \in {"swapOut", "swapped"}
    PROVE  /\ victim[p] \in Frame /\ slot[p] \in Slot /\ p \notin exec /\ fpage[p] \in Page
           /\ main_PG[victim[p]].pid = p_pid[p] /\ main_PG[victim[p]].pid # 0
           /\ main_PG[victim[p]].page_number \in Data /\ main_PG[victim[p]].page_number # fpage[p]
           /\ sf_list[slot[p]] = FreeSlot /\ (index[p] # 0 => index[p] \in Slot \ {slot[p]})
           /\ \A s \in Slot : ~(sf_list[s].p_pid = p_pid[p]
                                /\ sf_list[s].p_number = main_PG[victim[p]].page_number)
<1>1. /\ p \in Proc /\ RestOK /\ Work(p) /\ Kept(p) /\ SlotInv(p) /\ PhaseInv(p) /\ p_pid[p] # 0
      /\ 0 \notin Page
  BY Zenon, Basics DEF AInv, PlaceInv, IInv, WorkInv
<1>2. /\ victim[p] \in Frame /\ slot[p] \in Slot /\ p \notin exec /\ fpage[p] \in Page
      /\ main_PG[victim[p]].pid = p_pid[p] /\ main_PG[victim[p]].page_number \in Data
      /\ sf_list[slot[p]] = FreeSlot
  BY Zenon, <1>1 DEF Work, Kept, PhaseInv
<1>3. main_PG[victim[p]].page_number # fpage[p]
  BY Zenon, <1>1, <1>2 DEF PhaseInv
<1>4. index[p] # 0 => index[p] \in Slot \ {slot[p]}
  <2> SUFFICES ASSUME index[p] # 0 PROVE index[p] \in Slot \ {slot[p]}
    BY Zenon
  <2>1. index[p] \in Slot BY Zenon, <1>1 DEF RestOK
  <2>2. sf_list[index[p]].p_number = fpage[p] BY Zenon, <1>1 DEF PhaseInv, SavedIn
  <2> QED BY SMTT(30), <1>1, <1>2, <2>1, <2>2 DEF FreeSlot
<1>5. \A s \in Slot : ~(sf_list[s].p_pid = p_pid[p]
                        /\ sf_list[s].p_number = main_PG[victim[p]].page_number)
  BY Zenon, <1>1, <1>2 DEF SlotInv
<1> QED BY Zenon, <1>1, <1>2, <1>3, <1>4, <1>5

-----------------------------------------------------------------------------
(* The invariant, action by action *)


(* A counter below its width does not wrap.                                *)
LEMMA ModSmall == ASSUME NEW a \in Nat, NEW b \in Nat, a < b PROVE a % b = a
OBVIOUS

-----------------------------------------------------------------------------
(* Frames *)

(* free_kpages of a frame in use.                                          *)
LEMMA FreeOK ==
    ASSUME MemOK, FreeInv, TLBOK(TLB), NEW f \in Frame, main_PG[f].Valid = 1, free_kpages(f)
    PROVE  /\ MemOK' /\ FreeInv' /\ TLBOK(TLB') /\ panicked' = "no"
           /\ main_PG'[f].Valid = 0 /\ main_PG'[f].pid = 0
           /\ \A g \in Frame \ {f} : main_PG'[g] = main_PG[g]
<1> DEFINE n == Len(frame_list)
           e == [main_PG[f] EXCEPT !.Valid = 0, !.pid = 0, !.page_number = 0]
<1>1. /\ frame_list' = <<f>> \o frame_list
      /\ main_PG' = [main_PG EXCEPT ![f].Valid = 0, ![f].pid = 0, ![f].page_number = 0]
      /\ ram' = [ram EXCEPT ![f] = Zero]
      /\ panicked' = "no"
      /\ TLB' = TLB \/ TLB' = removeTLBv1(TLB, main_PG[f].page_number)
  BY DEF free_kpages
<1>2. TLBOK(TLB')
  BY Zenon, <1>1, RemoveOK
<1>3. 0 \in Pid
  BY PagerAssumption DEF Pid
<1>4. e \in PTE /\ e.Valid = 0 /\ e.pid = 0
  BY Zenon, <1>3 DEF MemOK, PTE
<1>5. main_PG' \in [Frame -> PTE] /\ main_PG'[f].Valid = 0 /\ main_PG'[f].pid = 0
  BY Zenon, <1>1, <1>4 DEF MemOK
<1>6. \A g \in Frame \ {f} : main_PG'[g] = main_PG[g]
  BY Zenon, <1>1 DEF MemOK
<1>7. ram' \in [Frame -> Content]
  BY Zenon, <1>1, Contents DEF MemOK
<1>8. /\ n \in Nat /\ Len(frame_list') = n + 1 /\ frame_list' \in Seq(Frame)
      /\ frame_list'[1] = f
      /\ \A i \in 1..n : frame_list'[i + 1] = frame_list[i]
      /\ \A i \in 1..n : frame_list[i] \in Frame
  BY <1>1 DEF MemOK
<1>9. \A i \in 1..n : frame_list[i] # f
  <2> SUFFICES ASSUME NEW i \in 1..n, frame_list[i] = f PROVE FALSE BY Zenon
  <2>1. f \in Listed BY Zenon DEF Listed
  <2>2. main_PG[f].Valid = 0 BY Zenon, <2>1 DEF FreeInv
  <2> QED BY <2>2
<1>10. \A i \in 2..(n + 1) : i - 1 \in 1..n /\ frame_list'[i] = frame_list[i - 1]
  <2> SUFFICES ASSUME NEW i \in 2..(n + 1)
               PROVE  i - 1 \in 1..n /\ frame_list'[i] = frame_list[i - 1]
    BY Zenon
  <2>1. i - 1 \in 1..n /\ (i - 1) + 1 = i BY <1>8
  <2>2. frame_list'[(i - 1) + 1] = frame_list[i - 1] BY Zenon, <1>8, <2>1
  <2> QED BY Zenon, <2>1, <2>2
<1>11. \A i, j \in 1..(n + 1) : frame_list'[i] = frame_list'[j] => i = j
  <2> SUFFICES ASSUME NEW i \in 1..(n + 1), NEW j \in 1..(n + 1),
                      frame_list'[i] = frame_list'[j]
               PROVE  i = j
    BY Zenon
  <2>1. CASE i = 1 /\ j # 1
    <3>1. j \in 2..(n + 1) BY <1>8, <2>1
    <3> QED BY Zenon, <1>8, <1>9, <1>10, <2>1, <3>1
  <2>2. CASE i # 1 /\ j = 1
    <3>1. i \in 2..(n + 1) BY <1>8, <2>2
    <3> QED BY Zenon, <1>8, <1>9, <1>10, <2>2, <3>1
  <2>3. CASE i # 1 /\ j # 1
    <3>1. i \in 2..(n + 1) /\ j \in 2..(n + 1) BY <1>8, <2>3
    <3>2. i - 1 \in 1..n /\ j - 1 \in 1..n /\ frame_list[i - 1] = frame_list[j - 1]
      BY Zenon, <1>10, <3>1
    <3>3. i - 1 = j - 1 BY Zenon, <3>2 DEF FreeInv
    <3> QED BY <3>1, <3>3
  <2> QED BY Zenon, <2>1, <2>2, <2>3
<1>12. \A g \in Frame : main_PG'[g].Valid = 0 <=> g \in Listed'
  <2> SUFFICES ASSUME NEW g \in Frame PROVE main_PG'[g].Valid = 0 <=> g \in Listed'
    BY Zenon
  <2>1. g \in Listed' <=> \E i \in 1..(n + 1) : frame_list'[i] = g
    BY Zenon, <1>8 DEF Listed
  <2>2. g \in Listed <=> \E i \in 1..n : frame_list[i] = g
    BY Zenon DEF Listed
  <2>3. CASE g = f
    <3>1. 1 \in 1..(n + 1) BY <1>8
    <3> QED BY Zenon, <1>5, <1>8, <2>1, <2>3, <3>1
  <2>4. CASE g # f
    <3>1. main_PG'[g].Valid = 0 <=> g \in Listed
      BY Zenon, <1>6, <2>4 DEF FreeInv
    <3>2. ASSUME NEW i \in 1..n, frame_list[i] = g
          PROVE  i + 1 \in 1..(n + 1) /\ frame_list'[i + 1] = g
      BY <1>8, <3>2
    <3>3. ASSUME NEW i \in 1..(n + 1), frame_list'[i] = g
          PROVE  i - 1 \in 1..n /\ frame_list[i - 1] = g
      <4>1. i # 1 BY Zenon, <1>8, <2>4, <3>3
      <4>2. i \in 2..(n + 1) BY <1>8, <4>1
      <4> QED BY Zenon, <1>10, <3>3, <4>2
    <3> QED BY Zenon, <2>1, <2>2, <3>1, <3>2, <3>3
  <2> QED BY Zenon, <2>3, <2>4
<1> QED BY Zenon, <1>1, <1>2, <1>5, <1>6, <1>7, <1>8, <1>11, <1>12 DEF MemOK, FreeInv

-----------------------------------------------------------------------------
(* Steps that every action is made of *)

(* The frames of process p stay its own.                                   *)
OwnedKept(p) ==
    \A f \in Frame : main_PG[f].Valid = 1 /\ main_PG[f].pid = p_pid[p] =>
       /\ main_PG'[f].Valid = 1 /\ main_PG'[f].pid = main_PG[f].pid
       /\ main_PG'[f].page_number = main_PG[f].page_number

(* A process that did not move keeps what it has chosen.                   *)
LEMMA Others ==
    ASSUME IInv, NEW q \in Proc, pc'[q] = pc[q], fpage'[q] = fpage[q], victim'[q] = victim[q],
           slot'[q] = slot[q], index'[q] = index[q], p_pid'[q] = p_pid[q],
           q \in exec' <=> q \in exec, pc[q] = "none" \/ OwnedKept(q)
    PROVE  Work(q)' /\ Kept(q)'
<1>1. Work(q) /\ Kept(q)
  BY Zenon DEF IInv, WorkInv
<1>2. Work(q)'
  BY Zenon, <1>1 DEF Work
<1>3. Kept(q)'
  <2>1. CASE pc[q] \in {"swapOut", "swapped"}
    <3>1. victim[q] \in Frame BY Zenon, <1>1, <2>1 DEF Work
    <3> QED BY Zenon, <1>1, <2>1, <3>1 DEF Kept, OwnedKept
  <2>2. CASE pc[q] \in {"load", "loaded"} /\ q \notin exec
    <3>1. PICK f \in Frame : main_PG[f].Valid = 1 /\ main_PG[f].page_number = fpage[q]
                             /\ main_PG[f].pid = p_pid[q]
      BY Zenon, <1>1, <2>2 DEF Kept, FramesOf
    <3>2. main_PG'[f].Valid = 1 /\ main_PG'[f].page_number = fpage[q]
          /\ main_PG'[f].pid = p_pid[q]
      BY Zenon, <2>2, <3>1 DEF OwnedKept
    <3>3. f \in FramesOf(main_PG', fpage'[q], p_pid'[q])
      BY Zenon, <3>2 DEF FramesOf
    <3> QED BY Zenon, <2>2, <3>3 DEF Kept
  <2>3. CASE ~(pc[q] \in {"swapOut", "swapped"}) /\ ~(pc[q] \in {"load", "loaded"} /\ q \notin exec)
    BY Zenon, <2>3 DEF Kept
  <2> QED BY Zenon, <2>1, <2>2, <2>3
<1> QED BY Zenon, <1>2, <1>3

(* Pids are safe as long as no process starts and none changes its pid.    *)
LEMMA PidsKept ==
    ASSUME PidInv, progs' = progs, next_free_pid' = next_free_pid,
           \A q \in Proc : pc'[q] # "none" => pc[q] # "none" /\ p_pid'[q] = p_pid[q]
    PROVE  PidInv'
BY Zenon DEF PidInv

(* Allocation takes a frame that nobody has.                               *)
LEMMA AllocFrame ==
    ASSUME IInv, NEW pg \in Page \cup {0}, NEW id \in Pid, NEW d \in {0, 1},
           alloc_page(pg, id, d), kpages' = kpages
    PROVE  /\ MemOK' /\ FreeInv' /\ CleanInv' /\ KernelInv' /\ ~alloc_panics
           /\ \A q \in Proc : OwnedKept(q)
           /\ Head(frame_list) \in FramesOf(main_PG', pg, id)
           /\ Head(frame_list) \in Frame
<1>1. MemOK /\ FreeInv /\ CleanInv /\ KernelInv /\ kpages \in SUBSET Frame
  BY Zenon DEF IInv, TypeOK, MemOK
<1>2. /\ MemOK' /\ FreeInv'
      /\ Head(frame_list) \in Frame /\ main_PG[Head(frame_list)].Valid = 0
      /\ main_PG'[Head(frame_list)] =
            [Valid |-> 1, pid |-> id, page_number |-> pg, Dirty |-> d]
      /\ \A f \in Frame \ {Head(frame_list)} : main_PG'[f] = main_PG[f]
  BY Zenon, <1>1, AllocOK
<1>3. \A f \in Frame : main_PG[f].Valid = 1 => main_PG'[f] = main_PG[f]
  BY <1>2
<1>4. ~alloc_panics
  BY <1>2 DEF alloc_panics
<1>5. CleanInv'
  BY <1>1, <1>2 DEF CleanInv
<1>6. KernelInv'
  BY Zenon, <1>1, <1>3 DEF KernelInv
<1>7. Head(frame_list) \in FramesOf(main_PG', pg, id)
  BY <1>2 DEF FramesOf
<1>8. \A q \in Proc : OwnedKept(q)
  BY Zenon, <1>3 DEF OwnedKept
<1> QED BY Zenon, <1>2, <1>4, <1>5, <1>6, <1>7, <1>8

(* To free a frame of one process is nothing to the others.                *)
LEMMA FreeFrame ==
    ASSUME IInv, NEW p \in Proc, pc[p] # "none", NEW f \in Frame, main_PG[f].Valid = 1,
           main_PG[f].pid = p_pid[p], free_kpages(f), kpages' = kpages
    PROVE  /\ MemOK' /\ FreeInv' /\ CleanInv' /\ KernelInv' /\ TLBOK(TLB') /\ panicked' = "no"
           /\ \A q \in Proc : q # p /\ pc[q] # "none" => OwnedKept(q)
<1>1. /\ MemOK /\ FreeInv /\ CleanInv /\ KernelInv /\ TLBOK(TLB) /\ kpages \in SUBSET Frame
      /\ progs \in Nat
  BY DEF IInv, TypeOK, MemOK
<1>2. /\ MemOK' /\ FreeInv' /\ TLBOK(TLB') /\ panicked' = "no"
      /\ main_PG'[f].Valid = 0 /\ main_PG'[f].pid = 0
      /\ \A g \in Frame \ {f} : main_PG'[g] = main_PG[g]
  BY Zenon, <1>1, FreeOK
<1>3. CleanInv'
  BY Zenon, <1>1, <1>2 DEF CleanInv
<1>4. main_PG[f].pid # 0
  BY <1>1 DEF IInv, PidInv
<1>5. KernelInv'
  BY Zenon, <1>1, <1>2, <1>4 DEF KernelInv
<1>6. ASSUME NEW q \in Proc, q # p, pc[q] # "none"
      PROVE  OwnedKept(q)
  <2>1. p_pid[q] # p_pid[p]
    BY Zenon, <1>6 DEF IInv, PidInv
  <2> QED BY Zenon, <1>2, <2>1 DEF OwnedKept
<1> QED BY Zenon, <1>2, <1>3, <1>5, <1>6

-----------------------------------------------------------------------------
(* Putting a step together *)

(* The invariant after a step, from its parts.                             *)
LEMMA Reassemble ==
    ASSUME MemInv', TLBOK(TLB)', RestOK', PidInv', WorkInv', NoFramePanic'
    PROVE  IInv'
BY Zenon DEF IInv, TypeOK, MemInv, MemOK, RestOK, TLBOK

(* The other processes stay where they are.                                *)
Untouched(p) ==
    \A q \in Proc \ {p} :
       /\ pc'[q] = pc[q] /\ fpage'[q] = fpage[q] /\ victim'[q] = victim[q]
       /\ slot'[q] = slot[q] /\ index'[q] = index[q] /\ p_pid'[q] = p_pid[q]
       /\ q \in exec' <=> q \in exec

(* The work in hand after a step of one process.                           *)
LEMMA OneMoves ==
    ASSUME IInv, NEW p \in Proc, Untouched(p), Work(p)', Kept(p)',
           \A q \in Proc \ {p} : pc[q] = "none" \/ OwnedKept(q)
    PROVE  WorkInv'
<1> SUFFICES ASSUME NEW q \in Proc PROVE Work(q)' /\ Kept(q)'
  BY Zenon DEF WorkInv
<1>1. CASE q = p
  BY Zenon, <1>1
<1>2. CASE q # p
  BY Zenon, <1>2, Others DEF Untouched
<1> QED BY Zenon, <1>1, <1>2

(* A step of one running process, which keeps its pid or comes to its end. *)
LEMMA OneSteps ==
    ASSUME IInv, NEW p \in Proc, pc[p] # "none", Untouched(p),
           pc'[p] = "none" \/ p_pid'[p] = p_pid[p],
           UNCHANGED <<next_free_pid, progs>>,
           MemInv', TLBOK(TLB)', RestOK', NoFramePanic', Work(p)', Kept(p)',
           \A q \in Proc \ {p} : pc[q] = "none" \/ OwnedKept(q)
    PROVE  IInv'
<1>1. WorkInv'
  BY Zenon, OneMoves
<1>2. PidInv'
  <2>1. PidInv BY Zenon DEF IInv
  <2>2. \A q \in Proc : pc'[q] # "none" => pc[q] # "none" /\ p_pid'[q] = p_pid[q]
    BY Zenon DEF Untouched
  <2> QED BY Zenon, <2>1, <2>2, PidsKept
<1> QED BY Zenon, <1>1, <1>2, Reassemble

(* The frames are left alone, whatever is stored in them.                  *)
LEMMA SameFrames ==
    ASSUME IInv, UNCHANGED <<frame_list, main_PG, kpages>>
    PROVE  /\ FreeInv' /\ CleanInv' /\ KernelInv'
           /\ \A q \in Proc : OwnedKept(q)
<1>1. FreeInv /\ CleanInv /\ KernelInv
  BY Zenon DEF IInv
<1>2. FreeInv' BY Zenon, <1>1 DEF FreeInv, Listed
<1>3. CleanInv' BY Zenon, <1>1 DEF CleanInv
<1>4. KernelInv' BY Zenon, <1>1 DEF KernelInv
<1>5. \A q \in Proc : OwnedKept(q) BY Zenon DEF OwnedKept
<1> QED BY Zenon, <1>2, <1>3, <1>4, <1>5

(* A step that touches no memory at all.                                   *)
LEMMA SameMemory ==
    ASSUME IInv, UNCHANGED <<memvars, kpages>>
    PROVE  MemInv' /\ \A q \in Proc : OwnedKept(q)
<1>1. MemOK'
  BY Zenon DEF IInv, TypeOK, MemOK, memvars
<1> QED BY Zenon, <1>1, SameFrames DEF MemInv, memvars

-----------------------------------------------------------------------------
(* The actions *)

(* thread_switch only changes the TLB.                                     *)
LEMMA SwitchStep == ASSUME IInv, NEW p \in Proc, thread_switch(p) PROVE IInv'
<1>1. /\ cur' = p
      /\ TLB' = TLB \/ TLB' = invalidate_TLB(TLB)
      /\ TLB_PID' \in {0, 1}
      /\ UNCHANGED <<memvars, swapvars, kpages, procvars, pc, faultvars, panicked>>
  BY Zenon DEF thread_switch, as_activate, AsBool, tlbvars, IInv, TypeOK
<1>2. TLBOK(TLB)'
  BY Zenon, <1>1, InvalidateOK DEF IInv
<1>3. MemInv' /\ \A q \in Proc : OwnedKept(q)
  BY Zenon, <1>1, SameMemory
<1>4. RestOK'
  BY Zenon, <1>1, Parts DEF RestOK, swapvars, procvars, faultvars
<1>5. WorkInv'
  <2>1. \A q \in Proc : Work(q)' /\ Kept(q)'
    BY Zenon, <1>1, <1>3, Others DEF procvars, faultvars
  <2> QED BY Zenon, <2>1 DEF WorkInv
<1>6. PidInv'
  BY Zenon, <1>1, PidsKept DEF IInv, procvars
<1>7. NoFramePanic'
  BY Zenon, <1>1 DEF IInv, NoFramePanic
<1> QED BY Zenon, <1>2, <1>3, <1>4, <1>5, <1>6, <1>7, Reassemble

(* sys__exit only enters as_destroy.                                       *)
LEMMA ExitCallStep == ASSUME IInv, NEW p \in Proc, sys__exit(p) PROVE IInv'
<1>1. /\ pc[p] = "user" /\ pc' = [pc EXCEPT ![p] = "exit"]
      /\ UNCHANGED <<memvars, swapvars, tlbvars, cur, kpages, procvars, faultvars, panicked>>
  BY Zenon DEF sys__exit, Running, Goto
<1>2. MemInv' /\ \A q \in Proc : OwnedKept(q)
  BY Zenon, <1>1, SameMemory
<1>3. TLBOK(TLB)' /\ NoFramePanic'
  BY Zenon, <1>1 DEF IInv, tlbvars, NoFramePanic
<1>4. RestOK'
  BY Zenon, <1>1, Parts DEF RestOK, swapvars, procvars, faultvars, tlbvars, Points
<1>5. Untouched(p) /\ p_pid' = p_pid /\ UNCHANGED <<next_free_pid, progs>> /\ pc'[p] = "exit"
  BY Zenon, <1>1, Parts DEF Untouched, procvars, faultvars, RestOK
<1>6. Work(p)' /\ Kept(p)'
  BY Zenon, <1>5 DEF Work, Kept
<1> QED BY Zenon, <1>1, <1>2, <1>3, <1>4, <1>5, <1>6, OneSteps

(* proc_create gives a pid that nobody has.                                *)
LEMMA CreateStep == ASSUME IInv, MaxProgs < PidSpace, NEW p \in Proc, proc_create(p) PROVE IInv'
<1>1. /\ pc[p] = "none" /\ progs < MaxProgs /\ progs' = progs + 1
      /\ p_pid' = [p_pid EXCEPT ![p] = next_free_pid]
      /\ next_free_pid' = (next_free_pid + 1) % PidSpace
      /\ pc' = [pc EXCEPT ![p] = "exec"]
      /\ UNCHANGED <<memvars, swapvars, tlbvars, cur, kpages, exec, faultvars, panicked>>
  BY Zenon DEF proc_create, Goto
<1>2. MemInv' /\ \A q \in Proc : OwnedKept(q)
  BY Zenon, <1>1, SameMemory
<1>3. TLBOK(TLB)' /\ NoFramePanic'
  BY Zenon, <1>1 DEF IInv, tlbvars, NoFramePanic
<1>4. RestOK /\ PidInv
  BY Zenon, Parts
<1>5. next_free_pid = progs + 1 /\ progs \in Nat
  BY <1>1, <1>4 DEF PidInv, RestOK
<1>6. RestOK'
  <2>1. next_free_pid' \in Pid /\ progs' \in 0..MaxProgs
    BY <1>1, <1>5, PagerAssumption DEF Pid
  <2> QED BY Zenon, <1>1, <1>4, <2>1 DEF RestOK, swapvars, faultvars, tlbvars, Points
<1>7. Untouched(p) /\ pc'[p] = "exec" /\ p_pid'[p] = progs + 1
  BY Zenon, <1>1, <1>4, <1>5 DEF Untouched, faultvars, RestOK
<1>8. Work(p)' /\ Kept(p)'
  BY Zenon, <1>7 DEF Work, Kept
<1>9. WorkInv'
  BY Zenon, <1>2, <1>7, <1>8, OneMoves
<1>10. PidInv'
  <2>1. progs' < MaxProgs => next_free_pid' = progs' + 1
    <3> SUFFICES ASSUME progs' < MaxProgs PROVE next_free_pid' = progs' + 1 BY Zenon
    <3>1. progs + 2 < PidSpace /\ progs + 2 \in Nat BY <1>1, <1>5, PagerAssumption
    <3>2. (progs + 2) % PidSpace = progs + 2 BY Zenon, <3>1, ModSmall, PagerAssumption
    <3> QED BY <1>1, <1>5, <3>2
  <2>2. \A q \in Proc : pc'[q] # "none" => p_pid'[q] \in 1..progs'
    BY <1>1, <1>4, <1>5, <1>7 DEF PidInv, Untouched
  <2>3. ASSUME NEW q \in Proc, NEW r \in Proc, q # r, pc'[q] # "none", pc'[r] # "none"
        PROVE  p_pid'[q] # p_pid'[r]
    <3>1. \A t \in Proc \ {p} : pc'[t] # "none" => p_pid'[t] \in 1..progs
      BY Zenon, <1>4, <1>7 DEF PidInv, Untouched
    <3>2. CASE q = p
      BY <1>5, <1>7, <2>3, <3>1, <3>2
    <3>3. CASE r = p
      BY <1>5, <1>7, <2>3, <3>1, <3>3
    <3>4. CASE q # p /\ r # p
      BY Zenon, <1>4, <1>7, <2>3, <3>4 DEF PidInv, Untouched
    <3> QED BY Zenon, <3>2, <3>3, <3>4
  <2> QED BY Zenon, <2>1, <2>2, <2>3 DEF PidInv
<1> QED BY Zenon, <1>2, <1>3, <1>6, <1>9, <1>10, Reassemble

(* runprogram enters as_define_region, or ends the thread.                 *)
LEMMA RunStep == ASSUME IInv, NEW p \in Proc, runprogram(p) PROVE IInv'
<1>1. /\ pc[p] = "exec"
      /\ UNCHANGED <<memvars, swapvars, TLB_PID, kpages, next_free_pid, progs, ftype, victim, slot,
                     index, panicked>>
  BY Zenon DEF runprogram, Running
<1>2. MemInv' /\ \A q \in Proc : OwnedKept(q)
  BY Zenon, <1>1, SameMemory
<1>3. NoFramePanic' /\ RestOK
  BY Zenon, <1>1, Parts DEF NoFramePanic
<1>4. 1 \in Page /\ 0 \in Pid
  BY PagerAssumption DEF Page, Pid
<1>5. CASE /\ \/ TLB' = purge_TLB(TLB) /\ pc' = [pc EXCEPT ![p] = "activate"]
              \/ TLB' = TLB /\ pc' = [pc EXCEPT ![p] = "define"]
           /\ exec' = exec \cup {p}
           /\ fpage' = [fpage EXCEPT ![p] = 1] /\ UNCHANGED <<cur, p_pid>>
  <2>1. TLBOK(TLB)'
    BY Zenon, <1>5, InvalidateOK DEF IInv
  <2>2. RestOK'
    BY Zenon, <1>1, <1>3, <1>4, <1>5 DEF RestOK, swapvars, Points
  <2>3. Untouched(p) /\ pc'[p] \in {"activate", "define"} /\ fpage'[p] = 1 /\ p \in exec'
    BY Zenon, <1>1, <1>3, <1>5 DEF Untouched, RestOK
  <2>4. Work(p)' /\ Kept(p)'
    BY Zenon, <1>4, <2>3 DEF Work, Kept
  <2> QED BY Zenon, <1>1, <1>2, <1>3, <1>5, <2>1, <2>2, <2>3, <2>4, OneSteps
<1>6. CASE thread_exit(p) /\ UNCHANGED TLB
  <2>1. TLBOK(TLB)'
    BY Zenon, <1>6 DEF IInv
  <2>2. RestOK'
    BY Zenon, <1>1, <1>3, <1>4, <1>6 DEF RestOK, swapvars, Points, thread_exit, Goto
  <2>3. Untouched(p) /\ pc'[p] = "none"
    BY Zenon, <1>1, <1>3, <1>6 DEF Untouched, RestOK, thread_exit, Goto
  <2>4. Work(p)' /\ Kept(p)'
    BY Zenon, <2>3 DEF Work, Kept
  <2> QED BY Zenon, <1>1, <1>2, <1>3, <2>1, <2>2, <2>3, <2>4, OneSteps
<1> QED BY Zenon, <1>5, <1>6 DEF runprogram, Goto

(* The end of as_activate in runprogram only changes the TLB.              *)
LEMMA ActivateStep == ASSUME IInv, NEW p \in Proc, as_activate_done(p) PROVE IInv'
<1>1. /\ pc[p] = "activate" /\ pc' = [pc EXCEPT ![p] = "define"]
      /\ TLB' = set_freeTLBEntries(TLB) /\ TLB_PID' \in {0, 1}
      /\ UNCHANGED <<memvars, swapvars, cur, kpages, procvars, faultvars, panicked>>
  BY Zenon DEF as_activate_done, Running, Goto, AsBool
<1>2. MemInv' /\ \A q \in Proc : OwnedKept(q)
  BY Zenon, <1>1, SameMemory
<1>3. RestOK /\ Work(p)
  BY Zenon, Parts DEF WorkInv
<1>4. TLBOK(TLB)' /\ NoFramePanic'
  BY Zenon, <1>1, InvalidateOK DEF IInv, NoFramePanic
<1>5. RestOK'
  BY Zenon, <1>1, <1>3 DEF RestOK, swapvars, procvars, faultvars, Points
<1>6. Untouched(p) /\ p_pid' = p_pid /\ UNCHANGED <<next_free_pid, progs>> /\ pc'[p] = "define"
  BY Zenon, <1>1, <1>3 DEF Untouched, procvars, faultvars, RestOK
<1>7. Work(p)' /\ Kept(p)'
  BY Zenon, <1>1, <1>3, <1>6 DEF Work, Kept, procvars, faultvars
<1> QED BY Zenon, <1>1, <1>2, <1>4, <1>5, <1>6, <1>7, OneSteps

(* A store changes what is in a frame, not whose it is.                    *)
LEMMA StoreStep ==
    ASSUME IInv, NEW p \in Proc, NEW pg \in Page, NEW v \in Value, store(p, pg, v)
    PROVE  IInv'
<1>1. /\ pc[p] = "user"
      /\ UNCHANGED <<frame_list, main_PG, swapvars, tlbvars, cur, kpages, procvars, faultvars,
                     panicked>>
      /\ pc' = pc \/ pc' = [pc EXCEPT ![p] = "exit"]
      /\ ram' = ram \/ \E f : ram' = [ram EXCEPT ![f] = Stored(p_pid[p], pg, v)]
  BY Zenon DEF store, Running, Goto
<1>2. RestOK /\ MemOK
  BY Zenon, Parts DEF MemInv
<1>3. MemOK'
  <2>1. Stored(p_pid[p], pg, v) \in Content BY Zenon, <1>2, Contents DEF RestOK
  <2> QED BY Zenon, <1>1, <1>2, <2>1 DEF MemOK
<1>4. MemInv' /\ \A q \in Proc : OwnedKept(q)
  BY Zenon, <1>1, <1>3, SameFrames DEF MemInv
<1>5. TLBOK(TLB)' /\ NoFramePanic'
  BY Zenon, <1>1 DEF IInv, tlbvars, NoFramePanic
<1>6. RestOK'
  BY Zenon, <1>1, <1>2 DEF RestOK, swapvars, procvars, faultvars, tlbvars, Points
<1>7. /\ Untouched(p) /\ p_pid'[p] = p_pid[p] /\ UNCHANGED <<next_free_pid, progs>>
      /\ pc'[p] \in {"user", "exit"}
  BY Zenon, <1>1, <1>2 DEF Untouched, procvars, faultvars, RestOK
<1>8. Work(p)' /\ Kept(p)'
  BY Zenon, <1>7 DEF Work, Kept
<1> QED BY Zenon, <1>1, <1>4, <1>5, <1>6, <1>7, <1>8, OneSteps

(* A fault on a page in memory changes only the TLB.                       *)
LEMMA ReloadStep ==
    ASSUME Counting, IInv, NEW p \in Proc, NEW pg \in Page, NEW w, fault_reload(p, pg, w)
    PROVE  IInv'
<1>1. /\ pc[p] = "user"
      /\ UNCHANGED <<memvars, swapvars, TLB_PID, cur, kpages, procvars, pc, faultvars>>
      /\ \/ panicked' = "addTLB" /\ TLB' = TLB
         \/ /\ ~addTLB_panics(TLB, main_PG, pg, p_pid[p])
            /\ TLB' = addTLB(TLB, main_PG, pg, p_pid[p]) /\ panicked' = panicked
  BY Zenon DEF fault_reload, Miss, Running, panic
<1>2. RestOK /\ MemOK /\ TLBOK(TLB) /\ NoFramePanic
  BY Zenon, Parts DEF MemInv
<1>3. MemInv' /\ \A q \in Proc : OwnedKept(q)
  BY Zenon, <1>1, SameMemory
<1>4. TLBOK(TLB)'
  BY Zenon, <1>1, <1>2, AddOK DEF addTLB_panics, MemOK
<1>5. RestOK' /\ NoFramePanic'
  BY Zenon, <1>1, <1>2 DEF RestOK, swapvars, procvars, faultvars, Panics, NoFramePanic
<1>6. Untouched(p) /\ p_pid'[p] = p_pid[p] /\ UNCHANGED <<next_free_pid, progs>> /\ pc'[p] = "user"
  BY Zenon, <1>1, <1>2 DEF Untouched, procvars, faultvars, RestOK
<1>7. Work(p)' /\ Kept(p)'
  BY Zenon, <1>6 DEF Work, Kept
<1> QED BY Zenon, <1>1, <1>3, <1>4, <1>5, <1>6, <1>7, OneSteps

(* A step of a kernel thread moves no process.                             *)
LEMMA NobodySteps ==
    ASSUME IInv, UNCHANGED <<procvars, pc, faultvars>>,
           MemInv', TLBOK(TLB)', RestOK', NoFramePanic',
           \A q \in Proc : pc[q] = "none" \/ OwnedKept(q)
    PROVE  IInv'
<1>1. \A q \in Proc : Work(q)' /\ Kept(q)'
  BY Zenon, Others DEF procvars, faultvars
<1>2. PidInv'
  BY Zenon, PidsKept DEF IInv, procvars
<1> QED BY Zenon, <1>1, <1>2, Reassemble DEF WorkInv

(* alloc_kpages by a kernel thread takes a frame without an owner.         *)
LEMMA KernelAllocStep == ASSUME IInv, kernel_alloc PROVE IInv'
<1> DEFINE h == Head(frame_list)
           e == [main_PG[h] EXCEPT !.Valid = 1]
<1>1. /\ frame_list # <<>> /\ frame_list' = Tail(frame_list)
      /\ main_PG' = [main_PG EXCEPT ![h] = e]
      /\ ram' = [ram EXCEPT ![h] = Zero]
      /\ kpages' = kpages \cup {h} /\ alloc_check
      /\ UNCHANGED <<swapvars, tlbvars, cur, procvars, pc, faultvars>>
  BY Zenon DEF kernel_alloc
<1>2. MemInv /\ RestOK /\ TLBOK(TLB)
  BY Zenon, Parts
<1>3. h \in Frame
  BY <1>1, <1>2 DEF MemInv, MemOK
<1>4. e \in PTE /\ e.Valid = 1 /\ e.pid = main_PG[h].pid
  BY Zenon, <1>2, <1>3 DEF MemInv, MemOK, PTE
<1> HIDE DEF e
<1>5. /\ MemOK' /\ FreeInv'
      /\ main_PG[h].Valid = 0 /\ main_PG'[h] = e
      /\ \A f \in Frame \ {h} : main_PG'[f] = main_PG[f]
  BY Zenon, <1>1, <1>2, <1>4, TakeHead DEF MemInv
<1>6. \A f \in Frame : main_PG[f].Valid = 1 => main_PG'[f] = main_PG[f]
  BY <1>5
<1>7. e.pid = 0
  BY Zenon, <1>2, <1>3, <1>4, <1>5 DEF MemInv, CleanInv
<1>8. CleanInv'
  BY Zenon, <1>2, <1>4, <1>5 DEF MemInv, CleanInv
<1>9. KernelInv'
  BY Zenon, <1>1, <1>2, <1>3, <1>4, <1>5, <1>6, <1>7 DEF MemInv, KernelInv, RestOK
<1>10. \A q \in Proc : OwnedKept(q)
  BY Zenon, <1>6 DEF OwnedKept
<1>11. panicked' = "no"
  BY <1>1, <1>5 DEF alloc_check, alloc_panics
<1>12. RestOK' /\ NoFramePanic' /\ TLBOK(TLB)'
  BY Zenon, <1>1, <1>2, <1>3, <1>11
     DEF RestOK, NoFramePanic, swapvars, tlbvars, procvars, faultvars, Panics
<1> QED BY Zenon, <1>1, <1>5, <1>8, <1>9, <1>10, <1>12, NobodySteps DEF MemInv

(* free_kpages by a kernel thread takes no frame from a process.           *)
LEMMA KernelFreeStep == ASSUME IInv, NEW f \in Frame, kernel_free(f) PROVE IInv'
<1>1. /\ f \in kpages /\ free_kpages(f) /\ kpages' = kpages \ {f}
      /\ UNCHANGED <<swapvars, TLB_PID, cur, procvars, pc, faultvars>>
  BY Zenon DEF kernel_free
<1>2. MemInv /\ RestOK /\ TLBOK(TLB) /\ PidInv
  BY Zenon, Parts
<1>3. main_PG[f].Valid = 1 /\ main_PG[f].pid = 0
  BY Zenon, <1>1, <1>2 DEF MemInv, KernelInv
<1>4. /\ MemOK' /\ FreeInv' /\ TLBOK(TLB)' /\ panicked' = "no"
      /\ main_PG'[f].Valid = 0 /\ main_PG'[f].pid = 0
      /\ \A g \in Frame \ {f} : main_PG'[g] = main_PG[g]
  BY Zenon, <1>1, <1>2, <1>3, FreeOK DEF MemInv
<1>5. CleanInv' /\ KernelInv'
  BY Zenon, <1>1, <1>2, <1>4 DEF MemInv, CleanInv, KernelInv, RestOK
<1>6. ASSUME NEW q \in Proc, pc[q] # "none"
      PROVE  OwnedKept(q)
  <2>1. p_pid[q] # 0 BY <1>2, <1>6 DEF PidInv, RestOK
  <2> QED BY Zenon, <1>3, <1>4, <2>1 DEF OwnedKept
<1>7. RestOK' /\ NoFramePanic'
  BY Zenon, <1>1, <1>2, <1>4 DEF RestOK, NoFramePanic, swapvars, procvars, faultvars, Panics
<1> QED BY Zenon, <1>1, <1>4, <1>5, <1>6, <1>7, NobodySteps DEF MemInv

(* as_destroy frees frames of the exiting process only.                    *)
LEMMA DestroyStep == ASSUME Counting, IInv, NEW p \in Proc, as_destroy(p) PROVE IInv'
<1> DEFINE mine == {f \in Frame : main_PG[f].Valid = 1 /\ main_PG[f].pid = p_pid[p]}
<1>1. pc[p] = "exit" /\ UNCHANGED <<swapvars, TLB_PID, cur, kpages, procvars, faultvars>>
  BY Zenon DEF as_destroy, Running
<1>2. RestOK /\ TLBOK(TLB) /\ NoFramePanic
  BY Zenon, Parts
<1>3. CASE mine # {} /\ free_kpages(Least(mine)) /\ UNCHANGED pc
  <2>1. Least(mine) \in mine
    <3>1. mine \in SUBSET Nat BY PagerAssumption DEF Frame
    <3> QED BY Zenon, <1>3, <3>1, LeastIn
  <2>2. /\ MemOK' /\ FreeInv' /\ CleanInv' /\ KernelInv' /\ TLBOK(TLB)' /\ panicked' = "no"
        /\ \A q \in Proc : q # p /\ pc[q] # "none" => OwnedKept(q)
    BY Zenon, <1>1, <1>3, <2>1, FreeFrame
  <2>3. RestOK' /\ NoFramePanic'
    BY Zenon, <1>1, <1>2, <1>3, <2>2 DEF RestOK, NoFramePanic, swapvars, procvars, faultvars, Panics
  <2>4. /\ Untouched(p) /\ p_pid'[p] = p_pid[p] /\ UNCHANGED <<next_free_pid, progs>>
        /\ pc'[p] = "exit"
    BY Zenon, <1>1, <1>3 DEF Untouched, procvars, faultvars
  <2>5. Work(p)' /\ Kept(p)'
    BY Zenon, <2>4 DEF Work, Kept
  <2> QED BY Zenon, <1>1, <2>2, <2>3, <2>4, <2>5, OneSteps DEF MemInv
<1>4. CASE /\ TLB' = purge_TLB(TLB) /\ pc' = [pc EXCEPT ![p] = "purged"]
           /\ UNCHANGED <<memvars, panicked>>
  <2>1. TLBOK(TLB)'
    BY Zenon, <1>2, <1>4, InvalidateOK
  <2>2. MemInv' /\ \A q \in Proc : OwnedKept(q)
    BY Zenon, <1>1, <1>4, SameMemory
  <2>3. RestOK' /\ NoFramePanic'
    BY Zenon, <1>1, <1>2, <1>4 DEF RestOK, NoFramePanic, swapvars, procvars, faultvars, Points
  <2>4. /\ Untouched(p) /\ p_pid'[p] = p_pid[p] /\ UNCHANGED <<next_free_pid, progs>>
        /\ pc'[p] = "purged"
    BY Zenon, <1>1, <1>2, <1>4 DEF Untouched, RestOK, procvars, faultvars
  <2>5. Work(p)' /\ Kept(p)'
    BY Zenon, <2>4 DEF Work, Kept
  <2> QED BY Zenon, <1>1, <2>1, <2>2, <2>3, <2>4, <2>5, OneSteps
<1> QED BY Zenon, <1>3, <1>4 DEF as_destroy, Goto

(* The exiting thread ends with no frame left.                             *)
LEMMA ExitStep == ASSUME IInv, NEW p \in Proc, as_destroy_done(p) PROVE IInv'
<1>1. /\ pc[p] = "purged" /\ TLB' = set_freeTLBEntries(TLB) /\ thread_exit(p)
      /\ UNCHANGED <<memvars, swapvars, TLB_PID, kpages, next_free_pid, progs, ftype, victim, slot,
                     index, panicked>>
  BY Zenon DEF as_destroy_done, Running
<1>2. RestOK /\ TLBOK(TLB) /\ NoFramePanic
  BY Zenon, Parts
<1>3. TLBOK(TLB)'
  BY Zenon, <1>1, <1>2, InvalidateOK
<1>4. MemInv' /\ \A q \in Proc : OwnedKept(q)
  BY Zenon, <1>1, SameMemory
<1>5. RestOK' /\ NoFramePanic'
  <2>1. 0 \in Pid BY PagerAssumption DEF Pid
  <2> QED BY Zenon, <1>1, <1>2, <2>1 DEF RestOK, NoFramePanic, swapvars, Points, thread_exit, Goto
<1>6. Untouched(p) /\ pc'[p] = "none"
  BY Zenon, <1>1, <1>2 DEF Untouched, RestOK, thread_exit, Goto
<1>7. Work(p)' /\ Kept(p)'
  BY Zenon, <1>6 DEF Work, Kept
<1> QED BY Zenon, <1>1, <1>3, <1>4, <1>5, <1>6, <1>7, OneSteps

(* as_define_region and as_prepare_load take free frames.                  *)
LEMMA DefineStep == ASSUME Counting, IInv, NEW p \in Proc, as_define_region(p) PROVE IInv'
<1> DEFINE pg == fpage[p]
           rest == {m \in Eager : m > pg}
<1>1. /\ pc[p] = "define"
      /\ UNCHANGED <<swapvars, TLB_PID, cur, kpages, procvars, ftype, victim, slot, index>>
  BY Zenon DEF as_define_region, Running
<1>2. RestOK /\ TLBOK(TLB) /\ NoFramePanic /\ Work(p)
  BY Zenon, Parts DEF WorkInv
<1>3. pg \in Page /\ p_pid[p] \in Pid /\ p \in exec
  BY Zenon, <1>1, <1>2 DEF Work, RestOK
<1>4. CASE panicked' = "alloc_pages" /\ UNCHANGED <<memvars, TLB, pc, fpage>>
  <2>1. MemInv' /\ \A q \in Proc : OwnedKept(q)
    BY Zenon, <1>1, <1>4, SameMemory
  <2>2. RestOK' /\ NoFramePanic' /\ TLBOK(TLB)'
    BY Zenon, <1>1, <1>2, <1>4 DEF RestOK, NoFramePanic, swapvars, procvars, Panics
  <2>3. Untouched(p) /\ p_pid'[p] = p_pid[p] /\ UNCHANGED <<next_free_pid, progs>>
    BY Zenon, <1>1, <1>4 DEF Untouched, procvars
  <2>4. Work(p)' /\ Kept(p)'
    BY Zenon, <1>1, <1>2, <1>4 DEF Work, Kept, procvars
  <2> QED BY Zenon, <1>1, <2>1, <2>2, <2>3, <2>4, OneSteps
<1>5. CASE /\ alloc_page(pg, p_pid[p], 1)
           /\ \/ alloc_check /\ TLB' = TLB
              \/ panicked' = "addTLB" /\ TLB' = TLB
              \/ alloc_check /\ TLB' = addTLB(TLB, main_PG', pg, p_pid[p])
           /\ \/ rest # {} /\ fpage' = [fpage EXCEPT ![p] = Least(rest)] /\ pc' = pc
              \/ fpage' = [fpage EXCEPT ![p] = 1] /\ pc' = [pc EXCEPT ![p] = "load"]
  <2>1. /\ MemOK' /\ FreeInv' /\ CleanInv' /\ KernelInv' /\ ~alloc_panics
        /\ \A q \in Proc : OwnedKept(q)
        /\ Head(frame_list) \in FramesOf(main_PG', pg, p_pid[p])
    BY Zenon, <1>1, <1>3, <1>5, AllocFrame
  <2>2. TLBOK(TLB)' /\ panicked' \in {"no", "addTLB"}
    BY <1>2, <1>3, <1>5, <2>1, AddOK DEF MemOK, alloc_check
  <2>3. rest # {} => Least(rest) \in Page
    <3>1. Eager \in SUBSET Page
      BY PagerAssumption DEF Eager, Page
    <3>2. Page \in SUBSET Nat
      BY PagerAssumption DEF Page
    <3>3. rest # {} => Least(rest) \in rest
      BY Zenon, <3>1, <3>2, LeastIn
    <3> QED BY Zenon, <3>1, <3>3
  <2>4. 1 \in Page
    BY PagerAssumption DEF Page
  <2>5. Untouched(p) /\ p_pid'[p] = p_pid[p] /\ UNCHANGED <<next_free_pid, progs>>
    BY Zenon, <1>1, <1>2, <1>5 DEF Untouched, procvars, RestOK
  <2>6. fpage'[p] \in Page /\ pc'[p] \in {"define", "load"} /\ p \in exec'
    BY Zenon, <1>1, <1>2, <1>3, <1>5, <2>3, <2>4 DEF RestOK, procvars
  <2>7. Work(p)' /\ Kept(p)'
    BY Zenon, <2>6 DEF Work, Kept
  <2>8. RestOK' /\ NoFramePanic'
    BY ZenonT(30), <1>1, <1>2, <1>5, <2>2, <2>3, <2>4
       DEF RestOK, NoFramePanic, swapvars, procvars, Panics, Points
  <2> QED BY Zenon, <1>1, <2>1, <2>2, <2>5, <2>7, <2>8, OneSteps DEF MemInv
<1> QED BY Zenon, <1>4, <1>5 DEF as_define_region, panic, Goto

(* The page that load_segment turns to next.                               *)
LEMMA NextPage ==
    ASSUME NEW pg \in Page
    PROVE  /\ pg < LastLoaded(pg) => pg + 1 \in Page
           /\ 1 \in Page /\ NCode + 1 \in Page
<1>1. CASE pg \in Code
  BY <1>1, PagerAssumption DEF Page, Code, LastLoaded
<1>2. CASE pg \notin Code
  BY <1>2, PagerAssumption DEF Page, Code, LastLoaded
<1> QED BY Zenon, <1>1, <1>2

(* load_segment writes to whatever frame the TLB names, and to no other    *)
(* part of the memory.                                                     *)
LEMMA SegmentStep ==
    ASSUME Counting, IInv, NEW p \in Proc, pc[p] = "load", load_segment(p),
           UNCHANGED <<frame_list, main_PG, swapvars, TLB_PID, kpages, next_free_pid, progs>>,
           UNCHANGED <<cur, p_pid, exec, ftype, victim, slot, index>>
    PROVE  IInv'
<1> DEFINE pg   == fpage[p]
           miss == tlb_probe(TLB, pg) = {}
           T    == IF miss THEN addTLB(TLB, main_PG, pg, p_pid[p]) ELSE TLB
           e    == T.ent[Least(tlb_probe(T, pg))]
<1>1. RestOK /\ MemOK /\ TLBOK(TLB) /\ NoFramePanic /\ Work(p) /\ Kept(p)
  BY Zenon, Parts DEF WorkInv, MemInv
<1>2. pg \in Page
  BY Zenon, <1>1 DEF Work
<1>3. ~(miss /\ addTLB_panics(TLB, main_PG, pg, p_pid[p])) => TLBOK(T)
  BY Zenon, <1>1, <1>2, AddOK DEF addTLB_panics, MemOK
<1>4. FreeInv' /\ CleanInv' /\ KernelInv' /\ \A q \in Proc : OwnedKept(q)
  BY Zenon, SameFrames
<1>5. CASE panicked' = "addTLB" /\ UNCHANGED <<ram, TLB, pc, fpage>>
  <2>1. MemOK' /\ RestOK' /\ NoFramePanic' /\ TLBOK(TLB)'
    BY Zenon, <1>1, <1>5 DEF MemOK, RestOK, NoFramePanic, swapvars, Panics
  <2>2. Untouched(p)
    BY Zenon, <1>5 DEF Untouched
  <2>3. Work(p)' /\ Kept(p)'
    BY Zenon, <1>1, <1>5 DEF Work, Kept, FramesOf
  <2> QED BY Zenon, <1>4, <2>1, <2>2, <2>3, OneSteps DEF MemInv
<1>6. CASE /\ ~(miss /\ addTLB_panics(TLB, main_PG, pg, p_pid[p]))
           /\ pc' = [pc EXCEPT ![p] = "exit"] /\ TLB' = T /\ UNCHANGED <<ram, fpage, panicked>>
  <2>1. TLBOK(TLB)'
    BY Zenon, <1>3, <1>6
  <2>2. MemOK' /\ RestOK' /\ NoFramePanic'
    BY Zenon, <1>1, <1>6 DEF MemOK, RestOK, NoFramePanic, swapvars, Points
  <2>3. Untouched(p) /\ pc'[p] = "exit"
    BY Zenon, <1>1, <1>6 DEF Untouched, RestOK
  <2>4. Work(p)' /\ Kept(p)'
    BY Zenon, <2>3 DEF Work, Kept
  <2> QED BY Zenon, <1>4, <2>1, <2>2, <2>3, <2>4, OneSteps DEF MemInv
<1>7. CASE /\ ~(miss /\ addTLB_panics(TLB, main_PG, pg, p_pid[p]))
           /\ ram' = [ram EXCEPT ![e.frame] = Elf(pg)] /\ TLB' = T
           /\ \/ /\ p \in exec /\ pg < LastLoaded(pg)
                 /\ fpage' = [fpage EXCEPT ![p] = pg + 1] /\ pc' = pc
              \/ /\ fpage' = [fpage EXCEPT ![p] = IF p \notin exec THEN pg
                                                  ELSE IF pg \in Code THEN 1 ELSE NCode + 1]
                 /\ pc' = [pc EXCEPT ![p] = "loaded"]
           /\ panicked' = panicked
  <2>1. TLBOK(TLB)'
    BY Zenon, <1>3, <1>7
  <2>2. MemOK'
    <3>1. ram' = [ram EXCEPT ![e.frame] = Elf(pg)]
      BY Zenon, <1>7
    <3>2. Elf(pg) \in Content
      BY Zenon, <1>2, Contents
    <3> HIDE DEF e
    <3> QED BY Zenon, <1>1, <3>1, <3>2 DEF MemOK
  <2>3. \E n \in Page : fpage' = [fpage EXCEPT ![p] = n] /\ (p \notin exec => n = pg)
    BY Zenon, <1>2, <1>7, NextPage
  <2>4. pc' = pc \/ pc' = [pc EXCEPT ![p] = "loaded"]
    BY Zenon, <1>7
  <2>5. RestOK' /\ NoFramePanic'
    BY <1>1, <1>7, <2>3, <2>4 DEF RestOK, NoFramePanic, swapvars, Points
  <2>6. /\ Untouched(p) /\ pc'[p] \in {"load", "loaded"} /\ fpage'[p] \in Page
        /\ p \notin exec => fpage'[p] = fpage[p]
    BY Zenon, <1>1, <2>3, <2>4 DEF Untouched, RestOK
  <2>7. Work(p)'
    BY Zenon, <2>6 DEF Work
  <2>8. Kept(p)'
    BY Zenon, <1>1, <2>6 DEF Kept, FramesOf
  <2> QED BY Zenon, <1>4, <2>1, <2>2, <2>5, <2>6, <2>7, <2>8, OneSteps DEF MemInv
<1> QED BY Zenon, <1>5, <1>6, <1>7 DEF load_segment, panic, Goto

(* Back in user mode the thread has nothing in hand.                       *)
LEMMA ResumeFacts ==
    ASSUME RestOK, NEW p \in Proc, Resume(p)
    PROVE  /\ pc' \in [Proc -> Points] /\ fpage' \in [Proc -> Page \cup {0}]
           /\ ftype' \in [Proc -> {"read", "write"}] /\ victim' \in [Proc -> Frame \cup {0}]
           /\ slot' \in [Proc -> Slot \cup {0}] /\ index' \in [Proc -> Slot \cup {0}]
           /\ \A q \in Proc \ {p} :
                 /\ pc'[q] = pc[q] /\ fpage'[q] = fpage[q] /\ victim'[q] = victim[q]
                 /\ slot'[q] = slot[q] /\ index'[q] = index[q]
           /\ pc'[p] = "user" /\ Work(p)' /\ Kept(p)'
<1>1. pc'[p] = "user"
  BY Zenon DEF RestOK, Resume, Goto
<1>2. Work(p)' /\ Kept(p)'
  BY Zenon, <1>1 DEF Work, Kept
<1> QED BY Zenon, <1>1, <1>2 DEF RestOK, Resume, Goto, Points

(* load_elf, with its error paths, leaves every frame to its owner.        *)
LEMMA LoadStep == ASSUME Counting, IInv, NEW p \in Proc, load_elf(p) PROVE IInv'
<1>1. /\ pc[p] = "load"
      /\ UNCHANGED <<frame_list, main_PG, swapvars, TLB_PID, kpages, next_free_pid, progs>>
  BY Zenon DEF load_elf, Running
<1>2. RestOK /\ MemOK /\ TLBOK(TLB) /\ NoFramePanic /\ Work(p) /\ Kept(p)
  BY Zenon, Parts DEF WorkInv, MemInv
<1>3. FreeInv' /\ CleanInv' /\ KernelInv' /\ \A q \in Proc : OwnedKept(q)
  BY Zenon, <1>1, SameFrames
<1>4. CASE Resume(p) /\ UNCHANGED <<ram, TLB, cur, p_pid, exec, panicked>>
  <2>1. MemOK' /\ TLBOK(TLB)' /\ NoFramePanic'
    BY Zenon, <1>1, <1>2, <1>4 DEF MemOK, NoFramePanic
  <2>2. RestOK'
    BY Zenon, <1>1, <1>2, <1>4, ResumeFacts DEF RestOK, swapvars
  <2>3. Untouched(p) /\ Work(p)' /\ Kept(p)'
    BY Zenon, <1>2, <1>4, ResumeFacts DEF Untouched
  <2> QED BY Zenon, <1>1, <1>3, <1>4, <2>1, <2>2, <2>3, OneSteps DEF MemInv
<1>5. CASE load_segment(p) /\ UNCHANGED <<cur, p_pid, exec, ftype, victim, slot, index>>
  BY Zenon, <1>1, <1>5, SegmentStep
<1>6. CASE thread_exit(p) /\ UNCHANGED <<ram, TLB, ftype, victim, slot, index, panicked>>
  <2>1. MemOK' /\ TLBOK(TLB)' /\ NoFramePanic'
    BY Zenon, <1>1, <1>2, <1>6 DEF MemOK, NoFramePanic
  <2>2. RestOK'
    <3>1. 0 \in Pid BY PagerAssumption DEF Pid
    <3> QED BY Zenon, <1>1, <1>2, <1>6, <3>1 DEF RestOK, swapvars, Points, thread_exit, Goto
  <2>3. Untouched(p) /\ pc'[p] = "none"
    BY Zenon, <1>1, <1>2, <1>6 DEF Untouched, RestOK, thread_exit, Goto
  <2>4. Work(p)' /\ Kept(p)'
    BY Zenon, <2>3 DEF Work, Kept
  <2> QED BY Zenon, <1>1, <1>3, <2>1, <2>2, <2>3, <2>4, OneSteps DEF MemInv
<1>7. CASE panicked' = "killed" /\ UNCHANGED <<ram, TLB, cur, p_pid, exec, pc, faultvars>>
  <2>1. MemOK' /\ TLBOK(TLB)' /\ NoFramePanic' /\ RestOK'
    BY Zenon, <1>1, <1>2, <1>7 DEF MemOK, NoFramePanic, RestOK, swapvars, faultvars, Panics
  <2>2. Untouched(p) /\ Work(p)' /\ Kept(p)'
    BY Zenon, <1>1, <1>2, <1>7 DEF Untouched, Work, Kept, FramesOf, faultvars
  <2> QED BY Zenon, <1>1, <1>3, <1>7, <2>1, <2>2, OneSteps DEF MemInv
<1> QED BY Zenon, <1>4, <1>5, <1>6, <1>7 DEF load_elf, panic

(* Only Dirty bits change: every frame keeps its owner and its page.       *)
LEMMA SameOwners ==
    ASSUME IInv, UNCHANGED <<frame_list, kpages>>,
           \A f \in Frame : /\ main_PG'[f].Valid = main_PG[f].Valid /\ main_PG'[f].pid = main_PG[f].pid
                            /\ main_PG'[f].page_number = main_PG[f].page_number
    PROVE  /\ FreeInv' /\ CleanInv' /\ KernelInv'
           /\ \A q \in Proc : OwnedKept(q)
           /\ \A pg, id : FramesOf(main_PG', pg, id) = FramesOf(main_PG, pg, id)
<1>1. FreeInv /\ CleanInv /\ KernelInv /\ kpages \in SUBSET Frame
  BY Zenon DEF IInv, TypeOK
<1>2. FreeInv' BY ZenonT(30), <1>1 DEF FreeInv, Listed
<1>3. CleanInv' BY Zenon, <1>1 DEF CleanInv
<1>4. KernelInv' BY Zenon, <1>1 DEF KernelInv
<1>5. \A q \in Proc : OwnedKept(q) BY Zenon DEF OwnedKept
<1>6. \A pg, id : FramesOf(main_PG', pg, id) = FramesOf(main_PG, pg, id)
  BY Zenon DEF FramesOf
<1> QED BY Zenon, <1>2, <1>3, <1>4, <1>5, <1>6

(* The end of load_segment changes a Dirty bit and the TLB.                *)
LEMMA ProtectStep == ASSUME Counting, IInv, NEW p \in Proc, protect(p) PROVE IInv'
<1> DEFINE pg == fpage[p]
           T  == removeTLBv1(TLB, pg)
           g  == Least(pageSearch(pg))
<1>1. /\ pc[p] = "loaded"
      /\ \/ pageSearch(pg) # {} /\ main_PG' = [main_PG EXCEPT ![g].Dirty = 0]
         \/ main_PG' = main_PG
      /\ UNCHANGED <<frame_list, ram, swapvars, TLB_PID, cur, kpages, next_free_pid, progs, p_pid>>
  BY Zenon DEF protect, Running
<1>2. RestOK /\ MemOK /\ TLBOK(TLB) /\ NoFramePanic /\ Work(p) /\ Kept(p)
  BY Zenon, Parts DEF WorkInv, MemInv
<1>3. pg \in Page /\ NCode + 1 \in Page
  BY Zenon, <1>1, <1>2, NextPage DEF Work
<1>4. pageSearch(pg) # {} => g \in Frame
  <2>1. pageSearch(pg) \in SUBSET Nat BY PagerAssumption DEF pageSearch, Frame
  <2> QED BY Zenon, <2>1, LeastIn DEF pageSearch
<1>5. /\ main_PG' \in [Frame -> PTE]
      /\ \A f \in Frame : /\ main_PG'[f].Valid = main_PG[f].Valid /\ main_PG'[f].pid = main_PG[f].pid
                          /\ main_PG'[f].page_number = main_PG[f].page_number
  <2> HIDE DEF g
  <2>1. main_PG \in [Frame -> PTE] BY Zenon, <1>2 DEF MemOK
  <2>2. CASE main_PG' = main_PG
    BY Zenon, <2>1, <2>2
  <2>3. CASE pageSearch(pg) # {} /\ main_PG' = [main_PG EXCEPT ![g].Dirty = 0]
    BY <1>4, <2>1, <2>3 DEF PTE
  <2> QED BY Zenon, <1>1, <2>2, <2>3
<1>6. /\ FreeInv' /\ CleanInv' /\ KernelInv' /\ (\A q \in Proc : OwnedKept(q)) /\ MemOK'
      /\ \A n, id : FramesOf(main_PG', n, id) = FramesOf(main_PG, n, id)
  BY Zenon, <1>1, <1>2, <1>5, SameOwners DEF MemOK
<1>7. TLBOK(T)
  BY Zenon, <1>2, RemoveOK
<1>8. CASE panicked' = "addTLB" /\ TLB' = T /\ UNCHANGED <<exec, pc, faultvars>>
  <2>1. TLBOK(TLB)' /\ NoFramePanic' /\ RestOK'
    BY Zenon, <1>1, <1>2, <1>7, <1>8 DEF NoFramePanic, RestOK, swapvars, faultvars, Panics
  <2>2. Untouched(p) /\ Work(p)' /\ Kept(p)'
    BY Zenon, <1>1, <1>2, <1>6, <1>8 DEF Untouched, Work, Kept, faultvars
  <2> QED BY Zenon, <1>1, <1>6, <2>1, <2>2, OneSteps DEF MemInv
<1>9. CASE /\ ~addTLB_panics(T, main_PG', pg, p_pid[p])
           /\ TLB' = addTLB(T, main_PG', pg, p_pid[p]) /\ panicked' = panicked
           /\ \/ /\ p \in exec /\ pc' = [pc EXCEPT ![p] = "load"]
                 /\ fpage' = [fpage EXCEPT ![p] = NCode + 1]
                 /\ UNCHANGED <<exec, ftype, victim, slot, index>>
              \/ Resume(p) /\ exec' = exec \ {p}
  <2>1. TLBOK(TLB)'
    BY Zenon, <1>3, <1>5, <1>7, <1>9, AddOK DEF addTLB_panics
  <2>2. CASE /\ p \in exec /\ pc' = [pc EXCEPT ![p] = "load"]
             /\ fpage' = [fpage EXCEPT ![p] = NCode + 1]
             /\ UNCHANGED <<exec, ftype, victim, slot, index>>
    <3>1. NoFramePanic' /\ RestOK'
      BY Zenon, <1>1, <1>2, <1>3, <1>9, <2>2 DEF NoFramePanic, RestOK, swapvars, Points
    <3>2. Untouched(p) /\ pc'[p] = "load" /\ fpage'[p] \in Page /\ p \in exec'
      BY Zenon, <1>1, <1>2, <1>3, <2>2 DEF Untouched, RestOK
    <3>3. Work(p)' /\ Kept(p)'
      BY Zenon, <3>2 DEF Work, Kept
    <3> QED BY Zenon, <1>1, <1>6, <2>1, <3>1, <3>2, <3>3, OneSteps DEF MemInv
  <2>3. CASE Resume(p) /\ exec' = exec \ {p}
    <3>1. NoFramePanic' /\ RestOK'
      BY Zenon, <1>1, <1>2, <1>9, <2>3, ResumeFacts DEF NoFramePanic, RestOK, swapvars
    <3>2. Untouched(p) /\ Work(p)' /\ Kept(p)'
      BY Zenon, <1>1, <1>2, <2>3, ResumeFacts DEF Untouched
    <3> QED BY Zenon, <1>1, <1>6, <2>1, <3>1, <3>2, OneSteps DEF MemInv
  <2> QED BY Zenon, <1>9, <2>2, <2>3
<1> QED BY Zenon, <1>8, <1>9 DEF protect, panic, Goto

(* A frame that victim_pageSearch finds is valid: a free one has no owner. *)
LEMMA VictimValid ==
    ASSUME IInv, NEW p \in Proc, pc[p] # "none", NEW seg, NEW f \in victim_pageSearch(p, seg)
    PROVE  /\ f \in Frame /\ main_PG[f].Valid = 1 /\ main_PG[f].pid = p_pid[p]
           /\ main_PG[f].page_number \in seg
<1>1. MemInv /\ RestOK /\ PidInv
  BY Zenon, Parts
<1>2. f \in Frame /\ main_PG[f].pid = p_pid[p] /\ main_PG[f].page_number \in seg
  BY Zenon DEF victim_pageSearch
<1>3. p_pid[p] # 0
  BY <1>1 DEF PidInv, RestOK
<1>4. main_PG[f].Valid \in {0, 1}
  BY Zenon, <1>1, <1>2 DEF MemInv, MemOK, PTE
<1> QED BY Zenon, <1>1, <1>2, <1>3, <1>4 DEF MemInv, CleanInv

(* A code fault takes a free frame or one of its own code frames.          *)
LEMMA CodeFaultStep ==
    ASSUME IInv, NEW p \in Proc, NEW pg \in Page, NEW w, fault_code(p, pg, w)
    PROVE  IInv'
<1>1. /\ pc[p] = "user" /\ fpage' = [fpage EXCEPT ![p] = pg]
      /\ UNCHANGED <<swapvars, TLB_PID, cur, kpages, procvars, ftype, victim, slot, index>>
  BY Zenon DEF fault_code, Miss, Running
<1>2. RestOK /\ TLBOK(TLB) /\ NoFramePanic
  BY Zenon, Parts
<1>3. /\ fpage'[p] = pg /\ fpage' \in [Proc -> Page \cup {0}]
      /\ UNCHANGED <<next_free_pid, progs, p_pid, exec>> /\ p_pid[p] \in Pid
  BY Zenon, <1>1, <1>2 DEF RestOK, procvars
<1>4. CASE panicked' \in {"code write", "no victim"} /\ UNCHANGED <<memvars, TLB, pc>>
  <2>1. MemInv' /\ \A q \in Proc : OwnedKept(q)
    BY Zenon, <1>1, <1>4, SameMemory
  <2>2. RestOK' /\ NoFramePanic' /\ TLBOK(TLB)'
    BY Zenon, <1>1, <1>2, <1>3, <1>4 DEF RestOK, NoFramePanic, swapvars, Panics
  <2>3. Untouched(p) /\ Work(p)' /\ Kept(p)'
    BY Zenon, <1>1, <1>2, <1>3, <1>4 DEF Untouched, Work, Kept, RestOK
  <2> QED BY Zenon, <1>1, <1>3, <2>1, <2>2, <2>3, OneSteps
<1>5. CASE /\ alloc_page(pg, p_pid[p], 1) /\ alloc_check
           /\ pc' = [pc EXCEPT ![p] = "load"] /\ UNCHANGED TLB
  <2>1. /\ MemOK' /\ FreeInv' /\ CleanInv' /\ KernelInv' /\ ~alloc_panics
        /\ \A q \in Proc : OwnedKept(q)
        /\ Head(frame_list) \in FramesOf(main_PG', pg, p_pid[p])
    BY Zenon, <1>1, <1>3, <1>5, AllocFrame
  <2>2. RestOK' /\ NoFramePanic' /\ TLBOK(TLB)'
    BY Zenon, <1>1, <1>2, <1>3, <1>5, <2>1 DEF RestOK, NoFramePanic, swapvars, Panics, Points, alloc_check
  <2>3. Untouched(p) /\ pc'[p] = "load"
    BY Zenon, <1>1, <1>2, <1>3, <1>5 DEF Untouched, RestOK
  <2>4. Work(p)' /\ Kept(p)'
    BY Zenon, <1>3, <2>1, <2>3 DEF Work, Kept
  <2> QED BY Zenon, <1>1, <1>3, <2>1, <2>2, <2>3, <2>4, OneSteps DEF MemInv
<1>6. CASE /\ \E f \in victim_pageSearch(p, Code) : free_kpages(f)
           /\ pc' = [pc EXCEPT ![p] = "alloc"]
  <2>1. PICK f \in victim_pageSearch(p, Code) : free_kpages(f)
    BY Zenon, <1>6
  <2>2. f \in Frame /\ main_PG[f].Valid = 1 /\ main_PG[f].pid = p_pid[p]
    BY Zenon, <1>1, VictimValid
  <2>3. /\ MemOK' /\ FreeInv' /\ CleanInv' /\ KernelInv' /\ TLBOK(TLB)' /\ panicked' = "no"
        /\ \A q \in Proc : q # p /\ pc[q] # "none" => OwnedKept(q)
    BY Zenon, <1>1, <2>1, <2>2, FreeFrame
  <2>4. RestOK' /\ NoFramePanic'
    BY Zenon, <1>1, <1>2, <1>3, <1>6, <2>3 DEF RestOK, NoFramePanic, swapvars, Panics, Points
  <2>5. Untouched(p) /\ pc'[p] = "alloc"
    BY Zenon, <1>1, <1>2, <1>3, <1>6 DEF Untouched, RestOK
  <2>6. Work(p)' /\ Kept(p)'
    BY Zenon, <1>3, <2>5 DEF Work, Kept
  <2> QED BY Zenon, <1>1, <1>3, <2>3, <2>4, <2>5, <2>6, OneSteps DEF MemInv
<1> QED BY Zenon, <1>4, <1>5, <1>6 DEF fault_code, panic, Goto

(* swapOut starts with a valid frame of the process and a slot, or the     *)
(* machine panics.                                                         *)
LEMMA SwapOutBegins ==
    ASSUME Counting, IInv, NEW p \in Proc, pc[p] = "user", swapOut_begin(p)
    PROVE  /\ panicked' \in Panics /\ NoFramePanic'
           /\ pc' \in [Proc -> Points] /\ victim' \in [Proc -> Frame \cup {0}]
           /\ slot' \in [Proc -> Slot \cup {0}]
           /\ \A q \in Proc \ {p} : pc'[q] = pc[q] /\ victim'[q] = victim[q] /\ slot'[q] = slot[q]
           /\ \/ pc'[p] = "user"
              \/ /\ pc'[p] = "swapOut" /\ victim'[p] \in Frame /\ slot'[p] \in Slot
                 /\ main_PG[victim'[p]].Valid = 1 /\ main_PG[victim'[p]].pid = p_pid[p]
                 /\ main_PG[victim'[p]].page_number \in Data
<1> DEFINE free == {t \in Slot : sf_list[t] = FreeSlot}
<1>1. RestOK /\ NoFramePanic
  BY Zenon, Parts
<1>2. CASE panicked' \in {"no victim", "out of swap"} /\ UNCHANGED <<pc, victim, slot>>
  BY Zenon, <1>1, <1>2 DEF RestOK, NoFramePanic, Panics
<1>3. CASE /\ free # {}
           /\ \E f \in victim_pageSearch(p, Data) : victim' = [victim EXCEPT ![p] = f]
           /\ slot' = [slot EXCEPT ![p] = Least(free)]
           /\ pc' = [pc EXCEPT ![p] = "swapOut"] /\ panicked' = panicked
  <2>1. PICK f \in victim_pageSearch(p, Data) : victim' = [victim EXCEPT ![p] = f]
    BY Zenon, <1>3
  <2>2. /\ f \in Frame /\ main_PG[f].Valid = 1 /\ main_PG[f].pid = p_pid[p]
        /\ main_PG[f].page_number \in Data
    BY Zenon, VictimValid
  <2>3. Least(free) \in Slot
    <3>1. free \in SUBSET Nat BY PagerAssumption DEF Slot
    <3> QED BY Zenon, <1>3, <3>1, LeastIn
  <2>4. /\ panicked' \in Panics /\ NoFramePanic'
        /\ pc' \in [Proc -> Points] /\ victim' \in [Proc -> Frame \cup {0}]
        /\ slot' \in [Proc -> Slot \cup {0}]
    BY Zenon, <1>1, <1>3, <2>1, <2>2, <2>3 DEF RestOK, NoFramePanic, Points
  <2>5. /\ \A q \in Proc \ {p} : pc'[q] = pc[q] /\ victim'[q] = victim[q] /\ slot'[q] = slot[q]
        /\ pc'[p] = "swapOut" /\ victim'[p] = f /\ slot'[p] = Least(free)
    BY Zenon, <1>1, <1>3, <2>1 DEF RestOK
  <2> QED BY Zenon, <2>2, <2>3, <2>4, <2>5
<1> QED BY Zenon, <1>2, <1>3 DEF swapOut_begin, panic, Goto

(* A data fault that has to swap a page out.                               *)
LEMMA DataFaultSwaps ==
    ASSUME Counting, IInv, NEW p \in Proc, NEW pg \in Page, pc[p] = "user", swapOut_begin(p),
           fpage' = [fpage EXCEPT ![p] = pg], ftype' \in [Proc -> {"read", "write"}],
           index' \in [Proc -> Slot \cup {0}], \A q \in Proc \ {p} : index'[q] = index[q],
           UNCHANGED <<memvars, swapvars, tlbvars, cur, kpages, procvars>>
    PROVE  IInv'
<1>1. RestOK /\ TLBOK(TLB)
  BY Zenon, Parts
<1>2. MemInv' /\ \A q \in Proc : OwnedKept(q)
  BY Zenon, SameMemory
<1>3. fpage'[p] = pg /\ fpage' \in [Proc -> Page \cup {0}]
  BY Zenon, <1>1 DEF RestOK
<1>4. RestOK' /\ NoFramePanic' /\ TLBOK(TLB)'
  BY Zenon, <1>1, <1>3, SwapOutBegins DEF RestOK, swapvars, tlbvars, procvars
<1>5. Untouched(p) /\ p_pid' = p_pid /\ UNCHANGED <<next_free_pid, progs>>
  BY Zenon, <1>1, SwapOutBegins DEF Untouched, RestOK, procvars
<1>6. Work(p)' /\ Kept(p)'
  BY Zenon, <1>3, <1>5, SwapOutBegins DEF Work, Kept, memvars
<1> QED BY Zenon, <1>2, <1>4, <1>5, <1>6, OneSteps

(* A fault on a new data page takes a frame or starts swapOut.             *)
LEMMA NewDataStep ==
    ASSUME Counting, IInv, NEW p \in Proc, NEW pg \in Page, NEW w \in {"read", "write"},
           fault_data_new(p, pg, w)
    PROVE  IInv'
<1>1. /\ pc[p] = "user" /\ fpage' = [fpage EXCEPT ![p] = pg] /\ ftype' = [ftype EXCEPT ![p] = w]
      /\ UNCHANGED <<swapvars, tlbvars, cur, kpages, procvars, index>>
  BY Zenon DEF fault_data_new, Miss, Running
<1>2. RestOK /\ TLBOK(TLB) /\ NoFramePanic
  BY Zenon, Parts
<1>3. /\ fpage'[p] = pg /\ fpage' \in [Proc -> Page \cup {0}]
      /\ ftype' \in [Proc -> {"read", "write"}] /\ p_pid[p] \in Pid
      /\ UNCHANGED <<next_free_pid, progs, p_pid, exec>>
  BY Zenon, <1>1, <1>2 DEF RestOK, procvars
<1>4. CASE /\ alloc_page(pg, p_pid[p], 1) /\ alloc_check
           /\ pc' = [pc EXCEPT ![p] = "load"] /\ UNCHANGED <<victim, slot>>
  <2>1. /\ MemOK' /\ FreeInv' /\ CleanInv' /\ KernelInv' /\ ~alloc_panics
        /\ \A q \in Proc : OwnedKept(q)
        /\ Head(frame_list) \in FramesOf(main_PG', pg, p_pid[p])
    BY Zenon, <1>1, <1>3, <1>4, AllocFrame
  <2>2. RestOK' /\ NoFramePanic' /\ TLBOK(TLB)'
    BY Zenon, <1>1, <1>2, <1>3, <1>4, <2>1
       DEF RestOK, NoFramePanic, swapvars, tlbvars, Panics, Points, alloc_check
  <2>3. Untouched(p) /\ pc'[p] = "load"
    BY Zenon, <1>1, <1>2, <1>3, <1>4 DEF Untouched, RestOK
  <2>4. Work(p)' /\ Kept(p)'
    BY Zenon, <1>3, <2>1, <2>3 DEF Work, Kept
  <2> QED BY Zenon, <1>1, <1>3, <2>1, <2>2, <2>3, <2>4, OneSteps DEF MemInv
<1>5. CASE swapOut_begin(p) /\ UNCHANGED memvars
  BY Zenon, <1>1, <1>2, <1>3, <1>5, DataFaultSwaps DEF RestOK
<1> QED BY Zenon, <1>4, <1>5 DEF fault_data_new, Goto

(* A fault on a swapped page always starts swapOut.                        *)
LEMMA SwappedDataStep ==
    ASSUME Counting, IInv, NEW p \in Proc, NEW pg \in Page, NEW w \in {"read", "write"},
           fault_data_swapped(p, pg, w)
    PROVE  IInv'
<1> DEFINE S == {t \in Slot : sf_list[t].p_number = pg /\ sf_list[t].p_pid = p_pid[p]}
<1>1. /\ pc[p] = "user" /\ fpage' = [fpage EXCEPT ![p] = pg] /\ ftype' = [ftype EXCEPT ![p] = w]
      /\ S # {} /\ index' = [index EXCEPT ![p] = Least(S)] /\ swapOut_begin(p)
      /\ UNCHANGED <<memvars, swapvars, tlbvars, cur, kpages, procvars>>
  BY Zenon DEF fault_data_swapped, Miss, Running
<1>2. RestOK
  BY Zenon, Parts
<1>3. Least(S) \in Slot
  <2>1. S \in SUBSET Nat BY PagerAssumption DEF Slot
  <2> QED BY Zenon, <1>1, <2>1, LeastIn
<1>4. /\ ftype' \in [Proc -> {"read", "write"}] /\ index' \in [Proc -> Slot \cup {0}]
      /\ \A q \in Proc \ {p} : index'[q] = index[q]
  BY Zenon, <1>1, <1>2, <1>3 DEF RestOK
<1> QED BY Zenon, <1>1, <1>4, DataFaultSwaps

(* The disk write of swapOut, and its failure.                             *)
LEMMA SwapOutStep == ASSUME IInv, NEW p \in Proc, swapOut(p) PROVE IInv'
<1>1. /\ pc[p] = "swapOut" /\ UNCHANGED <<memvars, sf_list, tlbvars, cur, kpages, procvars>>
  BY Zenon DEF swapOut, Running
<1>2. RestOK /\ MemOK /\ TLBOK(TLB) /\ NoFramePanic /\ Work(p) /\ Kept(p)
  BY Zenon, Parts DEF WorkInv, MemInv
<1>3. MemInv' /\ (\A q \in Proc : OwnedKept(q)) /\ TLBOK(TLB)'
  BY Zenon, <1>1, <1>2, SameMemory DEF tlbvars
<1>4. UNCHANGED <<next_free_pid, progs, p_pid, exec>>
  BY Zenon, <1>1 DEF procvars
<1>5. CASE /\ \/ disk' = [disk EXCEPT ![slot[p]] = ram[victim[p]]] /\ pc' = [pc EXCEPT ![p] = "swapped"]
              \/ disk' = disk /\ pc' = [pc EXCEPT ![p] = "alloc"]
           /\ UNCHANGED <<faultvars, panicked>>
  <2>1. ram[victim[p]] \in Content
    BY Zenon, <1>1, <1>2 DEF Work, MemOK
  <2>2. disk' \in [Slot -> Content] /\ pc' \in [Proc -> Points]
    BY Zenon, <1>2, <1>5, <2>1 DEF RestOK, Points
  <2>3. RestOK' /\ NoFramePanic'
    BY Zenon, <1>1, <1>2, <1>5, <2>2 DEF RestOK, NoFramePanic, faultvars, tlbvars, procvars
  <2>4. Untouched(p) /\ pc'[p] \in {"swapped", "alloc"}
    BY Zenon, <1>2, <1>4, <1>5 DEF Untouched, RestOK, faultvars
  <2>5. Work(p)' /\ Kept(p)'
    BY Zenon, <1>1, <1>2, <1>5, <2>4 DEF Work, Kept, faultvars, procvars, memvars
  <2> QED BY Zenon, <1>1, <1>3, <1>4, <2>3, <2>4, <2>5, OneSteps
<1>6. CASE panicked' = "killed" /\ UNCHANGED <<disk, faultvars, pc>>
  <2>1. RestOK' /\ NoFramePanic'
    BY Zenon, <1>1, <1>2, <1>6 DEF RestOK, NoFramePanic, faultvars, tlbvars, procvars, Panics
  <2>2. Untouched(p) /\ Work(p)' /\ Kept(p)'
    BY Zenon, <1>1, <1>2, <1>4, <1>6 DEF Untouched, Work, Kept, faultvars, memvars
  <2> QED BY Zenon, <1>1, <1>3, <1>4, <2>1, <2>2, OneSteps
<1>7. CASE Resume(p) /\ UNCHANGED <<disk, panicked>>
  <2>1. RestOK' /\ NoFramePanic'
    BY Zenon, <1>1, <1>2, <1>7, ResumeFacts DEF RestOK, NoFramePanic, tlbvars, procvars
  <2>2. Untouched(p) /\ Work(p)' /\ Kept(p)'
    BY Zenon, <1>2, <1>4, <1>7, ResumeFacts DEF Untouched
  <2> QED BY Zenon, <1>1, <1>3, <1>4, <2>1, <2>2, OneSteps
<1> QED BY Zenon, <1>5, <1>6, <1>7 DEF swapOut, panic, Goto

(* The end of swapOut frees the frame it chose, which is still its own.    *)
LEMMA SwapOutDoneStep == ASSUME IInv, NEW p \in Proc, swapOut_done(p) PROVE IInv'
<1> DEFINE v == main_PG[victim[p]]
           s == [p_number |-> v.page_number, p_pid |-> v.pid, Dirty |-> v.Dirty]
<1>1. /\ pc[p] = "swapped" /\ sf_list' = [sf_list EXCEPT ![slot[p]] = s]
      /\ free_kpages(victim[p])
      /\ pc' = [pc EXCEPT ![p] = IF index[p] = 0 THEN "alloc" ELSE "swapIn"]
      /\ UNCHANGED <<disk, TLB_PID, cur, kpages, procvars, faultvars>>
  BY Zenon DEF swapOut_done, Running, Goto
<1>2. RestOK /\ MemOK /\ Work(p) /\ Kept(p)
  BY Zenon, Parts DEF WorkInv, MemInv
<1>3. victim[p] \in Frame /\ v.Valid = 1 /\ v.pid = p_pid[p] /\ fpage[p] \in Page
  BY Zenon, <1>1, <1>2 DEF Work, Kept
<1>4. s \in SwapEnt
  BY Zenon, <1>2, <1>3 DEF MemOK, PTE, SwapEnt
<1>5. sf_list' \in [Slot -> SwapEnt]
  <2> HIDE DEF s
  <2> QED BY Zenon, <1>1, <1>2, <1>4 DEF RestOK
<1>6. /\ MemOK' /\ FreeInv' /\ CleanInv' /\ KernelInv' /\ TLBOK(TLB)' /\ panicked' = "no"
      /\ \A q \in Proc : q # p /\ pc[q] # "none" => OwnedKept(q)
  BY Zenon, <1>1, <1>3, FreeFrame
<1>7. RestOK' /\ NoFramePanic'
  BY Zenon, <1>1, <1>2, <1>5, <1>6 DEF RestOK, NoFramePanic, faultvars, procvars, Panics, Points
<1>8. /\ Untouched(p) /\ UNCHANGED <<next_free_pid, progs, p_pid, exec, fpage, index>>
      /\ pc'[p] = IF index[p] = 0 THEN "alloc" ELSE "swapIn"
  BY Zenon, <1>1, <1>2 DEF Untouched, RestOK, faultvars, procvars
<1>9. Work(p)' /\ Kept(p)'
  <2>1. index[p] \in Slot \cup {0} BY Zenon, <1>2 DEF RestOK
  <2> QED BY Zenon, <1>3, <1>8, <2>1 DEF Work, Kept
<1> QED BY Zenon, <1>1, <1>6, <1>7, <1>8, <1>9, OneSteps DEF MemInv

(* The second allocation of vm_fault.                                      *)
LEMMA AllocAgainStep == ASSUME IInv, NEW p \in Proc, alloc_again(p) PROVE IInv'
<1>1. pc[p] = "alloc" /\ UNCHANGED <<swapvars, tlbvars, cur, kpages, procvars, faultvars>>
  BY Zenon DEF alloc_again, Running
<1>2. RestOK /\ TLBOK(TLB) /\ NoFramePanic /\ Work(p)
  BY Zenon, Parts DEF WorkInv
<1>3. fpage[p] \in Page /\ p_pid[p] \in Pid
  BY Zenon, <1>1, <1>2 DEF Work, RestOK
<1>4. UNCHANGED <<next_free_pid, progs, p_pid, exec, fpage>> /\ TLBOK(TLB)'
  BY Zenon, <1>1, <1>2 DEF procvars, faultvars, tlbvars
<1>5. CASE /\ alloc_page(fpage[p], p_pid[p], 1) /\ alloc_check
           /\ pc' = [pc EXCEPT ![p] = "load"]
  <2>1. /\ MemOK' /\ FreeInv' /\ CleanInv' /\ KernelInv' /\ ~alloc_panics
        /\ \A q \in Proc : OwnedKept(q)
        /\ Head(frame_list) \in FramesOf(main_PG', fpage[p], p_pid[p])
    BY Zenon, <1>1, <1>3, <1>5, AllocFrame
  <2>2. RestOK' /\ NoFramePanic'
    BY Zenon, <1>1, <1>2, <1>5, <2>1
       DEF RestOK, NoFramePanic, swapvars, tlbvars, procvars, faultvars, Panics, Points, alloc_check
  <2>3. Untouched(p) /\ pc'[p] = "load"
    BY Zenon, <1>1, <1>2, <1>4, <1>5 DEF Untouched, RestOK, faultvars
  <2>4. Work(p)' /\ Kept(p)'
    BY Zenon, <1>3, <1>4, <2>1, <2>3 DEF Work, Kept
  <2> QED BY Zenon, <1>1, <1>4, <2>1, <2>2, <2>3, <2>4, OneSteps DEF MemInv
<1>6. CASE panicked' = "wild frame" /\ UNCHANGED <<memvars, pc>>
  <2>1. MemInv' /\ \A q \in Proc : OwnedKept(q)
    BY Zenon, <1>1, <1>6, SameMemory
  <2>2. RestOK' /\ NoFramePanic'
    BY Zenon, <1>1, <1>2, <1>6 DEF RestOK, NoFramePanic, swapvars, tlbvars, procvars, faultvars, Panics
  <2>3. Untouched(p) /\ Work(p)' /\ Kept(p)'
    BY Zenon, <1>1, <1>3, <1>4, <1>6 DEF Untouched, Work, Kept, faultvars
  <2> QED BY Zenon, <1>1, <1>4, <2>1, <2>2, <2>3, OneSteps
<1> QED BY Zenon, <1>5, <1>6 DEF alloc_again, panic, Goto

(* swapIn takes a free frame for the page.                                 *)
LEMMA SwapInStep == ASSUME Counting, IInv, NEW p \in Proc, swapIn(p) PROVE IInv'
<1> DEFINE s == sf_list[index[p]]
<1>1. /\ pc[p] = "swapIn"
      /\ UNCHANGED <<swapvars, TLB_PID, cur, kpages, procvars, fpage, ftype, slot, index>>
  BY Zenon DEF swapIn, Running
<1>2. RestOK /\ TLBOK(TLB) /\ NoFramePanic /\ Work(p)
  BY Zenon, Parts DEF WorkInv
<1>3. fpage[p] \in Page /\ index[p] \in Slot
  BY Zenon, <1>1, <1>2 DEF Work
<1>4. s.p_number \in Page \cup {0} /\ s.p_pid \in Pid /\ s.Dirty \in {0, 1}
  BY Zenon, <1>2, <1>3 DEF RestOK, SwapEnt
<1>5. UNCHANGED <<next_free_pid, progs, p_pid, exec>>
  BY Zenon, <1>1 DEF procvars
<1>6. CASE panicked' = "swapIn" /\ UNCHANGED <<memvars, TLB, pc, victim>>
  <2>1. MemInv' /\ \A q \in Proc : OwnedKept(q)
    BY Zenon, <1>1, <1>6, SameMemory
  <2>2. RestOK' /\ NoFramePanic' /\ TLBOK(TLB)'
    BY Zenon, <1>1, <1>2, <1>6 DEF RestOK, NoFramePanic, swapvars, procvars, Panics
  <2>3. Untouched(p) /\ Work(p)' /\ Kept(p)'
    BY Zenon, <1>1, <1>3, <1>5, <1>6 DEF Untouched, Work, Kept
  <2> QED BY Zenon, <1>1, <1>5, <2>1, <2>2, <2>3, OneSteps
<1>7. CASE /\ alloc_page(s.p_number, s.p_pid, s.Dirty)
           /\ victim' = [victim EXCEPT ![p] = Head(frame_list)]
           /\ \/ panicked' = "addTLB" /\ UNCHANGED <<TLB, pc>>
              \/ /\ TLB' = addTLB(TLB, main_PG', s.p_number, s.p_pid)
                 /\ alloc_check /\ pc' = [pc EXCEPT ![p] = "readIn"]
  <2>1. /\ MemOK' /\ FreeInv' /\ CleanInv' /\ KernelInv' /\ ~alloc_panics
        /\ \A q \in Proc : OwnedKept(q)
        /\ Head(frame_list) \in FramesOf(main_PG', s.p_number, s.p_pid)
        /\ Head(frame_list) \in Frame
    BY Zenon, <1>1, <1>4, <1>7, AllocFrame
  <2>2. TLBOK(TLB)' /\ panicked' \in {"no", "addTLB"}
    <3>1. main_PG' \in [Frame -> PTE] /\ FramesOf(main_PG', s.p_number, s.p_pid) # {}
      BY Zenon, <2>1 DEF MemOK
    <3>2. TLBOK(addTLB(TLB, main_PG', s.p_number, s.p_pid))
      <4> HIDE DEF s
      <4> QED BY Zenon, <1>2, <1>4, <3>1, AddOK
    <3>3. TLB' = TLB \/ TLB' = addTLB(TLB, main_PG', s.p_number, s.p_pid)
      BY Zenon, <1>7
    <3>4. panicked' \in {"no", "addTLB"}
      BY Zenon, <1>7, <2>1 DEF alloc_check
    <3> QED BY Zenon, <1>2, <3>2, <3>3, <3>4
  <2>3. pc' = pc \/ pc' = [pc EXCEPT ![p] = "readIn"]
    BY Zenon, <1>7
  <2>4. victim' \in [Proc -> Frame \cup {0}] /\ victim'[p] \in Frame
    BY Zenon, <1>2, <1>7, <2>1 DEF RestOK
  <2>5. RestOK' /\ NoFramePanic'
    BY Zenon, <1>1, <1>2, <2>2, <2>3, <2>4 DEF RestOK, NoFramePanic, swapvars, procvars, Panics, Points
  <2>6. Untouched(p) /\ pc'[p] \in {"swapIn", "readIn"}
    BY Zenon, <1>1, <1>2, <1>5, <1>7, <2>3 DEF Untouched, RestOK
  <2>7. Work(p)' /\ Kept(p)'
    BY Zenon, <1>1, <1>3, <2>4, <2>6 DEF Work, Kept
  <2> QED BY Zenon, <1>1, <1>5, <2>1, <2>2, <2>5, <2>6, <2>7, OneSteps DEF MemInv
<1> QED BY Zenon, <1>6, <1>7 DEF swapIn, panic, Goto

(* The disk read of swapIn, and its failure.                               *)
LEMMA SwapInReadStep == ASSUME IInv, NEW p \in Proc, swapIn_read(p) PROVE IInv'
<1>1. /\ pc[p] = "readIn" /\ Resume(p)
      /\ UNCHANGED <<frame_list, main_PG, disk, tlbvars, cur, kpages, procvars, panicked>>
      /\ \/ /\ ram' = [ram EXCEPT ![victim[p]] = disk[index[p]]]
            /\ sf_list' = [sf_list EXCEPT ![index[p]] = FreeSlot]
         \/ UNCHANGED <<ram, sf_list>>
  BY Zenon DEF swapIn_read, Running
<1>2. RestOK /\ MemOK /\ TLBOK(TLB) /\ NoFramePanic /\ Work(p)
  BY Zenon, Parts DEF WorkInv, MemInv
<1>3. index[p] \in Slot /\ disk[index[p]] \in Content
  BY Zenon, <1>1, <1>2 DEF Work, RestOK
<1>4. MemOK'
  BY Zenon, <1>1, <1>2, <1>3 DEF MemOK
<1>5. FreeInv' /\ CleanInv' /\ KernelInv' /\ \A q \in Proc : OwnedKept(q)
  BY Zenon, <1>1, SameFrames
<1>6. sf_list' \in [Slot -> SwapEnt]
  <2>1. FreeSlot \in SwapEnt BY PagerAssumption DEF FreeSlot, SwapEnt, Pid
  <2> QED BY Zenon, <1>1, <1>2, <2>1 DEF RestOK
<1>7. RestOK' /\ NoFramePanic' /\ TLBOK(TLB)'
  BY Zenon, <1>1, <1>2, <1>6, ResumeFacts DEF RestOK, NoFramePanic, tlbvars, procvars
<1>8. Untouched(p) /\ Work(p)' /\ Kept(p)' /\ UNCHANGED <<next_free_pid, progs, p_pid>>
  BY Zenon, <1>1, <1>2, ResumeFacts DEF Untouched, procvars
<1> QED BY Zenon, <1>1, <1>4, <1>5, <1>7, <1>8, OneSteps DEF MemInv

-----------------------------------------------------------------------------
(* The theorems *)

(* After vm_bootstrap and swapfile_init every frame and slot is free.      *)
LEMMA InitIInv == ASSUME Init, MaxProgs < PidSpace PROVE IInv
<1>1. frame_list \in Seq(Frame) /\ Len(frame_list) = NFrames /\ \A i \in Frame : frame_list[i] = i
  BY PagerAssumption DEF Init, Frame
<1>2. Free \in PTE /\ FreeSlot \in SwapEnt /\ 0 \in Pid /\ 1 % PidSpace \in Pid
  BY PagerAssumption DEF Free, PTE, FreeSlot, SwapEnt, Pid
<1>3. MemOK
  BY Zenon, <1>1, <1>2, Contents DEF Init, MemOK
<1>4. FreeInv
  <2>1. Listed = Frame
    BY Zenon, <1>1 DEF Listed, Frame
  <2> QED BY Zenon, <1>1, <2>1 DEF FreeInv, Init, Free, Frame
<1>5. CleanInv /\ KernelInv
  BY Zenon DEF Init, CleanInv, KernelInv, Free
<1>6. TLBOK(TLB)
  <2> DEFINE E == [i \in Index |-> Invalid]
  <2>1. TLB = [ent |-> E, freeTLBEntries |-> NUM_TLB, next_victim |-> 0]
    BY Zenon DEF Init
  <2>2. E \in [Index -> Entry]
    BY Zenon, Entries
  <2> HIDE DEF E
  <2> QED BY Zenon, <2>1, <2>2, IndexFacts DEF TLBOK
<1>7. RestOK /\ NoFramePanic
  BY <1>2, Contents, PagerAssumption DEF Init, RestOK, NoFramePanic, Panics, Points
<1>8. WorkInv
  BY Zenon DEF Init, WorkInv, Work, Kept
<1>9. PidInv
  <2>1. 0 < MaxProgs => 1 % PidSpace = 1
    BY ModSmall, PagerAssumption
  <2> QED BY <2>1 DEF Init, PidInv
<1> QED BY Zenon, <1>3, <1>4, <1>5, <1>6, <1>7, <1>8, <1>9, Parts DEF MemInv

(* Every step keeps the invariant.                                         *)
LEMMA NextIInv == ASSUME Counting, IInv, MaxProgs < PidSpace, [Next]_vars PROVE IInv'
<1>1. CASE UNCHANGED vars
  <2>1. UNCHANGED <<memvars, swapvars, tlbvars, cur, kpages, procvars, pc, faultvars, panicked>>
    BY Zenon, <1>1 DEF vars
  <2>2. RestOK /\ NoFramePanic /\ TLBOK(TLB)
    BY Zenon, Parts
  <2>3. MemInv' /\ \A q \in Proc : OwnedKept(q)
    BY Zenon, <2>1, SameMemory
  <2>4. RestOK' /\ NoFramePanic' /\ TLBOK(TLB)'
    BY Zenon, <2>1, <2>2 DEF RestOK, NoFramePanic, swapvars, tlbvars, procvars, faultvars
  <2> QED BY Zenon, <2>1, <2>3, <2>4, NobodySteps
<1>2. CASE kernel_alloc
  BY Zenon, <1>2, KernelAllocStep
<1>3. CASE \E f \in Frame : kernel_free(f)
  BY Zenon, <1>3, KernelFreeStep
<1>4. ASSUME NEW p \in Proc, proc_create(p) \/ thread_switch(p)
      PROVE  IInv'
  BY Zenon, <1>4, CreateStep, SwitchStep
<1>5. ASSUME NEW p \in Proc, KernelStep(p)
      PROVE  IInv'
  BY Zenon, <1>5, RunStep, DefineStep, LoadStep, ProtectStep, SwapOutStep, SwapOutDoneStep, AllocAgainStep,
     SwapInStep, SwapInReadStep, DestroyStep, ActivateStep, ExitStep DEF KernelStep
<1>6. ASSUME NEW p \in Proc, UserStep(p)
      PROVE  IInv'
  BY Zenon, <1>6, ExitCallStep, StoreStep, ReloadStep, CodeFaultStep, NewDataStep, SwappedDataStep
     DEF UserStep
<1> QED BY Zenon, <1>1, <1>2, <1>3, <1>4, <1>5, <1>6 DEF Next, halted, idle

=============================================================================
