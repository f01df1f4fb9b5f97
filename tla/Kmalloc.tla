------------------------------ MODULE Kmalloc ------------------------------
(***************************************************************************)
(* The kernel heap (vm/kmalloc.c): blocks of a few sizes on pages that are *)
(* got from alloc_kpages, each page described by a pageref, the pagerefs   *)
(* themselves on pages of their own.  kmalloc_spinlock is held over each   *)
(* step here; it is released wherever the code calls alloc_kpages or       *)
(* free_kpages, and other threads run in between.  The page allocator is   *)
(* FrameList; here it hands out a free page, or none.  The calls it makes  *)
(* back into the heap happen with the spinlock released, as those of       *)
(* another thread do.                                                      *)
(***************************************************************************)
EXTENDS Naturals, Sequences, FiniteSets, FiniteSetsExt, SequencesExt

CONSTANTS
    Thread,
    NPages,        \* the frames alloc_kpages has
    Sizes,         \* sizes[], the last is LARGEST_SUBPAGE_SIZE
    PageSize,
    Ask,           \* the sizes asked for
    Roots,         \* NUM_PAGEREFPAGES
    PerRoot,       \* NPAGEREFS_PER_PAGE
    MaxOps, MaxFaulty

VARIABLES
    pool,          \* the pages alloc_kpages can hand out, a stack
    kheaproots,    \* [page, inuse]
    pageref,       \* [page, type, free, nfree]
    sizebases, allbase,
    held,          \* what callers of kmalloc have: [page, at, sz], sz what they asked for
    loc,           \* of every thread: subpage_kmalloc, subpage_kfree: [pc, sz, va, va2, ref]
    wasted,        \* ghost: pagerefs taken when their page could not be had
    ops, faulty, panicked

vars == <<pool, kheaproots, pageref, sizebases, allbase, held, loc, wasted, ops, faulty,
          panicked>>


NoPage == 0
Page == 1..NPages
Type == DOMAIN Sizes
Ref == (1..Roots) \X (0..(PerRoot - 1))
NoRef == <<0, 0>>
Rest == [pc |-> "idle", sz |-> 0, va |-> NoPage, va2 |-> NoPage, ref |-> NoRef]
(* A pageref that is not in use (its contents do not matter).              *)
Blank == [page |-> NoPage, type |-> 1, free |-> <<>>, nfree |-> 0]
Blocks(ty) == PageSize \div Sizes[ty]

Init ==
    /\ pool = [p \in Page |-> p]
    /\ kheaproots = [r \in 1..Roots |-> [page |-> NoPage, inuse |-> {}]]
    /\ pageref = [p \in Ref |-> Blank]
    /\ sizebases = [ty \in Type |-> <<>>] /\ allbase = <<>>
    /\ held = {}
    /\ loc = [t \in Thread |-> Rest]
    /\ wasted = {} /\ ops = 0 /\ faulty = 0 /\ panicked = FALSE

Goto(t, l) == loc' = [loc EXCEPT ![t].pc = l]
Return(t) == loc' = [loc EXCEPT ![t] = Rest]
At(t, l) == loc[t].pc = l /\ ~panicked
Asks == ops < MaxOps /\ ops' = ops + 1
(* alloc_kpages(1) returns p, the free page on top, or NULL; free_kpages.  *)
Gets(p) ==
    \/ pool # <<>> /\ p = Head(pool) /\ pool' = Tail(pool) /\ UNCHANGED faulty
    \/ p = NoPage /\ pool = <<>> /\ UNCHANGED <<pool, faulty>>
    \/ p = NoPage /\ pool # <<>> /\ faulty < MaxFaulty /\ faulty' = faulty + 1 /\ UNCHANGED pool
Gives(p) == pool' = <<p>> \o pool

(* The smallest block that will do.                                        *)
blocktype(n) == Min({ty \in Type : n <= Sizes[ty]})

-----------------------------------------------------------------------------
(* doalloc: the first block of the free list of pageref p goes to the      *)
(* caller.                                                                 *)
Block(page, ty, b, n) == [page |-> page, at |-> b * Sizes[ty], sz |-> n]

doalloc(t, n, refs, p) ==
    /\ pageref' = [refs EXCEPT ![p].free = Tail(@), ![p].nfree = @ - 1]
    /\ held' = held \cup {Block(refs[p].page, refs[p].type, Head(refs[p].free), n)}
    /\ panicked' = ((Len(refs[p].free) > 1) # (refs[p].nfree > 1))
    /\ Return(t)

(* kmalloc: a large request takes a page of its own.                       *)
kmalloc_page(t, n, p) ==
    /\ At(t, "idle") /\ Asks /\ n >= Sizes[Len(Sizes)]
    /\ Gets(p)
    /\ held' = IF p = NoPage THEN held ELSE held \cup {[page |-> p, at |-> 0, sz |-> n]}
    /\ UNCHANGED <<kheaproots, pageref, sizebases, allbase, loc, wasted, panicked>>

(* subpage_kmalloc: the first page of the size that has a free block, or a *)
(* new page.                                                               *)
Partial(ty) == SelectSeq(sizebases[ty], LAMBDA p : pageref[p].nfree > 0)

subpage_kmalloc(t, n) ==
    /\ At(t, "idle") /\ Asks /\ n < Sizes[Len(Sizes)]
    /\ IF Partial(blocktype(n)) # <<>> THEN doalloc(t, n, pageref, Head(Partial(blocktype(n))))
       ELSE /\ loc' = [loc EXCEPT ![t].pc = "getpage", ![t].sz = n]
            /\ UNCHANGED <<pageref, held, panicked>>
    /\ UNCHANGED <<pool, kheaproots, sizebases, allbase, wasted, faulty>>

GetPage(t, p) ==
    /\ At(t, "getpage") /\ Gets(p)
    /\ IF p = NoPage THEN Return(t) ELSE loc' = [loc EXCEPT ![t].pc = "ref", ![t].va = p]
    /\ UNCHANGED <<kheaproots, pageref, sizebases, allbase, held, wasted, ops, panicked>>

(* The new page is carved into blocks and put first on both lists.         *)
Carve(page, ty) == [page |-> page, type |-> ty, nfree |-> Blocks(ty),
                    free |-> [k \in 1..Blocks(ty) |-> Blocks(ty) - k]]

NewPage(t, p) ==
    /\ sizebases' = [sizebases EXCEPT ![blocktype(loc[t].sz)] = <<p>> \o @]
    /\ allbase' = <<p>> \o allbase
    /\ doalloc(t, loc[t].sz, [pageref EXCEPT ![p] = Carve(loc[t].va, blocktype(loc[t].sz))], p)

(* allocpageref: the first free pageref of the first root that has one is  *)
(* taken before its page is known to exist.                                *)
Roomy == {r \in 1..Roots : Cardinality(kheaproots[r].inuse) < PerRoot}
FreeRef == LET r == Min(Roomy) IN <<r, Min((0..(PerRoot - 1)) \ kheaproots[r].inuse)>>
Take(p) == [kheaproots EXCEPT ![p[1]].inuse = @ \cup {p[2]}]

(* Mistake: the pageref is not marked while its page is fetched.           *)
allocpageref_late(t) ==
    /\ At(t, "ref")
    /\ IF Roomy = {}
       THEN /\ Goto(t, "giveback")
            /\ UNCHANGED <<kheaproots, pageref, sizebases, allbase, held, panicked>>
       ELSE IF kheaproots[FreeRef[1]].page # NoPage
            THEN NewPage(t, FreeRef) /\ kheaproots' = Take(FreeRef)
            ELSE /\ loc' = [loc EXCEPT ![t].pc = "refpage", ![t].ref = FreeRef]
                 /\ UNCHANGED <<kheaproots, pageref, sizebases, allbase, held, panicked>>
    /\ UNCHANGED <<pool, wasted, ops, faulty>>

allocpageref(t) ==
    /\ At(t, "ref")
    /\ IF Roomy = {}
       THEN /\ Goto(t, "giveback")
            /\ UNCHANGED <<kheaproots, pageref, sizebases, allbase, held, panicked>>
       ELSE /\ kheaproots' = Take(FreeRef)
            /\ IF kheaproots[FreeRef[1]].page # NoPage THEN NewPage(t, FreeRef)
               ELSE /\ loc' = [loc EXCEPT ![t].pc = "refpage", ![t].ref = FreeRef]
                    /\ UNCHANGED <<pageref, sizebases, allbase, held, panicked>>
    /\ UNCHANGED <<pool, wasted, ops, faulty>>

(* allocpagerefpage: the page is got without the lock; if another thread   *)
(* has set it meanwhile, this one goes back.                               *)
allocpagerefpage(t, p) ==
    /\ At(t, "refpage") /\ Gets(p)
    /\ loc' = [loc EXCEPT ![t].pc = "refgot", ![t].va2 = p]
    /\ UNCHANGED <<kheaproots, pageref, sizebases, allbase, held, wasted, ops, panicked>>

(* Mistake: a page another thread set meanwhile is replaced.               *)
RefGot_blind(t) ==
    LET r == loc[t].ref[1] IN
    /\ At(t, "refgot") /\ UNCHANGED <<pool, ops, faulty>>
    /\ \/ /\ loc[t].va2 # NoPage
          /\ kheaproots' = [kheaproots EXCEPT ![r].page = loc[t].va2]
          /\ NewPage(t, loc[t].ref) /\ UNCHANGED wasted
       \/ /\ loc[t].va2 = NoPage /\ Goto(t, "giveback")
          /\ wasted' = wasted \cup {loc[t].ref}
          /\ UNCHANGED <<kheaproots, pageref, sizebases, allbase, held, panicked>>

RefGot(t) ==
    LET r == loc[t].ref[1] IN
    /\ At(t, "refgot") /\ UNCHANGED <<pool, ops, faulty>>
    /\ \/ /\ loc[t].va2 # NoPage /\ kheaproots[r].page = NoPage
          /\ kheaproots' = [kheaproots EXCEPT ![r].page = loc[t].va2]
          /\ NewPage(t, loc[t].ref) /\ UNCHANGED wasted
       \/ /\ loc[t].va2 # NoPage /\ kheaproots[r].page # NoPage /\ Goto(t, "refback")
          /\ UNCHANGED <<kheaproots, pageref, sizebases, allbase, held, wasted, panicked>>
       \/ /\ loc[t].va2 = NoPage /\ kheaproots[r].page # NoPage
          /\ NewPage(t, loc[t].ref) /\ UNCHANGED <<kheaproots, wasted>>
       \/ /\ loc[t].va2 = NoPage /\ kheaproots[r].page = NoPage /\ Goto(t, "giveback")
          /\ wasted' = wasted \cup {loc[t].ref}
          /\ UNCHANGED <<kheaproots, pageref, sizebases, allbase, held, panicked>>

RefBack(t) ==
    /\ At(t, "refback") /\ Gives(loc[t].va2) /\ Goto(t, "refset")
    /\ UNCHANGED <<kheaproots, pageref, sizebases, allbase, held, wasted, ops, faulty, panicked>>
RefSet(t) ==
    /\ At(t, "refset") /\ NewPage(t, loc[t].ref)
    /\ UNCHANGED <<pool, kheaproots, wasted, ops, faulty>>

(* No pageref: the page goes back and kmalloc returns NULL.                *)
GiveBack(t) ==
    /\ At(t, "giveback") /\ Gives(loc[t].va) /\ Return(t)
    /\ UNCHANGED <<kheaproots, pageref, sizebases, allbase, held, wasted, ops, faulty, panicked>>

-----------------------------------------------------------------------------
(* freepageref, for a pageref on the page of its root.  It looks through   *)
(* the roots from the first, and asserts that one without a page has no    *)
(* pageref in use (kmalloc.c:315).                                         *)
FreeAsserts(p) ==
    /\ \A r \in 1..(p[1] - 1) : kheaproots[r].page = NoPage => kheaproots[r].inuse = {}
    /\ p[2] \in kheaproots[p[1]].inuse

remove_lists(p, ty) ==
    /\ sizebases' = [sizebases EXCEPT ![ty] = SelectSeq(@, LAMBDA q : q # p)]
    /\ allbase' = SelectSeq(allbase, LAMBDA q : q # p)

Freed(p, b) == [pageref[p] EXCEPT !.free = <<b>> \o @, !.nfree = @ + 1]

subpage_kfree(t, p, b) ==
    /\ IF Freed(p, b).nfree = Blocks(pageref[p].type)
       THEN /\ pageref' = [pageref EXCEPT ![p] = Blank] /\ remove_lists(p, pageref[p].type)
            /\ kheaproots' = [kheaproots EXCEPT ![p[1]].inuse = @ \ {p[2]}]
            /\ panicked' = ~FreeAsserts(p)
            /\ loc' = [loc EXCEPT ![t].pc = "freepage", ![t].va = pageref[p].page]
       ELSE /\ pageref' = [pageref EXCEPT ![p] = Freed(p, b)]
            /\ UNCHANGED <<kheaproots, sizebases, allbase, loc, panicked>>

(* kfree of what kmalloc returned: on a page of the heap, or a page.       *)
OnPage(x) == SelectSeq(allbase, LAMBDA p : pageref[p].page = x.page)
kfree(t, x) ==
    /\ At(t, "idle") /\ held' = held \ {x}
    /\ IF OnPage(x) = <<>>
       THEN /\ loc' = [loc EXCEPT ![t].pc = "freepage", ![t].va = x.page]
            /\ UNCHANGED <<kheaproots, pageref, sizebases, allbase, panicked>>
       ELSE subpage_kfree(t, Head(OnPage(x)), x.at \div Sizes[pageref[Head(OnPage(x))].type])
    /\ UNCHANGED <<pool, wasted, ops, faulty>>

FreePage(t) ==
    /\ At(t, "freepage") /\ Gives(loc[t].va) /\ Return(t)
    /\ UNCHANGED <<kheaproots, pageref, sizebases, allbase, held, wasted, ops, faulty, panicked>>

Stopped ==
    /\ panicked \/ (ops = MaxOps /\ held = {} /\ \A t \in Thread : loc[t].pc = "idle")
    /\ UNCHANGED vars

Step(t) == allocpageref(t) \/ RefGot(t) \/ RefBack(t) \/ RefSet(t) \/ GiveBack(t) \/ FreePage(t)
           \/ \E p \in Page \cup {NoPage} : GetPage(t, p) \/ allocpagerefpage(t, p)
Next ==
    \/ Stopped
    \/ \E t \in Thread :
         \/ Step(t)
         \/ \E n \in Ask : subpage_kmalloc(t, n)
         \/ \E n \in Ask, p \in Page \cup {NoPage} : kmalloc_page(t, n, p)
         \/ \E x \in held : kfree(t, x)
Spec == Init /\ [][Next]_vars

-----------------------------------------------------------------------------
Listed == ToSet(allbase)
HeldOn(p) == {x \in held : x.page = p}

(* The types, and the links: a pageref is on the list of all and on that   *)
(* of its size, once each, while it is in use (subpage_kmalloc,            *)
(* remove_lists).                                                          *)
TypeOK ==
    /\ pool \in Seq(Page) /\ \A t \in Thread : loc[t].ref \in Ref \cup {NoRef}
    /\ \A p \in Ref : pageref[p].nfree \in 0..PageSize /\ pageref[p].type \in Type
    /\ IsInjective(allbase) /\ \A ty \in Type : IsInjective(sizebases[ty])
    /\ \A ty \in Type : ToSet(sizebases[ty]) = {p \in Listed : pageref[p].type = ty}
    /\ \A p \in Listed : p[2] \in kheaproots[p[1]].inuse

(* No byte that a caller of kmalloc asked for is another caller's, nor of  *)
(* a page that the page allocator can hand out again or that holds         *)
(* pagerefs, nor of a block on a free list.                                *)
BlocksDisjoint ==
    /\ \A x, y \in held : x # y /\ x.page = y.page => x.at + x.sz <= y.at \/ y.at + y.sz <= x.at
    /\ \A x \in held : /\ x.at + x.sz <= PageSize /\ x.page \notin ToSet(pool)
                       /\ \A r \in 1..Roots : kheaproots[r].page # x.page
    /\ \A p \in Listed : \A x \in HeldOn(pageref[p].page) :
          \A k \in DOMAIN pageref[p].free : pageref[p].free[k] * Sizes[pageref[p].type] # x.at

(* The pageref of a heap page counts its free blocks, its free list holds  *)
(* each once, and those and the held ones are all the page has; a page     *)
(* with no block held is not kept.                                         *)
CountsExact ==
    \A p \in Listed :
        /\ pageref[p].nfree = Len(pageref[p].free) /\ IsInjective(pageref[p].free)
        /\ pageref[p].nfree + Cardinality(HeldOn(pageref[p].page)) = Blocks(pageref[p].type)
        /\ HeldOn(pageref[p].page) # {}

(* No page is lost, and none has two uses: every page is in the pool, on   *)
(* the heap, a page of pagerefs, a large block, or in the hands of one     *)
(* thread between two steps of kmalloc or kfree.                           *)
Uses(p) ==
    Len(SelectSeq(pool, LAMBDA q : q = p))
    + Cardinality({r \in Listed : pageref[r].page = p})
    + Cardinality({r \in 1..Roots : kheaproots[r].page = p})
    + Cardinality({x \in HeldOn(p) : x.sz >= Sizes[Len(Sizes)]})
    + Cardinality({t \in Thread : loc[t].va = p})
    + Cardinality({t \in Thread : loc[t].va2 = p /\ loc[t].pc \in {"refgot", "refback"}})
PagesOnce == \A p \in Page : Uses(p) = 1

(* A pageref in use describes a heap page, or is in the hands of a thread  *)
(* in allocpageref, or was taken when its page could not be had: those are *)
(* never given back.                                                       *)
RefsExact ==
    \A p \in Ref : p[2] \in kheaproots[p[1]].inuse <=>
        \/ p \in Listed \/ p \in wasted
        \/ \E t \in Thread : loc[t].ref = p /\ loc[t].pc # "giveback"

(* The assertions of subpage_kmalloc, subpage_kfree and freepageref hold   *)
(* as long as no pageref was wasted.                                       *)
NoPanic == panicked => wasted # {}

(* What freepageref asserts of a root without a page (kmalloc.c:315), as   *)
(* an invariant: its numinuse is zero unless a thread is getting the page. *)
NoPageNoRefs ==
    \A r \in 1..Roots : kheaproots[r].page = NoPage =>
        \/ kheaproots[r].inuse = {}
        \/ \E t \in Thread : loc[t].ref[1] = r /\ loc[t].pc \in {"refpage", "refgot"}
=============================================================================
