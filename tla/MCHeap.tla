------------------------------- MODULE MCHeap -------------------------------
(* Kernel memory, for TLC: which is picked once and says what is run, the  *)
(* list of free frames with one thread, the same with three that allocate  *)
(* blocks of frames, or the heap above it with two.                        *)
EXTENDS FrameList, TLC

CONSTANTS T, U
VARIABLES which, pool, kheaproots, pageref, sizebases, allbase, loc, wasted, ops, faulty

Allocs == INSTANCE FrameList WITH NFrames <- 6, Node <- 1..6, Thread <- T, Freer <- {}, MaxPages <- 2
(* Blocks of a quarter and of half a page.                                 *)
Heap == INSTANCE Kmalloc WITH Thread <- U, NPages <- 5, Sizes <- <<2, 4>>, PageSize <- 8,
            Ask <- {2, 3, 4}, Roots <- 2, PerRoot <- 2, MaxOps <- 4, MaxFaulty <- 1

Alike == Permutations(T) \cup Permutations(U)

Off == "unused"
ListOff ==
    /\ frame_list = Off /\ next_frame = Off /\ frame_number = Off /\ heap = Off /\ Valid = Off
    /\ pc = Off /\ npages = Off /\ node = Off /\ frame = Off /\ got = Off
HeapOff ==
    /\ pool = Off /\ kheaproots = Off /\ pageref = Off /\ sizebases = Off /\ allbase = Off
    /\ loc = Off /\ wasted = Off /\ ops = Off /\ faulty = Off
lists == <<frame_list, next_frame, frame_number, heap, Valid, pc, npages, node, frame, got>>
heaps == <<pool, kheaproots, pageref, sizebases, allbase, loc, wasted, ops, faulty>>

InitHeap ==
    \/ which = "one" /\ Init /\ HeapOff
    \/ which = "allocs" /\ Allocs!Init /\ HeapOff
    \/ which = "heap" /\ Heap!Init /\ ListOff
NextHeap ==
    \/ which = "one" /\ Next /\ UNCHANGED <<which, heaps>>
    \/ which = "allocs" /\ Allocs!Next /\ UNCHANGED <<which, heaps>>
    \/ which = "heap" /\ Heap!Next /\ UNCHANGED <<which, lists>>
SpecHeap == InitHeap /\ [][NextHeap]_<<which, lists, heaps, held, panicked>>

-----------------------------------------------------------------------------
(* Every frame is in the list, on its way or given out, once: with one     *)
(* thread and with three that allocate (FramesOnce of FrameList); and no   *)
(* page is lost by the heap above or has two uses (PagesOnce of Kmalloc).  *)
EveryFrameOnce == CASE which = "one" -> FramesOnce
                    [] which = "allocs" -> Allocs!FramesOnce
                    [] OTHER -> Heap!PagesOnce

(* The types are right; none of the panics of alloc_kpages and free_kpages *)
(* fires when one thread calls them with single pages; what the            *)
(* callers of kmalloc hold does not overlap, the free blocks of a page are *)
(* those counted and listed, every pageref in use has a page or a thread   *)
(* that sets it up, and the assertions of the heap hold while no pageref   *)
(* is wasted (NoListPanic of FrameList, the invariants of Kmalloc).        *)
HeapSound == CASE which = "one" -> TypeOK /\ NoListPanic
               [] which = "allocs" -> TRUE
               [] OTHER -> /\ Heap!TypeOK /\ Heap!BlocksDisjoint /\ Heap!CountsExact
                           /\ Heap!RefsExact /\ Heap!NoPanic

(* To one thread the list is a stack of frames (FrameList implements       *)
(* FreeFrames).                                                            *)
ListIsStackOne ==
    [][which = "one" => Stack!Next \/ UNCHANGED Listed]_<<which, frame_list, next_frame, frame_number>>
=============================================================================
