----------------------------- MODULE FrameList ------------------------------
(***************************************************************************)
(* The free frame list as it is kept: linked nodes from kmalloc (list.c),  *)
(* taken off by alloc_kpages under kmalloc_spinlock (kmalloc.c, coremap.c) *)
(* and put on by free_kpages after it has released that lock.              *)
(*                                                                         *)
(* Kernel threads allocate blocks of one or more pages and free them.  A   *)
(* step is what runs under the lock, or one access to frame_list or to a   *)
(* node outside it; threads interleave between steps.  kmalloc of a node   *)
(* is taken to find a free block.                                          *)
(***************************************************************************)
EXTENDS Naturals, Sequences, FiniteSets

CONSTANTS
    NFrames,    \* frames vm_bootstrap put on the list
    Node,       \* blocks of the size of a struct frame_list_struct
    Thread,     \* kernel threads
    Freer,      \* those that also free what they allocated
    MaxPages,   \* largest block asked for (below MAX_PAGES_ALLOC)
    NULL

Frame == 1..NFrames

ASSUME FrameListAssumption ==
    /\ NFrames \in Nat \ {0} /\ MaxPages \in 1..9
    /\ Freer \subseteq Thread
    /\ NULL \notin Node
    /\ 1..NFrames \subseteq Node

VARIABLES
    frame_list,     \* the first node
    next_frame,     \* by node
    frame_number,   \* by node (0: what subpage_kfree leaves in a free block)
    heap,           \* the nodes that are free blocks
    Valid,          \* frames marked Valid in main_PG
    pc, npages,     \* where a thread is, and the size of the block it asked for
    node,           \* deleteFrame of alloc_kpages, currentFrame of addToFrameList
    frame,          \* the frame free_kpages returns
    got,            \* frames alloc_kpages has taken so far
    held,           \* by thread: the blocks it holds, each the sequence of its frames
    panicked

listvars == <<frame_list, next_frame, frame_number, heap>>
callvars == <<pc, npages, node, frame, got>>
vars     == <<listvars, Valid, callvars, held, panicked>>

Points == {"run", "kfree", "more", "kmalloc", "link", "insert"}

TypeOK ==
    /\ frame_list \in Node \cup {NULL}
    /\ next_frame \in [Node -> Node \cup {NULL}]
    /\ frame_number \in [Node -> Frame \cup {0}]
    /\ heap \in SUBSET Node
    /\ Valid \in SUBSET Frame
    /\ pc \in [Thread -> Points]
    /\ npages \in [Thread -> 0..MaxPages]
    /\ node \in [Thread -> Node \cup {NULL}]
    /\ frame \in [Thread -> Frame \cup {0}]
    /\ \A t \in Thread : got[t] \in Seq(Frame) /\ held[t] \subseteq Seq(Frame)
    /\ panicked \in BOOLEAN

(* vm_bootstrap: each frame is added at the bottom.                        *)
Init ==
    /\ frame_list = 1
    /\ next_frame = [n \in Node |-> IF n \in 1..(NFrames - 1) THEN n + 1 ELSE NULL]
    /\ frame_number = [n \in Node |-> IF n \in Frame THEN n ELSE 0]
    /\ heap = Node \ Frame
    /\ Valid = {}
    /\ pc = [t \in Thread |-> "run"]
    /\ npages = [t \in Thread |-> 0]
    /\ node = [t \in Thread |-> NULL]
    /\ frame = [t \in Thread |-> 0]
    /\ got = [t \in Thread |-> <<>>]
    /\ held = [t \in Thread |-> {}]
    /\ panicked = FALSE

At(t, p)   == ~panicked /\ pc[t] = p
Goto(t, p) == pc' = [pc EXCEPT ![t] = p]

-----------------------------------------------------------------------------
(* alloc_kpages *)

(* check_free_frame never moves to the next node: a list of two passes for *)
(* any number of pages.                                                    *)
check_free_frame(n) ==
    IF frame_list = NULL THEN 0
    ELSE IF next_frame[frame_list] = NULL THEN 1 ELSE n

(* One turn of the loop of alloc_kpages up to the release of the lock.  No *)
(* node (a NULL pointer), a frame in use, or a freed node, which begins    *)
(* with the link of the heap's free list, stop the machine.                *)
take(t) ==
    IF frame_list = NULL \/ frame_list \in heap \/ frame_number[frame_list] \in Valid
    THEN panicked' = TRUE /\ UNCHANGED <<frame_list, Valid, pc, node, got>>
    ELSE LET f == frame_number[frame_list] IN
         /\ Valid' = Valid \cup {f}
         /\ node' = [node EXCEPT ![t] = frame_list]
         /\ got' = [got EXCEPT ![t] = Append(@, f)]
         /\ frame_list' = next_frame[frame_list]
         /\ Goto(t, "kfree")
         /\ UNCHANGED panicked

(* The call: 0 when the list is empty, a panic when it is found too short. *)
alloc_kpages(t, n) ==
    /\ At(t, "run")
    /\ check_free_frame(n) # 0
    /\ npages' = [npages EXCEPT ![t] = n]
    /\ IF check_free_frame(n) = n THEN take(t)
       ELSE panicked' = TRUE /\ UNCHANGED <<frame_list, Valid, pc, node, got>>
    /\ UNCHANGED <<next_frame, frame_number, heap, frame, held>>

(* kfree(deleteFrame), with the lock released; then the next page, or the  *)
(* address of the first frame is returned as the block.                    *)
kfree_node(t) ==
    /\ At(t, "kfree")
    /\ heap' = heap \cup {node[t]}
    /\ frame_number' = [frame_number EXCEPT ![node[t]] = 0]
    /\ next_frame' = [next_frame EXCEPT ![node[t]] = NULL]
    /\ IF Len(got[t]) < npages[t]
       THEN Goto(t, "more") /\ UNCHANGED <<npages, node, got, held>>
       ELSE /\ held' = [held EXCEPT ![t] = @ \cup {got[t]}]
            /\ got' = [got EXCEPT ![t] = <<>>]
            /\ npages' = [npages EXCEPT ![t] = 0]
            /\ node' = [node EXCEPT ![t] = NULL]
            /\ Goto(t, "run")
    /\ UNCHANGED <<frame_list, Valid, frame, panicked>>

alloc_more(t) ==
    /\ At(t, "more")
    /\ take(t)
    /\ UNCHANGED <<next_frame, frame_number, heap, npages, frame, held>>

-----------------------------------------------------------------------------
(* free_kpages *)

(* kfree of a block: free_kpages gets its address, that of the first       *)
(* frame, and marks that one free.                                         *)
free_kpages(t, b) ==
    /\ At(t, "run") /\ t \in Freer /\ b \in held[t]
    /\ IF b[1] \notin Valid
       THEN panicked' = TRUE /\ UNCHANGED <<Valid, pc, frame, held>>
       ELSE /\ Valid' = Valid \ {b[1]}
            /\ held' = [held EXCEPT ![t] = @ \ {b}]
            /\ frame' = [frame EXCEPT ![t] = b[1]]
            /\ Goto(t, "kmalloc")
            /\ UNCHANGED panicked
    /\ UNCHANGED <<listvars, npages, node, got>>

(* addToFrameList(frame, addTOP), without a lock: a node ...               *)
addToFrameList(t) ==
    /\ At(t, "kmalloc")
    /\ \E n \in heap :
         /\ heap' = heap \ {n}
         /\ frame_number' = [frame_number EXCEPT ![n] = frame[t]]
         /\ node' = [node EXCEPT ![t] = n]
    /\ Goto(t, "link")
    /\ UNCHANGED <<frame_list, next_frame, Valid, npages, frame, got, held, panicked>>

(* ... currentFrame->next_frame = frame_list ...                           *)
addTOP_link(t) ==
    /\ At(t, "link")
    /\ next_frame' = [next_frame EXCEPT ![node[t]] = frame_list]
    /\ Goto(t, "insert")
    /\ UNCHANGED <<frame_list, frame_number, heap, Valid, npages, node, frame, got, held, panicked>>

(* Mistake: the new node goes behind the first one.                        *)
addTOP_insert_second(t) ==
    /\ At(t, "insert")
    /\ IF frame_list = NULL THEN frame_list' = node[t] /\ UNCHANGED next_frame
       ELSE /\ next_frame' = [next_frame EXCEPT ![frame_list] = node[t],
                                               ![node[t]] = next_frame[frame_list]]
            /\ UNCHANGED frame_list
    /\ node' = [node EXCEPT ![t] = NULL]
    /\ frame' = [frame EXCEPT ![t] = 0]
    /\ Goto(t, "run")
    /\ UNCHANGED <<frame_number, heap, Valid, npages, got, held, panicked>>

(* ... frame_list = currentFrame.                                          *)
addTOP_insert(t) ==
    /\ At(t, "insert")
    /\ frame_list' = node[t]
    /\ node' = [node EXCEPT ![t] = NULL]
    /\ frame' = [frame EXCEPT ![t] = 0]
    /\ Goto(t, "run")
    /\ UNCHANGED <<next_frame, frame_number, heap, Valid, npages, got, held, panicked>>

-----------------------------------------------------------------------------
halted == panicked /\ UNCHANGED vars

(* Every thread waits for memory, and none will free any.                  *)
exhausted ==
    /\ frame_list = NULL /\ UNCHANGED vars
    /\ \A t \in Thread : pc[t] = "run" /\ (t \in Freer => held[t] = {})

Next ==
    \/ \E t \in Thread :
          \/ \E n \in 1..MaxPages : alloc_kpages(t, n)
          \/ kfree_node(t)
          \/ alloc_more(t)
          \/ \E b \in held[t] : free_kpages(t, b)
          \/ addToFrameList(t)
          \/ addTOP_link(t)
          \/ addTOP_insert(t)
    \/ halted
    \/ exhausted

Spec == Init /\ [][Next]_vars

-----------------------------------------------------------------------------
(* Properties *)

(* The nodes in the order of the list (a cycle is cut where it closes).    *)
Walk ==
    LET at[k \in 1..Cardinality(Node)] ==
          IF k = 1 THEN frame_list
          ELSE IF at[k - 1] = NULL THEN NULL ELSE next_frame[at[k - 1]]
    IN SelectSeq(at, LAMBDA n : n # NULL)

Listed == [k \in DOMAIN Walk |-> frame_number[Walk[k]]]

(* Frames on their way back: marked free, not on the list yet.             *)
Returning == {frame[t] : t \in Thread} \ {0}

(* Every frame has one owner: it is on the list once, or being put there,  *)
(* or valid and part of one block, although alloc_kpages drops the lock    *)
(* before it frees the node and between two pages of a block.              *)
FramesOnce ==
    /\ \A i, j \in DOMAIN Listed : Listed[i] = Listed[j] => i = j
    /\ {Listed[i] : i \in DOMAIN Listed} = Frame \ (Valid \cup Returning)
    /\ \A t, u \in Thread : \A b \in held[t], c \in held[u] :
          (\E i \in DOMAIN b, j \in DOMAIN c : b[i] = c[j]) => t = u /\ b = c

(* None of the panics and KASSERTs of alloc_kpages and free_kpages fires   *)
(* ("This should not happen"): the head of the list is a node in use, of a *)
(* frame that is not.                                                      *)
NoListPanic == ~panicked

(* "Allocate a block of size SZ" (kmalloc): its pages follow each other in *)
(* memory.                                                                 *)
BlocksContiguous ==
    \A t \in Thread : \A b \in held[t] : \A i \in DOMAIN b : b[i] = b[1] + i - 1

(* "Free a block previously returned from kmalloc" (kfree): a frame stays  *)
(* in use only as part of a block that some thread holds or is taking.     *)
BlocksFreed ==
    \A f \in Valid : \E t \in Thread :
       \/ \E i \in DOMAIN got[t] : got[t][i] = f
       \/ \E b \in held[t] : \E i \in DOMAIN b : b[i] = f

Stack == INSTANCE FreeFrames WITH free <- Listed

(* To one thread at a time the list is a stack of frames, although each    *)
(* operation changes it in several steps: this is what demand paging       *)
(* (Pager) takes alloc_kpages and free_kpages to do.                       *)
ListIsStack == Stack!Spec

=============================================================================
