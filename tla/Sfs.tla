-------------------------------- MODULE Sfs ---------------------------------
(***************************************************************************)
(* The simple file system (fs/sfs): one volume, its disk blocks, and what  *)
(* the kernel keeps of it in memory: the free block bitmap and the loaded  *)
(* inodes.  An action is one vnode or file system operation, run whole.    *)
(*                                                                         *)
(* Functions are operators on the state of an operation, as in Calls.      *)
(* Block transfers and allocations are the calls that may fail; a failing  *)
(* transfer is one that sfs_rwblock has given up after its retries, and    *)
(* the block is as it was.                                                 *)
(***************************************************************************)
EXTENDS Integers, Sequences, FiniteSets, FiniteSetsExt, SequencesExt, Calls

CONSTANTS
    NBLOCKS,    \* sb_nblocks
    NDIRECT,    \* SFS_NDIRECT
    DBPERIDB,   \* SFS_DBPERIDB
    BLOCKSIZE,  \* SFS_BLOCKSIZE, in units of one directory entry or one datum
    Name,       \* file names
    Failing,    \* the sets of calls of one operation that may fail
    MaxOps,     \* creat, link, remove, rename, write, truncate operations, plus faulty
    MaxFaulty,  \* operations that meet a failing call
    MaxRef,     \* references a vnode's users hold at once
    Extent,     \* <<position, length>> of reads and writes
    Length      \* lengths files are truncated to

VARIABLES
    disk,           \* contents of the blocks
    mounted,        \* is there a struct sfs_fs
    freemap,        \* sfs_freemap: the blocks marked in use
    freemapdirty,
    vnodes,         \* sfs_vnodes, by inode number: [i, dirty, ref]
    held,           \* references the users of the file system hold, by inode number
    ops, faulty,    \* changes so far, and operations that met a failing call
    torn,           \* an indirect block on disk still names blocks given back
    panicked

vars == <<disk, mounted, freemap, freemapdirty, vnodes, held, ops, faulty, torn, panicked>>

Super == 0
Root  == 1
FreemapStart == 2
Ino   == {Root} \cup 3..(NBLOCKS - 1)

(* Block contents.  A block of zeros reads as whatever is looked for.      *)
Zero       == [t |-> "zero"]
Units(c, zero, n) == IF c.t = "zero" THEN [k \in 0..(n - 1) |-> zero] ELSE c.u
Ids(c)     == Units(c, 0, DBPERIDB)
NoEntry    == [ino |-> 0, name |-> "none"]
Entries(c) == Units(c, NoEntry, BLOCKSIZE)
NoData     == <<0, 0>>
Foreign    == <<0, 1>>   \* what is no file data
Data(c)    == IF c.t \in {"zero", "data"} THEN Units(c, NoData, BLOCKSIZE)
              ELSE [k \in 0..(BLOCKSIZE - 1) |-> Foreign]
NewInode   == [type |-> "inval", size |-> 0, linkcount |-> 0,
               direct |-> [k \in 0..(NDIRECT - 1) |-> 0], indirect |-> 0]
Inode(c)   == IF c.t = "zero" THEN NewInode ELSE c.u

(* A volume made by mksfs: superblock, root directory, bitmap.             *)
Init ==
    /\ disk = [b \in 0..(NBLOCKS - 1) |->
                 CASE b = Super -> [t |-> "super", u |-> NBLOCKS]
                   [] b = Root -> [t |-> "inode", u |-> [NewInode EXCEPT !.type = "dir",
                                                                          !.linkcount = 1]]
                   [] b = FreemapStart -> [t |-> "map", u |-> 0..FreemapStart]
                   [] OTHER -> Zero]
    /\ mounted = FALSE
    /\ freemap = {} /\ freemapdirty = FALSE
    /\ vnodes = << >>
    /\ held = [n \in Ino |-> 0]
    /\ ops = 0 /\ faulty = 0
    /\ torn = FALSE
    /\ panicked = "no"

-----------------------------------------------------------------------------
(* The running state of an operation.                                      *)
Start(F) == [disk |-> disk, freemap |-> freemap, freemapdirty |-> freemapdirty,
             vnodes |-> vnodes, torn |-> torn, failing |-> F, calls |-> 0,
             err |-> "ok", ret |-> 0, slot |-> -1, found |-> -1, empty |-> -1,
             ino |-> 0, off |-> 0, panic |-> "no"]

(* sfs_rwblock, with its retries, as one transfer.                         *)
sfs_rwblock(s) == Try(s, "EIO")

sfs_readblock(s, b) == sfs_rwblock(s)

sfs_writeblock(s, b, c) == Then(sfs_rwblock(s), LAMBDA w : [w EXCEPT !.disk[b] = c])

-----------------------------------------------------------------------------
(* The block allocator.  bitmap_alloc takes the lowest unmarked bit;       *)
(* bitmap_unmark asserts that the bit was set.                             *)
bitmap_alloc(s) ==
    LET free == (0..(NBLOCKS - 1)) \ s.freemap
    IN  IF free = {} THEN Return(s, "ENOSPC")
        ELSE [s EXCEPT !.freemap = @ \cup {Min(free)}, !.ret = Min(free), !.err = "ok"]

bitmap_unmark(s, b) ==
    IF b \in s.freemap THEN [s EXCEPT !.freemap = @ \ {b}] ELSE Panic(s, "unmark")

sfs_clearblock(s, b) == sfs_writeblock(s, b, Zero)

sfs_balloc(s) ==
    Then(bitmap_alloc(s), LAMBDA a :
        Catch(sfs_clearblock([a EXCEPT !.freemapdirty = TRUE], a.ret),
              LAMBDA c : bitmap_unmark(c, a.ret)))

sfs_bfree(s, b) == [bitmap_unmark(s, b) EXCEPT !.freemapdirty = TRUE]

sfs_bused(s, b) == b \in s.freemap

-----------------------------------------------------------------------------
(* From a block of a file to a block of the disk (sfs_bmap.c).             *)
HandBack(s, b) ==
    IF b # 0 /\ ~sfs_bused(s, b) THEN Panic(s, "block marked free")
    ELSE [s EXCEPT !.ret = b, !.err = "ok"]

bmap_direct(s, v, n, doalloc) ==
    LET b == s.vnodes[v].i.direct[n]
    IN  IF b # 0 \/ ~doalloc THEN HandBack(s, b)
        ELSE Then(sfs_balloc(s), LAMBDA a :
                 HandBack([a EXCEPT !.vnodes[v].i.direct[n] = a.ret,
                                    !.vnodes[v].dirty = TRUE], a.ret))

(* The indirect block: read, or allocated.                                 *)
bmap_idblock(s, v) ==
    LET id == s.vnodes[v].i.indirect
    IN  IF id # 0 THEN [sfs_readblock(s, id) EXCEPT !.ret = id]
        ELSE Then(sfs_balloc(s), LAMBDA a :
                 [a EXCEPT !.vnodes[v].i.indirect = a.ret, !.vnodes[v].dirty = TRUE])

bmap_entry(s, id, off, doalloc) ==
    LET ids == Ids(s.disk[id])
    IN  IF ids[off] # 0 \/ ~doalloc THEN HandBack(s, ids[off])
        ELSE Then(sfs_balloc(s), LAMBDA a :
                 Then(sfs_writeblock(a, id, [t |-> "ids", u |-> [ids EXCEPT ![off] = a.ret]]),
                      LAMBDA w : HandBack(w, a.ret)))

bmap_indirect(s, v, off, doalloc) ==
    IF s.vnodes[v].i.indirect = 0 /\ ~doalloc THEN [s EXCEPT !.ret = 0, !.err = "ok"]
    ELSE Then(bmap_idblock(s, v), LAMBDA d : bmap_entry(d, d.ret, off, doalloc))

sfs_bmap(s, v, n, doalloc) ==
    IF n < NDIRECT THEN bmap_direct(s, v, n, doalloc)
    ELSE IF n - NDIRECT >= DBPERIDB THEN Return(s, "EFBIG")
    ELSE bmap_indirect(s, v, n - NDIRECT, doalloc)

(* sfs_itrunc.  Blocks of the indirect block are given back in memory one  *)
(* after the other; the indirect block is written once, after them.        *)
bfree_all(s, B) == FoldSet(LAMBDA b, t : sfs_bfree(t, b), s, B)

itrunc_direct(s, v, blocklen) ==
    LET dir  == s.vnodes[v].i.direct
        past == {n \in DOMAIN dir : n >= blocklen /\ dir[n] # 0}
    IN  IF past = {} THEN s
        ELSE [bfree_all(s, {dir[n] : n \in past}) EXCEPT
                !.vnodes[v].i.direct = [n \in DOMAIN dir |-> IF n \in past THEN 0 ELSE dir[n]],
                !.vnodes[v].dirty = TRUE]

itrunc_ids(s, v, id, blocklen) ==
    LET ids  == Ids(s.disk[id])
        past == {j \in DOMAIN ids : blocklen < NDIRECT + j /\ ids[j] # 0}
        kept == [j \in DOMAIN ids |-> IF j \in past THEN 0 ELSE ids[j]]
    IN  IF \A j \in DOMAIN kept : kept[j] = 0
        THEN [sfs_bfree(bfree_all(s, {ids[j] : j \in past}), id) EXCEPT
                !.vnodes[v].i.indirect = 0, !.vnodes[v].dirty = TRUE]
        ELSE IF past = {} THEN s
        ELSE Catch(sfs_writeblock(bfree_all(s, {ids[j] : j \in past}), id,
                                  [t |-> "ids", u |-> kept]),
                   LAMBDA w : [w EXCEPT !.torn = TRUE])

itrunc_indirect(s, v, blocklen) ==
    LET id == s.vnodes[v].i.indirect
    IN  IF blocklen < NDIRECT + DBPERIDB - 1 /\ id # 0
        THEN Then(sfs_readblock(s, id), LAMBDA r : itrunc_ids(r, v, id, blocklen))
        ELSE Return(s, "ok")

sfs_itrunc(s, v, len) ==
    LET blocklen == (len + BLOCKSIZE - 1) \div BLOCKSIZE
    IN  Then(itrunc_indirect(itrunc_direct(s, v, blocklen), v, blocklen), LAMBDA t :
            [t EXCEPT !.vnodes[v].i.size = len, !.vnodes[v].dirty = TRUE])

-----------------------------------------------------------------------------
(* Inodes in memory (sfs_inode.c).                                         *)
sfs_sync_inode(s, v) ==
    IF ~s.vnodes[v].dirty THEN Return(s, "ok")
    ELSE Then(sfs_writeblock(s, v, [t |-> "inode", u |-> s.vnodes[v].i]),
              LAMBDA w : [w EXCEPT !.vnodes[v].dirty = FALSE])

Unload(s, v) == [s EXCEPT !.vnodes = [n \in DOMAIN @ \ {v} |-> @[n]], !.err = "ok"]

(* Called with the last reference.  After an error the vnode stays in the  *)
(* table, with a reference nobody holds.                                   *)
sfs_reclaim(s, v) ==
    IF s.vnodes[v].i.linkcount = 0
    THEN Then(sfs_itrunc(s, v, 0), LAMBDA t :
             Then(sfs_sync_inode(t, v), LAMBDA w : Unload(sfs_bfree(w, v), v)))
    ELSE Then(sfs_sync_inode(s, v), LAMBDA w : Unload(w, v))

vnode_incref(s, v) == [s EXCEPT !.vnodes[v].ref = @ + 1]

vnode_decref(s, v) ==
    IF s.vnodes[v].ref > 1 THEN [s EXCEPT !.vnodes[v].ref = @ - 1] ELSE sfs_reclaim(s, v)

(* A new vnode for inode n: the inode is read and the vnode put into the   *)
(* table.  forcetype is the type of an object being created.               *)
LoadNew(s, n, forcetype) ==
    LET i == Inode(s.disk[n])
        j == IF forcetype = "inval" THEN i ELSE [i EXCEPT !.type = forcetype]
    IN  IF forcetype # "inval" /\ i.type # "inval" THEN Panic(s, "inode in use")
        ELSE IF j.type \notin {"file", "dir"} THEN Panic(s, "bad type")
        ELSE Then(Try(s, "ENOMEM"), LAMBDA a :
                 [a EXCEPT !.vnodes = [m \in DOMAIN @ \cup {n} |->
                                         IF m = n THEN [i |-> j, dirty |-> forcetype # "inval", ref |-> 1]
                                         ELSE @[m]],
                           !.ret = n])

sfs_loadvnode(s, n, forcetype) ==
    IF \E m \in DOMAIN s.vnodes : ~sfs_bused(s, m) THEN Panic(s, "inode in free block")
    ELSE IF n \in DOMAIN s.vnodes
         THEN IF forcetype = "inval" THEN [vnode_incref(s, n) EXCEPT !.ret = n, !.err = "ok"]
              ELSE Panic(s, "forcetype of a loaded inode")
    ELSE Then(Try(s, "ENOMEM"), LAMBDA k :
             IF ~sfs_bused(k, n) THEN Panic(k, "load from free block")
             ELSE Then(sfs_readblock(k, n), LAMBDA r : LoadNew(r, n, forcetype)))

sfs_makeobj(s, type) ==
    Then(sfs_balloc(s), LAMBDA a :
        Catch(sfs_loadvnode(a, a.ret, type), LAMBDA l : sfs_bfree(l, a.ret)))

-----------------------------------------------------------------------------
(* Directory entries (sfs_metaio, sfs_dir.c).  An entry is one unit.       *)
sfs_readdir(s, slot) ==
    Then(sfs_bmap(s, Root, slot \div BLOCKSIZE, FALSE), LAMBDA m :
        IF m.ret = 0 THEN [m EXCEPT !.ret = NoEntry]
        ELSE [sfs_readblock(m, m.ret) EXCEPT
                !.ret = Entries(m.disk[m.ret])[slot % BLOCKSIZE]])

WriteEntry(s, b, slot, e) ==
    Then(sfs_writeblock(s, b, [t |-> "dir",
             u |-> [Entries(s.disk[b]) EXCEPT ![slot % BLOCKSIZE] = e]]), LAMBDA w :
        IF slot + 1 <= w.vnodes[Root].i.size THEN w
        ELSE [w EXCEPT !.vnodes[Root].i.size = slot + 1, !.vnodes[Root].dirty = TRUE])

sfs_writedir(s, slot, e) ==
    Then(sfs_bmap(s, Root, slot \div BLOCKSIZE, TRUE), LAMBDA m :
        Then(sfs_readblock(m, m.ret), LAMBDA r : WriteEntry(r, m.ret, slot, e)))

sfs_dir_nentries(s) == s.vnodes[Root].i.size

(* One slot of the search.  s.found and s.empty are the slots of the name  *)
(* and of a free entry so far, s.ino what the name leads to.               *)
FindStep(s, slot, name) ==
    Then(s, LAMBDA f : Then(sfs_readdir(f, slot), LAMBDA r :
        IF r.ret.ino = 0 THEN [r EXCEPT !.empty = slot]
        ELSE IF r.ret.name # name THEN r
        ELSE IF r.found >= 0 THEN Panic(r, "name twice")
        ELSE [r EXCEPT !.found = slot, !.ino = r.ret.ino]))

sfs_dir_findname(s, name) ==
    Then(FoldLeft(LAMBDA f, k : FindStep(f, k - 1, name),
                  [s EXCEPT !.err = "ok", !.found = -1, !.empty = -1, !.ino = 0],
                  [k \in 1..sfs_dir_nentries(s) |-> k]),
         LAMBDA f : IF f.found < 0 THEN Return(f, "ENOENT") ELSE f)

(* Hands back the slot in s.slot.                                          *)
LinkAt(s, slot, name, n) ==
    sfs_writedir([s EXCEPT !.slot = slot, !.err = "ok"], slot, [ino |-> n, name |-> name])

DirLink(f, name, n) ==
    IF f.err = "ok" THEN Return(f, "EEXIST")
    ELSE IF f.err # "ENOENT" THEN f
    ELSE LinkAt(f, IF f.empty < 0 THEN sfs_dir_nentries(f) ELSE f.empty, name, n)

sfs_dir_link(s, name, n) == DirLink(sfs_dir_findname(s, name), name, n)

sfs_dir_unlink(s, slot) == sfs_writedir(s, slot, NoEntry)

(* Hands back the inode in s.ret and the slot in s.found.                  *)
sfs_lookonce(s, name) ==
    Then(sfs_dir_findname(s, name), LAMBDA f :
        Then(sfs_loadvnode(f, f.ino, "inval"), LAMBDA l :
            IF l.vnodes[l.ret].i.linkcount = 0 THEN Panic(l, "linkcount 0") ELSE l))

-----------------------------------------------------------------------------
(* File data (sfs_io.c).  A datum written to a file says which file and    *)
(* which position it was written to.  A transfer is cut into the pieces    *)
(* that lie in one block; whole blocks go straight to the disk, partial    *)
(* ones through a read of the old block.                                   *)
Pieces(pos, end) ==
    LET starts == SetToSortSeq({p \in pos..(end - 1) : p = pos \/ p % BLOCKSIZE = 0}, <)
    IN  [k \in DOMAIN starts |->
            [pos |-> starts[k],
             len |-> (IF k < Len(starts) THEN starts[k + 1] ELSE end) - starts[k]]]

(* Mistake: a part of a block is written without reading it first.         *)
Written_fresh(s, v, b, p) ==
    [t |-> "data", u |-> [o \in 0..(BLOCKSIZE - 1) |->
        LET at == (p.pos \div BLOCKSIZE) * BLOCKSIZE + o
        IN  IF at \in p.pos..(p.pos + p.len - 1) THEN <<v, at + 1>> ELSE NoData]]

Written(s, v, b, p) ==
    [t |-> "data", u |-> [o \in 0..(BLOCKSIZE - 1) |->
        LET at == (p.pos \div BLOCKSIZE) * BLOCKSIZE + o
        IN  IF at \in p.pos..(p.pos + p.len - 1) THEN <<v, at + 1>> ELSE Data(s.disk[b])[o]]]

sfs_partialio(s, v, p, write) ==
    Then(sfs_bmap(s, v, p.pos \div BLOCKSIZE, write), LAMBDA m :
        IF m.ret = 0 THEN m
        ELSE Then(sfs_readblock(m, m.ret), LAMBDA r :
                 IF write THEN sfs_writeblock(r, m.ret, Written(r, v, m.ret, p)) ELSE r))

sfs_blockio(s, v, p, write) ==
    Then(sfs_bmap(s, v, p.pos \div BLOCKSIZE, write), LAMBDA m :
        IF m.ret = 0 THEN m
        ELSE IF write THEN sfs_writeblock(m, m.ret, Written(m, v, m.ret, p))
        ELSE sfs_readblock(m, m.ret))

(* s.off is uio_offset: how far the transfer has come.                     *)
IoStep(s, v, p, write) ==
    Then(s, LAMBDA g :
        Then(IF p.len = BLOCKSIZE THEN sfs_blockio(g, v, p, write)
             ELSE sfs_partialio(g, v, p, write), LAMBDA t :
            [t EXCEPT !.off = p.pos + p.len]))

(* out: adjust the file length.                                            *)
IoOut(s, v, pos, write) ==
    IF write /\ s.off # pos /\ s.off > s.vnodes[v].i.size
    THEN [s EXCEPT !.vnodes[v].i.size = s.off, !.vnodes[v].dirty = TRUE]
    ELSE s

sfs_io(s, v, pos, len, write) ==
    LET size == s.vnodes[v].i.size
        end  == IF write THEN pos + len ELSE Min({pos + len, size})
    IN  IF ~write /\ pos >= size THEN s
        ELSE IoOut(FoldLeft(LAMBDA g, p : IoStep(g, v, p, write),
                            [s EXCEPT !.off = pos], Pieces(pos, end)), v, pos, write)

-----------------------------------------------------------------------------
(* Vnode operations (sfs_vnops.c).                                         *)
LinkNew(s, name, n) ==
    Then(Catch(sfs_dir_link(s, name, n), LAMBDA l : vnode_decref(l, n)), LAMBDA l :
        [l EXCEPT !.vnodes[n].i.linkcount = @ + 1, !.vnodes[n].dirty = TRUE, !.ret = n])

CreatFound(f, name, excl) ==
    IF f.err = "ok" THEN IF excl THEN Return(f, "EEXIST") ELSE sfs_loadvnode(f, f.ino, "inval")
    ELSE IF f.err # "ENOENT" THEN f
    ELSE Then(sfs_makeobj(f, "file"), LAMBDA new : LinkNew(new, name, new.ret))

sfs_creat(s, name, excl) == CreatFound(sfs_dir_findname(s, name), name, excl)

sfs_link(s, name, v) ==
    IF s.vnodes[v].i.type = "dir" THEN Return(s, "EINVAL")
    ELSE Then(sfs_dir_link(s, name, v), LAMBDA l :
             [l EXCEPT !.vnodes[v].i.linkcount = @ + 1, !.vnodes[v].dirty = TRUE])

(* Take one from the link count of v.                                      *)
Unlinked(s, v) ==
    IF s.vnodes[v].i.linkcount = 0 THEN Panic(s, "linkcount below 0")
    ELSE [s EXCEPT !.vnodes[v].i.linkcount = @ - 1, !.vnodes[v].dirty = TRUE]

(* VOP_DECREF on the way out: the operation's result stays.                *)
Drop(s, v) == Also(s, LAMBDA d : vnode_decref(d, v))

sfs_remove(s, name) ==
    Then(sfs_lookonce(s, name), LAMBDA l :
        Drop(Then(sfs_dir_unlink(l, l.found), LAMBDA u : Unlinked(u, l.ret)), l.ret))

(* Mistake: the link count is not lowered again.                           *)
RenameUndo_count(s, v) ==
    IF s.err = "ok" THEN s ELSE Panic(s, "Cannot recover")

(* puke_harder: take the new name out again.                               *)
RenameUndo(s, v) ==
    IF s.err = "ok" THEN [s EXCEPT !.vnodes[v].i.linkcount = @ - 1]
    ELSE Panic(s, "Cannot recover")

RenameLinked(s, v, oldslot) ==
    Then(Catch(sfs_dir_unlink(s, oldslot), LAMBDA u :
                   RenameUndo(sfs_dir_unlink(u, u.slot), v)),
         LAMBDA u : Unlinked(u, v))

sfs_rename(s, n1, n2) ==
    Then(sfs_lookonce(s, n1), LAMBDA g :
        IF g.vnodes[g.ret].i.type # "file" THEN Panic(g, "rename of a directory")
        ELSE Drop(Then(sfs_dir_link(g, n2, g.ret), LAMBDA l :
                      RenameLinked([l EXCEPT !.vnodes[g.ret].i.linkcount = @ + 1,
                                             !.vnodes[g.ret].dirty = TRUE], g.ret, g.found)),
                  g.ret))

-----------------------------------------------------------------------------
(* File system operations (sfs_fsops.c).  The errors of VOP_FSYNC are      *)
(* dropped; the order of the vnodes in the array is left open.             *)
sfs_sync_vnodes(s) ==
    Return(FoldSet(LAMBDA v, t : sfs_sync_inode(t, v), s, DOMAIN s.vnodes), "ok")

(* The bitmap fits in one block.                                           *)
sfs_freemapio(s, write) ==
    IF write THEN sfs_writeblock(s, FreemapStart, [t |-> "map", u |-> s.freemap])
    ELSE Then(sfs_readblock(s, FreemapStart), LAMBDA r :
             [r EXCEPT !.freemap = r.disk[FreemapStart].u])

(* Mistake: the free map counts as stored before it is written.            *)
sfs_sync_freemap_early(s) ==
    IF ~s.freemapdirty THEN s
    ELSE sfs_freemapio([s EXCEPT !.freemapdirty = FALSE], TRUE)

sfs_sync_freemap(s) ==
    IF ~s.freemapdirty THEN s
    ELSE Then(sfs_freemapio(s, TRUE), LAMBDA w : [w EXCEPT !.freemapdirty = FALSE])

sfs_sync(s) == sfs_sync_freemap(sfs_sync_vnodes(s))

sfs_unmount(s) ==
    IF DOMAIN s.vnodes # {} THEN Return(s, "EBUSY")
    ELSE IF s.freemapdirty THEN Panic(s, "unmount of a dirty volume")
    ELSE [s EXCEPT !.freemap = {}]

sfs_fs_create(s) == Try(s, "ENOMEM")

sfs_domount(s) ==
    Then(sfs_fs_create(s), LAMBDA k : Then(sfs_readblock(k, Super), LAMBDA b :
        IF b.disk[Super].t # "super" THEN Return(b, "EINVAL")
        ELSE Then(Try(b, "ENOMEM"), LAMBDA m : sfs_freemapio(m, FALSE))))

-----------------------------------------------------------------------------
(* The operation that ran from s ends: its effects, and its references.    *)
Finish(s, h) ==
    /\ disk' = s.disk /\ freemap' = s.freemap /\ freemapdirty' = s.freemapdirty
    /\ vnodes' = s.vnodes /\ torn' = s.torn /\ panicked' = s.panic
    /\ held' = h
    /\ faulty' = IF Met(s) THEN faulty + 1 ELSE faulty
    /\ s.failing # {} => Met(s)

(* The failing calls of an operation that costs c of the budget.           *)
Faults(c) ==
    {F \in Failing \cup {{}} :
        LET f == IF F = {} THEN 0 ELSE 1
        IN  faulty + f <= MaxFaulty /\ ops + c + faulty + f <= MaxOps}

Running == panicked = "no" /\ ~torn
Same    == UNCHANGED <<mounted, ops>>
Change  == ops' = ops + 1 /\ UNCHANGED mounted
Ready   == Running /\ mounted
Holds(v) == Ready /\ held[v] > 0

(* A reference handed to the caller if the operation succeeded.            *)
Handed(s) == IF Ok(s) THEN [held EXCEPT ![s.ret] = @ + 1] ELSE held
CanTake(s) == Ok(s) => held[s.ret] < MaxRef

Mount ==
    /\ Running /\ ~mounted
    /\ \E F \in Faults(0) :
         LET s == sfs_domount(Start(F))
         IN  Finish(s, held) /\ mounted' = Ok(s)
    /\ UNCHANGED ops

(* vfs_unmount: FSOP_SYNC, then FSOP_UNMOUNT.                              *)
Unmount ==
    /\ Ready
    /\ \E F \in Faults(0) :
         LET s == Then(sfs_sync(Start(F)), sfs_unmount)
         IN  Finish(s, held) /\ mounted' = ~Ok(s)
    /\ UNCHANGED ops

Sync ==
    /\ Ready
    /\ \E F \in Faults(0) : Finish(sfs_sync(Start(F)), held)
    /\ Same

sfs_getroot ==
    /\ Ready /\ held[Root] = 0
    /\ \E F \in Faults(0) : LET s == sfs_loadvnode(Start(F), Root, "inval")
                         IN  Finish(s, Handed(s))
    /\ Same

Creat(name, excl) ==
    /\ Holds(Root)
    /\ \E F \in Faults(1) : LET s == sfs_creat(Start(F), name, excl)
                         IN  CanTake(s) /\ Finish(s, Handed(s))
    /\ Change

Lookup(name) ==
    /\ Holds(Root)
    /\ \E F \in Faults(0) : LET s == sfs_lookonce(Start(F), name)
                         IN  CanTake(s) /\ Finish(s, Handed(s))
    /\ Same

Link(name, v) ==
    /\ Holds(Root) /\ Holds(v)
    /\ \E F \in Faults(1) : Finish(sfs_link(Start(F), name, v), held)
    /\ Change

Unlink(name) ==
    /\ Holds(Root)
    /\ \E F \in Faults(1) : Finish(sfs_remove(Start(F), name), held)
    /\ Change

Rename(n1, n2) ==
    /\ Holds(Root)
    /\ \E F \in Faults(1) : Finish(sfs_rename(Start(F), n1, n2), held)
    /\ Change

IsFile(v) == Holds(v) /\ vnodes[v].i.type = "file"

Write(v, pos, len) ==
    /\ IsFile(v)
    /\ \E F \in Faults(1) : Finish(sfs_io(Start(F), v, pos, len, TRUE), held)
    /\ Change

Read(v, pos, len) ==
    /\ IsFile(v)
    /\ \E F \in Faults(0) : Finish(sfs_io(Start(F), v, pos, len, FALSE), held)
    /\ Same

Truncate(v, len) ==
    /\ IsFile(v)
    /\ \E F \in Faults(1) : Finish(sfs_itrunc(Start(F), v, len), held)
    /\ Change

Fsync(v) ==
    /\ Holds(v)
    /\ \E F \in Faults(0) : Finish(sfs_sync_inode(Start(F), v), held)
    /\ Same

Close(v) ==
    /\ Holds(v)
    /\ \E F \in Faults(0) : Finish(vnode_decref(Start(F), v), [held EXCEPT ![v] = @ - 1])
    /\ Same

Stopped == ~Running /\ UNCHANGED vars

Next ==
    \/ Mount \/ Unmount \/ Sync \/ sfs_getroot
    \/ \E n \in Name : \/ Lookup(n) \/ Unlink(n)
                       \/ \E excl \in BOOLEAN : Creat(n, excl)
                       \/ \E m \in Name : Rename(n, m)
                       \/ \E v \in Ino : Link(n, v)
    \/ \E v \in Ino :
         \/ Fsync(v) \/ Close(v)
         \/ \E len \in Length : Truncate(v, len)
         \/ \E e \in Extent : Write(v, e[1], e[2]) \/ Read(v, e[1], e[2])
    \/ Stopped

Spec == Init /\ [][Next]_vars
-----------------------------------------------------------------------------
(* The volume as the code would find it now: a loaded inode is the one in  *)
(* memory, any other the one on disk.                                      *)
CurInode(n) == IF n \in DOMAIN vnodes THEN vnodes[n].i ELSE Inode(disk[n])
CurMap      == IF mounted THEN freemap ELSE disk[FreemapStart].u

(* From the blocks of a file to disk blocks, 0 where there is none.        *)
BlockMap(i) ==
    [k \in 0..(NDIRECT + DBPERIDB - 1) |->
        IF k < NDIRECT THEN i.direct[k]
        ELSE IF i.indirect = 0 THEN 0 ELSE Ids(disk[i.indirect])[k - NDIRECT]]

Slots == 0..(CurInode(Root).size - 1)
EntryAt(slot) ==
    LET b == BlockMap(CurInode(Root))[slot \div BLOCKSIZE]
    IN  IF b = 0 THEN NoEntry ELSE Entries(disk[b])[slot % BLOCKSIZE]
Named == {EntryAt(k).ino : k \in Slots} \ {0}
Live  == {Root} \cup Named \cup DOMAIN vnodes

(* Every use of a disk block: <<inode, place>>, where place -1 is the      *)
(* inode itself, -2 its indirect block and k >= 0 its k-th block.          *)
UsedAt(n) ==
    LET i == CurInode(n)
    IN  [k \in -2..(NDIRECT + DBPERIDB - 1) |->
            IF k = -1 THEN n ELSE IF k = -2 THEN i.indirect ELSE BlockMap(i)[k]]
Uses == {x \in Live \X (-2..(NDIRECT + DBPERIDB - 1)) : UsedAt(x[1])[x[2]] # 0}
UsedBlocks == {UsedAt(x[1])[x[2]] : x \in Uses}

TypeOK ==
    /\ DOMAIN disk = 0..(NBLOCKS - 1)
    /\ mounted \in BOOLEAN /\ freemapdirty \in BOOLEAN /\ torn \in BOOLEAN
    /\ freemap \subseteq 0..(NBLOCKS - 1)
    /\ DOMAIN vnodes \subseteq Ino
    /\ \A n \in DOMAIN vnodes : vnodes[n].ref \in 1..(MaxRef + 1) /\ vnodes[n].dirty \in BOOLEAN
    /\ held \in [Ino -> 0..MaxRef]
    /\ ops \in 0..MaxOps /\ faulty \in 0..MaxFaulty
(* A disk block has one use at most, and every block in use is marked in   *)
(* the bitmap: sfs_balloc hands out no block that an inode, an indirect    *)
(* block or a directory entry still leads to, whatever call has failed     *)
(* before, up to a truncation whose indirect block could not be written.   *)
BlocksOwned ==
    ~torn => /\ UsedBlocks \subseteq CurMap \ {Super, FreemapStart}
             /\ Cardinality(UsedBlocks) = Cardinality(Uses)

(* As long as no call has failed, a marked block is in use: no sequence of *)
(* creat, link, write, truncate, remove and close (ENOSPC half way into an *)
(* operation included) loses a block.                                      *)
NoBlockLost == faulty = 0 => CurMap = UsedBlocks \cup {Super, FreemapStart}

(* The link count of an inode is the number of directory entries that name *)
(* it, through every failing creat, link, remove and rename.               *)
LinkCounts ==
    ~torn /\ panicked = "no" =>
        \A n \in Live \ {Root} :
            CurInode(n).linkcount = Cardinality({k \in Slots : EntryAt(k).ino = n})

(* What a file holds at a position is a datum that was written to that     *)
(* file at that position, or zero: never what another file left in a block *)
(* that has been reused.                                                   *)
DataInPlace ==
    ~torn => \A n \in Live \ {Root} :
        LET m == BlockMap(CurInode(n))
        IN  \A k \in DOMAIN m : m[k] # 0 =>
                \A o \in 0..(BLOCKSIZE - 1) :
                    Data(disk[m[k]])[o] \in {NoData, <<n, k * BLOCKSIZE + o + 1>>}

(* What was written to a file stays there until the file is cut: no other  *)
(* operation on this or another file, no partial block and no unmount      *)
(* takes it away, and a failing call at most whole blocks (sfs_itrunc has  *)
(* given back the direct blocks when reading the indirect one fails).      *)
Content(n) ==
    LET i == CurInode(n)
    IN  [p \in 0..(i.size - 1) |->
            LET b == BlockMap(i)[p \div BLOCKSIZE]
            IN  IF b = 0 THEN NoData ELSE Data(disk[b])[p % BLOCKSIZE]]
ContentKept ==
    ~torn' => \A n \in (Live \cap Live') \ {Root} :
        \A p \in DOMAIN Content(n) \cap DOMAIN Content(n)' :
            /\ Content(n)[p] # NoData
            /\ faulty' = faulty \/ BlockMap(CurInode(n))'[p \div BLOCKSIZE] # 0
            => Content(n)'[p] = Content(n)[p]
WrittenStays == [][ContentKept]_vars

(* A vnode is loaded while it is held, and its count is the number of      *)
(* holders, with one more after a reclaim that failed.                     *)
RefsHeld ==
    panicked = "no" =>
        \A n \in Ino :
            IF n \in DOMAIN vnodes
            THEN vnodes[n].ref - held[n] \in IF faulty = 0 THEN {0} ELSE {0, 1}
            ELSE held[n] = 0

(* No assertion and no panic of the code is reached, but for the one in    *)
(* rename when undoing its first step fails too.                           *)
NoPanic == panicked \in {"no", "Cannot recover"}

(* What is in memory and not marked dirty is what the disk holds: a write  *)
(* that failed, or was skipped, leaves its dirty mark set.                 *)
CleanIsStored ==
    /\ \A n \in DOMAIN vnodes : ~vnodes[n].dirty => Inode(disk[n]) = vnodes[n].i
    /\ mounted /\ ~freemapdirty => disk[FreemapStart].u = freemap

(* sfs_itrunc leaves at most one block past the end of a file: the one     *)
(* that follows the last one in use (the comparisons with blocklen).       *)
OneBlockPastEnd ==
    faulty = 0 => \A n \in Live :
        LET i == CurInode(n)
        IN  \A k \in DOMAIN BlockMap(i) : BlockMap(i)[k] # 0 => k * BLOCKSIZE < i.size + BLOCKSIZE

(* sfs_itrunc leaves no block past the new end of file ("Discard any       *)
(* blocks that are past the new EOF", sfs_bmap.c).                         *)
NoBlockPastEnd ==
    faulty = 0 => \A n \in Live :
        LET i == CurInode(n)
        IN  \A k \in DOMAIN BlockMap(i) : BlockMap(i)[k] # 0 => k * BLOCKSIZE < i.size
=============================================================================
