-------------------------------- MODULE Vfs ---------------------------------
(***************************************************************************)
(* The VFS layer: the table of devices and file systems (vfslist.c), the   *)
(* way from a path to a vnode (vfslookup.c), current directories           *)
(* (vfscwd.c), the operations on paths (vfspath.c), the reference counts   *)
(* of vnodes (vnode.c), and the processes that hold vnodes: the menu and   *)
(* the programs it starts (proc.c, runprogram.c, menu.c).                  *)
(*                                                                         *)
(* An action is one operation, run whole.  A file system is what the VFS   *)
(* layer sees of it: names, vnodes that are loaded and reclaimed, and      *)
(* operations that may fail.  A vnode is <<device, k>>: its k-th file, its *)
(* root directory if k is 0, and the device itself if k is -1.  A path is  *)
(* a sequence of names and of the characters ":" and "/".                  *)
(***************************************************************************)
EXTENDS Integers, Sequences, FiniteSets, FiniteSetsExt, SequencesExt, Calls, VnodeOps

CONSTANTS
    Boot,      \* what the boot attaches, in order: [name, mountable, fs, vol, files]
    Program,   \* processes of programs
    Path,      \* the paths that are used,
    Pairs,     \* and the pairs of paths rename and link are given
    Flags,     \* the flags of open: [write, creat, excl, trunc]
    MaxFiles, MaxHeld, MaxOps, MaxFaulty, MaxCall

ASSUME VfsAssumption ==
    /\ \A i \in DOMAIN Boot : Boot[i].mountable \in BOOLEAN
    /\ MaxFiles \in Nat /\ MaxHeld \in Nat /\ MaxOps \in Nat
    /\ MaxFaulty \in Nat /\ MaxCall \in Nat
    /\ \A i, j \in DOMAIN Boot : Boot[i].name = Boot[j].name => i = j

Menu == "menu"
Proc == Program \cup {Menu}
None == <<"none", -1>>
NULL == "NULL"
Dev  == {Boot[i].name : i \in DOMAIN Boot}
Desc(d) == CHOOSE b \in {Boot[i] : i \in DOMAIN Boot} : b.name = d

VARIABLES
    todo,      \* devices the boot has yet to attach
    devs,      \* knowndevs: [name, rawname, fs]
    ref,       \* vn_refcount of the vnodes that exist
    dirs,      \* for every volume, from names to the files they lead to
    bootfs,    \* bootfs_vnode
    cwd,       \* p_cwd
    pname,     \* p_name, as a path
    prog,      \* ghost: the path the program was started by
    pstate,    \* "none", "new" (forked), "run" or "dead"
    swapfile,  \* the vnode swapfile_init opened, and never closes
    held,      \* ghost: references callers of the VFS layer have been given
    phase,     \* "attach", "boot", "up" or "down"
    ops, faulty, panicked

vars == <<todo, devs, ref, dirs, bootfs, cwd, pname, prog, pstate, swapfile, held,
          phase, ops, faulty, panicked>>

Root(d) == <<d, 0>>
Raw(d)  == <<d, -1>>
Vnode   == Dev \X (-1..MaxFiles)

Init ==
    /\ todo = Boot
    /\ devs = << >>
    /\ ref = << >>
    /\ dirs = [d \in Dev |-> Desc(d).files]
    /\ bootfs = None
    /\ cwd = [p \in Proc |-> None]
    /\ pname = [p \in Proc |-> << >>]
    /\ prog = [p \in Proc |-> << >>]
    /\ swapfile = None
    /\ pstate = [p \in Proc |-> IF p = Menu THEN "run" ELSE "none"]
    /\ held = [v \in Vnode |-> 0]
    /\ phase = "attach" /\ ops = 0 /\ faulty = 0 /\ panicked = "no"

Start(F) == [devs |-> devs, ref |-> ref, dirs |-> dirs, boot |-> bootfs, cwd |-> cwd,
             path |-> << >>, sub |-> << >>, failing |-> F, calls |-> 0,
             err |-> "ok", ret |-> None, panic |-> "no"]

-----------------------------------------------------------------------------
(* Vnodes and file systems.                                                *)
HasFs(kd) == kd.fs \notin {"none", "swap"}
IsDir(v)  == v[2] = 0
Class(v)  == IF v[2] = -1 THEN "dev"
             ELSE CASE Desc(v[1]).fs = "emufs" -> IF IsDir(v) THEN "emufs_dir" ELSE "emufs_file"
                    [] Desc(v[1]).fs = "semfs" -> IF IsDir(v) THEN "semfs_dir" ELSE "semfs_file"
                    [] OTHER                   -> IF IsDir(v) THEN "sfs_dir" ELSE "sfs_file"
vn_fs(v)  == IF v[2] = -1 THEN NULL ELSE v[1]

vnode_init(s, v) == [s EXCEPT !.ref = [w \in DOMAIN @ \cup {v} |-> IF w = v THEN 1 ELSE @[w]]]
vnode_cleanup(s, v) == [s EXCEPT !.ref = [w \in DOMAIN @ \ {v} |-> @[w]]]

vnode_incref(s, v) ==
    Kassert(s, v \in DOMAIN s.ref, "no vnode", LAMBDA t : [t EXCEPT !.ref[v] = @ + 1])

(* VOP_RECLAIM of a device does nothing.  That of a file system may fail,  *)
(* and then the vnode stays, with the reference that was being dropped.    *)
VOP_RECLAIM(s, v) ==
    IF Class(v) = "dev" THEN s
    ELSE Then(Try(s, "EIO"), LAMBDA t : vnode_cleanup(t, v))

(* vnode_decref returns nothing: the result of the operation is kept.      *)
vnode_decref(s, v) ==
    Also(s, LAMBDA t :
        Kassert(t, v \in DOMAIN t.ref, "no vnode", LAMBDA u :
            IF u.ref[v] > 1 THEN [u EXCEPT !.ref[v] = @ - 1] ELSE VOP_RECLAIM(u, v)))

Load(s, v) ==
    IF v \in DOMAIN s.ref THEN [vnode_incref(s, v) EXCEPT !.ret = v]
    ELSE Then(Try(s, "EIO"), LAMBDA t : [vnode_init(t, v) EXCEPT !.ret = v])

(* emufs asks the device for a handle before it looks for the vnode.       *)
LoadFile(s, v) ==
    IF Class(v) = "emufs_file" THEN Then(Try(s, "EIO"), LAMBDA t : Load(t, v)) ELSE Load(s, v)

(* The root of emufs is loaded for as long as the machine runs.            *)
FSOP_GETROOT(s, d) == Load(s, Root(d))
FSOP_GETVOLNAME(d) == Desc(d).vol
FSOP_SYNC(s, d)    == Try(s, "EIO")
(* Mistake: a busy volume is unmounted.                                    *)
FSOP_UNMOUNT_busy(s, d) == Try(s, "EIO")

FSOP_UNMOUNT(s, d) ==
    IF \E v \in DOMAIN s.ref : v[1] = d /\ v[2] >= 0 THEN Return(s, "EBUSY") ELSE Try(s, "EIO")

-----------------------------------------------------------------------------
(* The table of devices.                                                   *)
mkrawname(name) == name \o "raw"
VolName(kd) == IF HasFs(kd) THEN FSOP_GETVOLNAME(kd.name) ELSE NULL
NamesOf(kd) == {kd.name, kd.rawname, VolName(kd)} \ {NULL}

badnames(s, N) == \E i \in DOMAIN s.devs : NamesOf(s.devs[i]) \cap N # {}

(* vfs_doadd: the copies of the names, the vnode, the entry.               *)
vfs_doadd(s, b) ==
    LET kd == [name |-> b.name, fs |-> b.fs,
               rawname |-> IF b.mountable THEN mkrawname(b.name) ELSE NULL]
    IN  Then(Try(s, "ENOMEM"), LAMBDA a :
          Then(IF b.mountable THEN Try(a, "ENOMEM") ELSE a, LAMBDA r :
            Then(Try(r, "ENOMEM"), LAMBDA v : Then(Try(v, "ENOMEM"), LAMBDA k :
              IF badnames(k, NamesOf(kd)) THEN Return(k, "EEXIST")
              ELSE Then(Try(k, "ENOMEM"), LAMBDA x :
                       [vnode_init(x, Raw(b.name)) EXCEPT !.devs = Append(@, kd)])))))

(* emufs_addtovfs: the root is loaded first, and dropped if that fails.    *)
emufs_addtovfs(s, b) ==
    Then(Load(s, Root(b.name)), LAMBDA r :
        Catch(vfs_doadd(r, b), LAMBDA f : vnode_decref(f, Root(b.name))))

(* The devices that are not on the bus must be there (vfs_bootstrap).      *)
AddDevice(s, b) ==
    IF b.fs = "emufs" THEN emufs_addtovfs(s, b)
    ELSE LET a == vfs_doadd(s, b)
         IN  IF b.name \in {"null", "sem"} /\ ~Ok(a) THEN Panic(a, "vfs_bootstrap") ELSE a

Found(s, name) == {i \in DOMAIN s.devs : name \in NamesOf(s.devs[i])}

(* Hand back the vnode of the device itself.                               *)
RawVnode(s, kd) == [vnode_incref(s, Raw(kd.name)) EXCEPT !.ret = Raw(kd.name)]

vfs_getroot(s, name) ==
    IF Found(s, name) = {} THEN Return(s, "ENODEV")
    ELSE LET kd == s.devs[Min(Found(s, name))]
         IN  IF HasFs(kd) /\ name \in {kd.name, VolName(kd)} THEN FSOP_GETROOT(s, kd.name)
             ELSE IF kd.rawname # NULL /\ name = kd.name THEN Return(s, "ENXIO")
             ELSE IF name = kd.name
                  THEN Kassert(s, kd.fs = "none", "kd_fs==NULL", LAMBDA t : RawVnode(t, kd))
             ELSE RawVnode(s, kd)

vfs_getdevname(s, fs) ==
    LET on == {i \in DOMAIN s.devs : HasFs(s.devs[i]) /\ s.devs[i].name = fs}
    IN  IF on = {} THEN NULL ELSE s.devs[Min(on)].name

(* The mountable device called name: its place in the table.               *)
findmount(s, name) ==
    LET at == {i \in DOMAIN s.devs : s.devs[i].rawname # NULL /\ s.devs[i].name = name}
    IN  IF at = {} THEN Return(s, "ENODEV") ELSE [s EXCEPT !.ret = Min(at)]

SetFs(s, i, fs) == [s EXCEPT !.devs[i].fs = fs]

vfs_mount(s, name) ==
    Then(findmount(s, name), LAMBDA t :
        IF t.devs[t.ret].fs # "none" THEN Return(t, "EBUSY")
        ELSE Then(Try(t, "EIO"), LAMBDA m : SetFs(m, t.ret, "sfs")))

vfs_swapon(s, name) ==
    Then(findmount(s, name), LAMBDA t :
        IF t.devs[t.ret].fs # "none" THEN Return(t, "EBUSY")
        ELSE RawVnode(SetFs(t, t.ret, "swap"), t.devs[t.ret]))

vfs_unmount(s, name) ==
    Then(findmount(s, name), LAMBDA t :
        IF ~HasFs(t.devs[t.ret]) THEN Return(t, "EINVAL")
        ELSE Then(FSOP_SYNC(t, name), LAMBDA y :
                 Then(FSOP_UNMOUNT(y, name), LAMBDA u : SetFs(u, t.ret, "none"))))

vfs_swapoff(s, name) ==
    Then(findmount(s, name), LAMBDA t :
        IF t.devs[t.ret].fs # "swap" THEN Return(t, "EINVAL") ELSE SetFs(t, t.ret, "none"))

(* A sync that failed is tried once more.                                  *)
SyncTwice(s, d) == LET y == FSOP_SYNC(s, d) IN IF Ok(y) THEN y ELSE FSOP_SYNC(y, d)

UnmountOne(s, i) ==
    IF s.devs[i].rawname = NULL \/ s.devs[i].fs = "none" THEN s
    ELSE IF s.devs[i].fs = "swap" THEN SetFs(s, i, "none")
    ELSE Return(Then(SyncTwice(s, s.devs[i].name), LAMBDA y :
                    Then(FSOP_UNMOUNT(y, s.devs[i].name), LAMBDA u : SetFs(u, i, "none"))), "ok")

vfs_unmountall(s) == FoldLeft(UnmountOne, s, [i \in DOMAIN s.devs |-> i])

vfs_sync(s) ==
    FoldLeft(LAMBDA t, kd : IF HasFs(kd) THEN Return(FSOP_SYNC(t, kd.name), "ok") ELSE t,
             s, s.devs)

-----------------------------------------------------------------------------
(* Current directories.                                                    *)
vfs_getcurdir(s, p) ==
    IF s.cwd[p] = None THEN Return(s, "ENOENT")
    ELSE [vnode_incref(s, s.cwd[p]) EXCEPT !.ret = s.cwd[p]]

ChangeCwd(s, p, v) ==
    LET old == s.cwd[p]
        t   == [s EXCEPT !.cwd[p] = v]
    IN  IF old = None THEN t ELSE vnode_decref(t, old)

vfs_setcurdir(s, p, v) ==
    IF ~IsDir(v) THEN Return(s, "ENOTDIR") ELSE ChangeCwd(vnode_incref(s, v), p, v)

vfs_clearcurdir(s, p) == ChangeCwd(s, p, None)

-----------------------------------------------------------------------------
(* From paths to vnodes.  getdevice hands back the vnode to start from in  *)
(* s.ret and what is left of the path in s.sub; it cuts the path it was    *)
(* given after the device name, which is s.path afterwards.                *)
Stops(path) == {i \in DOMAIN path : path[i] \in {":", "/"}}

(* The path after position k and the slashes there.                        *)
After(path, k) ==
    LET from == {j \in (k + 1)..(Len(path) + 1) : j = Len(path) + 1 \/ path[j] # "/"}
    IN  SubSeq(path, Min(from), Len(path))

FromDevice(s, path, colon) ==
    LET name == IF colon = 2 THEN path[1] ELSE NULL
    IN  vfs_getroot([s EXCEPT !.sub = After(path, colon), !.path = SubSeq(path, 1, colon - 1)],
                    name)

FromBootfs(s, path) ==
    IF s.boot = None THEN Return(s, "ENOENT")
    ELSE [vnode_incref(s, s.boot) EXCEPT !.ret = s.boot, !.sub = After(path, 1)]

FromVolume(s, p, path) ==
    Then(vfs_getcurdir(s, p), LAMBDA c :
        Kassert(c, vn_fs(c.ret) # NULL, "vn_fs!=NULL", LAMBDA k :
            [vnode_decref(FSOP_GETROOT(k, vn_fs(c.ret)), c.ret) EXCEPT !.sub = After(path, 1)]))

getdevice(s, p, path) ==
    LET t == [s EXCEPT !.path = path, !.sub = path]
        i == Min(Stops(path))
    IN  IF path = << >> THEN Return(s, "EINVAL")
        ELSE IF Stops(path) = {} \/ (path[i] = "/" /\ i > 1) THEN vfs_getcurdir(t, p)
        ELSE IF i > 1 THEN FromDevice(t, path, i)
        ELSE IF path[1] = "/" THEN FromBootfs(t, path)
        ELSE FromVolume(t, p, path)

(* The lookup of a file system: a name in its directory.                   *)
VOP_LOOKUP(s, v, sub) ==
    IF Class(v) = "dev" THEN Return(s, "ENOENT")
    ELSE IF VOP(Class(v), "lookup") # "impl" THEN Return(s, VOP(Class(v), "lookup"))
    ELSE IF sub \notin DOMAIN s.dirs[v[1]] THEN Return(s, "ENOENT")
    ELSE LoadFile(s, <<v[1], s.dirs[v[1]][sub]>>)

(* The directory itself: the names here have one component.                *)
VOP_LOOKPARENT(s, v) ==
    IF VOP(Class(v), "lookparent") # "impl" THEN Return(s, VOP(Class(v), "lookparent"))
    ELSE [vnode_incref(s, v) EXCEPT !.ret = v]

vfs_lookparent(s, p, path) ==
    Then(getdevice(s, p, path), LAMBDA g :
        vnode_decref(IF g.sub = << >> THEN Return(g, "EINVAL") ELSE VOP_LOOKPARENT(g, g.ret),
                     g.ret))

(* Mistake: the vnode the search started from is kept.                     *)
vfs_lookup_leak(s, p, path) ==
    Then(getdevice(s, p, path), LAMBDA g :
        IF g.sub = << >> THEN g ELSE VOP_LOOKUP(g, g.ret, g.sub))

vfs_lookup(s, p, path) ==
    Then(getdevice(s, p, path), LAMBDA g :
        IF g.sub = << >> THEN g ELSE vnode_decref(VOP_LOOKUP(g, g.ret, g.sub), g.ret))

vfs_chdir(s, p, path) ==
    Then(vfs_lookup(s, p, path), LAMBDA l : vnode_decref(vfs_setcurdir(l, p, l.ret), l.ret))

change_bootfs(s, v) ==
    LET t == [s EXCEPT !.boot = v] IN IF s.boot = None THEN t ELSE vnode_decref(t, s.boot)

(* A name with a colon is refused, wherever the colon is.                  *)
vfs_setbootfs(s, name) ==
    IF \E i \in DOMAIN name : name[i] = ":" THEN Return(s, "EINVAL")
    ELSE Then(vfs_chdir(s, Menu, Append(name, ":")), LAMBDA c :
             Then(vfs_getcurdir(c, Menu), LAMBDA g : change_bootfs(g, g.ret)))

vfs_clearbootfs(s) == change_bootfs(s, None)

vfs_getcwd(s, p) ==
    Then(vfs_getcurdir(s, p), LAMBDA g :
        Kassert(g, vn_fs(g.ret) # NULL, "vn_fs != NULL", LAMBDA k :
            Kassert(k, \/ FSOP_GETVOLNAME(vn_fs(g.ret)) # NULL
                       \/ vfs_getdevname(k, vn_fs(g.ret)) # NULL, "name != NULL",
                    LAMBDA n : vnode_decref(n, g.ret))))

-----------------------------------------------------------------------------
(* Operations on paths.                                                    *)
FreeFile(s, d) ==
    {k \in 1..MaxFiles : k \notin Range(s.dirs[d]) /\ <<d, k>> \notin DOMAIN s.ref}

AddName(s, d, name, k) ==
    [s EXCEPT !.dirs[d] = [n \in DOMAIN @ \cup {name} |-> IF n = name THEN k ELSE @[n]]]
DropName(s, d, name) == [s EXCEPT !.dirs[d] = [n \in DOMAIN @ \ {name} |-> @[n]]]

(* creat: sfs and semfs enter the name last, and drop the new file if that *)
(* fails; on emufs the device has the name before the vnode is loaded.     *)
CreatNew(s, d, name, k) ==
    IF Desc(d).fs = "emufs"
    THEN Then(Try(s, "EIO"), LAMBDA e : Load(AddName(e, d, name, k), <<d, k>>))
    ELSE Then(Load(s, <<d, k>>), LAMBDA l :
             Then(Catch(Try(l, "EIO"), LAMBDA f : vnode_decref(f, <<d, k>>)),
                  LAMBDA n : AddName(n, d, name, k)))

VOP_CREAT(s, v, name, excl) ==
    IF name \in DOMAIN s.dirs[v[1]]
    THEN IF excl THEN Return(s, "EEXIST") ELSE LoadFile(s, <<v[1], s.dirs[v[1]][name]>>)
    ELSE IF FreeFile(s, v[1]) = {} THEN Return(s, "ENOSPC")
    ELSE CreatNew(s, v[1], name, Min(FreeFile(s, v[1])))

VOP_EACHOPEN(s, v, f) ==
    IF Class(v) = "dev" THEN IF f.creat \/ f.excl \/ f.trunc THEN Return(s, "EINVAL") ELSE Try(s, "EIO")
    ELSE IF IsDir(v) /\ f.write THEN Return(s, "EISDIR")
    ELSE s

VOP_TRUNCATE(s, v) ==
    IF Class(v) = "dev" THEN Return(s, "EINVAL")
    ELSE IF VOP(Class(v), "truncate") # "impl" THEN Return(s, VOP(Class(v), "truncate"))
    ELSE Try(s, "EIO")

OpenFind(s, p, path, f) ==
    IF f.creat
    THEN Then(vfs_lookparent(s, p, path), LAMBDA d :
             vnode_decref(VOP_CREAT(d, d.ret, d.sub, f.excl), d.ret))
    ELSE vfs_lookup(s, p, path)

vfs_open(s, p, path, f) ==
    Then(OpenFind(s, p, path, f), LAMBDA o :
        Catch(Then(VOP_EACHOPEN(o, o.ret, f), LAMBDA e :
                  IF ~f.trunc THEN e
                  ELSE IF ~f.write THEN Return(e, "EINVAL")
                  ELSE VOP_TRUNCATE(e, o.ret)),
              LAMBDA e : vnode_decref(e, o.ret)))

vfs_close(s, v) == vnode_decref(s, v)

VOP_REMOVE(s, v) ==
    IF s.sub \notin DOMAIN s.dirs[v[1]] THEN Return(s, "ENOENT")
    ELSE Then(Try(s, "EIO"), LAMBDA t : DropName(t, v[1], s.sub))

(* An operation op on a name in its parent directory.  No file system does *)
(* any of these but remove.                                                *)
OnName(s, p, path, op) ==
    Then(vfs_lookparent(s, p, path), LAMBDA d :
        vnode_decref(IF VOP(Class(d.ret), op) # "impl" THEN Return(d, VOP(Class(d.ret), op))
                     ELSE VOP_REMOVE(d, d.ret), d.ret))

vfs_remove(s, p, path)  == OnName(s, p, path, "remove")
vfs_symlink(s, p, path) == OnName(s, p, path, "symlink")
vfs_mkdir(s, p, path)   == OnName(s, p, path, "mkdir")
vfs_rmdir(s, p, path)   == OnName(s, p, path, "rmdir")

vfs_readlink(s, p, path) ==
    Then(vfs_lookup(s, p, path), LAMBDA l :
        vnode_decref(Return(l, VOP(Class(l.ret), "readlink")), l.ret))

VOP_RENAME(s, d, n1, n2) ==
    IF VOP(Class(Root(d)), "rename") # "impl" THEN Return(s, VOP(Class(Root(d)), "rename"))
    ELSE IF n1 \notin DOMAIN s.dirs[d] THEN Return(s, "ENOENT")
    ELSE IF n2 \in DOMAIN s.dirs[d] THEN Return(s, "EEXIST")
    ELSE Then(Try(s, "EIO"), LAMBDA t : DropName(AddName(t, d, n2, t.dirs[d][n1]), d, n1))

VOP_LINK(s, d, name, v) ==
    IF VOP(Class(Root(d)), "link") # "impl" THEN Return(s, VOP(Class(Root(d)), "link"))
    ELSE IF IsDir(v) THEN Return(s, "EINVAL")
    ELSE IF name \in DOMAIN s.dirs[d] THEN Return(s, "EEXIST")
    ELSE Then(Try(s, "EIO"), LAMBDA t : AddName(t, d, name, v[2]))

(* Two directories found one after the other; both are dropped at the end. *)
vfs_rename(s, p, old, new) ==
    Then(vfs_lookparent(s, p, old), LAMBDA o :
        vnode_decref(
            Then(vfs_lookparent(o, p, new), LAMBDA n :
                vnode_decref(IF vn_fs(o.ret) # vn_fs(n.ret) THEN Return(n, "EXDEV")
                             ELSE VOP_RENAME(n, vn_fs(n.ret), o.sub, n.sub), n.ret)),
            o.ret))

vfs_link(s, p, old, new) ==
    Then(vfs_lookup(s, p, old), LAMBDA o :
        vnode_decref(
            Then(vfs_lookparent(o, p, new), LAMBDA n :
                vnode_decref(IF vn_fs(o.ret) # vn_fs(n.ret) THEN Return(n, "EXDEV")
                             ELSE VOP_LINK(n, vn_fs(n.ret), n.sub, o.ret), n.ret)),
            o.ret))

-----------------------------------------------------------------------------
(* Processes.                                                              *)
proc_create_runprogram(s, p) ==
    Then(Try(s, "ENOMEM"), LAMBDA a : Then(Try(a, "ENOMEM"), LAMBDA n :
        IF n.cwd[Menu] = None THEN n
        ELSE [vnode_incref(n, n.cwd[Menu]) EXCEPT !.cwd[p] = n.cwd[Menu]]))

proc_destroy(s, p) == IF s.cwd[p] = None THEN s ELSE vfs_clearcurdir(s, p)

common_prog(s, p) ==
    Then(proc_create_runprogram(s, p), LAMBDA c :
        Catch(Try(c, "ENOMEM"), LAMBDA f : proc_destroy(f, p)))

ReadOnly == [write |-> FALSE, creat |-> FALSE, excl |-> FALSE, trunc |-> FALSE]

(* Open the file, create the address space, load, close.                   *)
runprogram(s, p, path) ==
    Then(vfs_open(s, p, path, ReadOnly), LAMBDA o :
        vfs_close(Then(Try(o, "ENOMEM"), LAMBDA a :
                      IF o.ret[2] <= 0 THEN Return(a, "ENOEXEC") ELSE Try(a, "EIO")), o.ret))

(* A page of the program is loaded on demand (vm_fault): the file is found *)
(* by the name of the process.  What is left of the name is s.path.  A     *)
(* program that cannot go on stops the machine (kill_curthread).           *)
ReopenProgram(s, p) ==
    LET r == Then(vfs_open(s, p, pname[p], ReadOnly), LAMBDA o : vfs_close(Try(o, "EIO"), o.ret))
    IN  IF Ok(r) THEN r ELSE Panic(r, "kill_curthread")

(* The swapfile is created at boot in the current directory there, and     *)
(* found again by its name in that of the process that swaps.              *)
filename == <<"swapfile">>
ReadWrite == [ReadOnly EXCEPT !.write = TRUE]

swapfile_init(s) ==
    LET o == vfs_open(s, Menu, filename, [ReadWrite EXCEPT !.creat = TRUE])
    IN  IF Ok(o) THEN o ELSE Panic(o, "swapfile creation")

SwapPage(s, p) ==
    LET o == vfs_open(s, p, filename, ReadWrite)
    IN  IF Ok(o) THEN vfs_close(Try(o, "EIO"), o.ret) ELSE Panic(o, "swapfile opening")

(* The end of boot: the boot file system may be missing.                   *)
BootFs(s) == swapfile_init(Return(vfs_setbootfs(s, <<"emu0">>), "ok"))

shutdown(s, p) == vfs_unmountall(vfs_clearcurdir(vfs_clearbootfs(s), p))

-----------------------------------------------------------------------------
Faults(c) ==
    {F \in {{}} \cup {{n} : n \in 1..MaxCall} :
        LET f == IF F = {} THEN 0 ELSE 1
        IN  faulty + f <= MaxFaulty /\ ops + c + faulty + f <= MaxOps}

(* The operation ran from Start(F) to s.                                   *)
Finish(s) ==
    /\ devs' = s.devs /\ ref' = s.ref /\ dirs' = s.dirs /\ bootfs' = s.boot
    /\ cwd' = s.cwd /\ panicked' = s.panic
    /\ s.failing # {} => Met(s)
    /\ faulty' = IF Met(s) THEN faulty + 1 ELSE faulty

Booted == phase = "up" /\ panicked = "no"
Runs(p) == Booted /\ pstate[p] = "run"

(* A reference handed to the caller if the operation succeeded.            *)
Handed(s) == /\ Ok(s) => held[s.ret] < MaxHeld
             /\ held' = IF Ok(s) THEN [held EXCEPT ![s.ret] = @ + 1] ELSE held

Quiet  == UNCHANGED <<todo, pname, prog, pstate, swapfile, held, phase>>
Change == Quiet /\ ops' = ops + 1

Attach ==
    /\ phase = "attach" /\ todo # << >> /\ panicked = "no"
    /\ \E F \in Faults(0) : Finish(AddDevice(Start(F), Head(todo)))
    /\ todo' = Tail(todo)
    /\ UNCHANGED <<pname, prog, pstate, swapfile, held, phase, ops>>

BootEnd ==
    /\ phase = "attach" /\ todo = << >> /\ panicked = "no"
    /\ \E F \in Faults(0) : LET s == BootFs(Start(F)) IN Finish(s) /\ swapfile' = s.ret
    /\ phase' = "up"
    /\ UNCHANGED <<todo, pname, prog, pstate, held, ops>>

Mount(d) == /\ Booted
            /\ \E F \in Faults(1) : Finish(vfs_mount(Start(F), d))
            /\ Change
Unmount(d) == /\ Booted
              /\ \E F \in Faults(1) : Finish(vfs_unmount(Start(F), d))
              /\ Change
SwapOn(d) == /\ Booted
             /\ \E F \in Faults(1) : LET s == vfs_swapon(Start(F), d) IN Finish(s) /\ Handed(s)
             /\ ops' = ops + 1 /\ UNCHANGED <<todo, pname, prog, pstate, swapfile, phase>>
SwapOff(d) == /\ Booted
              /\ \E F \in Faults(1) : Finish(vfs_swapoff(Start(F), d))
              /\ Change
Sync == /\ Booted
        /\ \E F \in Faults(0) : Finish(vfs_sync(Start(F)))
        /\ Quiet /\ UNCHANGED ops
SetBootfs(name) == /\ Booted
                   /\ \E F \in Faults(1) : Finish(vfs_setbootfs(Start(F), name))
                   /\ Change
Chdir(path) == /\ Booted
               /\ \E F \in Faults(1) : Finish(vfs_chdir(Start(F), Menu, path))
               /\ Change
Getcwd == /\ Booted
          /\ \E F \in Faults(0) : Finish(vfs_getcwd(Start(F), Menu))
          /\ Quiet /\ UNCHANGED ops
Open(path, f) ==
    /\ Booted
    /\ \E F \in Faults(1) : LET s == vfs_open(Start(F), Menu, path, f) IN Finish(s) /\ Handed(s)
    /\ ops' = ops + 1 /\ UNCHANGED <<todo, pname, prog, pstate, swapfile, phase>>
Close(v) ==
    /\ Booted /\ held[v] > 0
    /\ \E F \in Faults(0) : Finish(vfs_close(Start(F), v))
    /\ held' = [held EXCEPT ![v] = @ - 1]
    /\ UNCHANGED <<todo, pname, prog, pstate, swapfile, phase, ops>>
Unlink(path) == /\ Booted
                /\ \E F \in Faults(1) : \/ Finish(vfs_remove(Start(F), Menu, path))
                                        \/ Finish(vfs_rmdir(Start(F), Menu, path))
                /\ Change
Make(path) == /\ Booted
              /\ \E F \in Faults(1) : \/ Finish(vfs_mkdir(Start(F), Menu, path))
                                      \/ Finish(vfs_symlink(Start(F), Menu, path))
              /\ Change
Readlink(path) == /\ Booted
                  /\ \E F \in Faults(1) : Finish(vfs_readlink(Start(F), Menu, path))
                  /\ Change
Rename(old, new) == /\ Booted
                    /\ \E F \in Faults(1) : Finish(vfs_rename(Start(F), Menu, old, new))
                    /\ Change
Link(old, new) == /\ Booted
                  /\ \E F \in Faults(1) : Finish(vfs_link(Start(F), Menu, old, new))
                  /\ Change

(* The menu starts a program; the thread it forked then runs it.           *)
StartProgram(p, path) ==
    /\ Booted /\ pstate[p] = "none"
    /\ \E F \in Faults(1) :
         LET s == common_prog(Start(F), p)
         IN  /\ Finish(s)
             /\ pstate' = [pstate EXCEPT ![p] = IF Ok(s) THEN "new" ELSE "none"]
             /\ pname' = [pname EXCEPT ![p] = IF Ok(s) THEN path ELSE << >>]
             /\ prog' = pname'
    /\ ops' = ops + 1 /\ UNCHANGED <<todo, swapfile, held, phase>>

LoadProgram(p) ==
    /\ Booted /\ pstate[p] = "new"
    /\ \E F \in Faults(0) :
         LET s == runprogram(Start(F), p, pname[p])
         IN  Finish(s) /\ pstate' = [pstate EXCEPT ![p] = IF Ok(s) THEN "run" ELSE "dead"]
    /\ UNCHANGED <<todo, pname, prog, swapfile, held, phase, ops>>

(* A fault that loads a page.                                              *)
PageFault(p) ==
    /\ Runs(p) /\ p # Menu
    /\ \E F \in Faults(0) :
         LET s == ReopenProgram(Start(F), p)
         IN  Finish(s) /\ pname' = [pname EXCEPT ![p] = s.path]
    /\ UNCHANGED <<todo, prog, pstate, swapfile, held, phase, ops>>

(* A fault that swaps a page in or out.                                    *)
Swap(p) == /\ Runs(p) /\ p # Menu
           /\ \E F \in Faults(0) : Finish(SwapPage(Start(F), p))
           /\ Quiet /\ UNCHANGED ops

(* sys__exit leaves the process, and its current directory, behind.        *)
Exit(p) ==
    /\ Runs(p) /\ p # Menu
    /\ pstate' = [pstate EXCEPT ![p] = "dead"]
    /\ UNCHANGED <<todo, devs, ref, dirs, bootfs, cwd, pname, prog, swapfile, held, phase,
                   ops, faulty, panicked>>

(* reboot, from the menu or from a program.                                *)
Shutdown(p) ==
    /\ Runs(p)
    /\ \E F \in Faults(0) : Finish(shutdown(Start(F), p))
    /\ phase' = "down"
    /\ UNCHANGED <<todo, pname, prog, pstate, swapfile, held, ops>>

Stopped == (phase = "down" \/ panicked # "no") /\ UNCHANGED vars

Next ==
    \/ Attach \/ BootEnd \/ Sync \/ Getcwd \/ Stopped
    \/ \E d \in Dev : \/ Mount(d) \/ Unmount(d) \/ SwapOn(d) \/ SwapOff(d)
                      \/ SetBootfs(<<d>>) \/ SetBootfs(<<d, ":">>)
    \/ \E path \in Path : \/ Chdir(path) \/ Unlink(path) \/ Make(path) \/ Readlink(path)
                          \/ \E f \in Flags : Open(path, f)
                          \/ \E p \in Program : StartProgram(p, path)
    \/ \E pair \in Pairs : Rename(pair[1], pair[2]) \/ Link(pair[1], pair[2])
    \/ \E v \in Vnode : Close(v)
    \/ \E p \in Program : LoadProgram(p) \/ PageFault(p) \/ Swap(p) \/ Exit(p)
    \/ \E p \in Proc : Shutdown(p)

Spec == Init /\ [][Next]_vars

-----------------------------------------------------------------------------
TypeOK ==
    /\ todo \in Seq({Boot[i] : i \in DOMAIN Boot})
    /\ \A i \in DOMAIN devs : devs[i].fs \in {"none", "swap", "sfs", "emufs", "semfs"}
    /\ DOMAIN ref \subseteq Vnode /\ \A v \in DOMAIN ref : ref[v] \in Nat \ {0}
    /\ \A d \in Dev : Range(dirs[d]) \subseteq 1..MaxFiles
    /\ bootfs \in Vnode \cup {None} /\ cwd \in [Proc -> Vnode \cup {None}]
    /\ pstate \in [Proc -> {"none", "new", "run", "dead"}]
    /\ held \in [Vnode -> 0..MaxHeld]
    /\ phase \in {"attach", "up", "down"}

Attached == {devs[i].name : i \in DOMAIN devs}
MountedFs(d) == \E i \in DOMAIN devs : devs[i].name = d /\ HasFs(devs[i])

(* Who holds a vnode: callers, current directories, the boot file system,  *)
(* the swapfile, the table (devices) and emufs (its root).                 *)
One(b) == IF b THEN 1 ELSE 0
Holders(v) ==
    held[v] + Cardinality({p \in Proc : cwd[p] = v}) + One(bootfs = v) + One(swapfile = v)
      + One(v[2] = -1 /\ v[1] \in Attached)
      + One(v[2] = 0 /\ v[1] \in Attached /\ Desc(v[1]).fs = "emufs")

Excess(v) == (IF v \in DOMAIN ref THEN ref[v] ELSE 0) - Holders(v)

(* Every reference that is counted is held by somebody, and every one held *)
(* is counted, on every path through the VFS layer, its error paths        *)
(* included; the only references nobody holds are those a failed reclaim   *)
(* leaves behind, at most one for every call that failed (vnode_decref).   *)
RefsExact ==
    panicked = "no" =>
        /\ \A v \in Vnode : Excess(v) >= 0
        /\ MapThenSumSet(Excess, Vnode) <= faulty

(* A vnode that is held is of a volume that is still mounted: unmount and  *)
(* unmountall refuse a busy volume (vfs_unmount, FSOP_UNMOUNT), and a      *)
(* current directory, the boot file system and an open file keep it busy.  *)
HeldIsMounted ==
    \A v \in Vnode : v[2] >= 0 /\ Holders(v) > 0 => MountedFs(v[1])

(* No assertion of the VFS layer fails: a current directory has a file     *)
(* system and that has a name (getdevice, vfs_getcwd), a name that leads   *)
(* to a device has no file system (vfs_getroot).  The machine stops only   *)
(* when a call failed at boot, while swapping or loading; when there is no *)
(* emu0 to put the swapfile on; when a program swaps whose current         *)
(* directory is not the one the swapfile was created in; and when its file *)
(* cannot be opened by what is left of its name.                           *)
NoPanic ==
    panicked \in {"no"}
        \cup (IF faulty > 0 THEN {"swapfile creation", "swapfile opening", "vfs_bootstrap",
                                  "kill_curthread"} ELSE {})
        \cup (IF "emu0" \notin Attached THEN {"swapfile creation"} ELSE {})
        \cup (IF \E p \in Program : cwd[p] # Root("emu0") THEN {"swapfile opening"} ELSE {})
        \cup (IF \E p \in Program : /\ pstate[p] = "run"
                                     /\ ~Ok(vfs_open(Start({}), p, pname[p], ReadOnly))
              THEN {"kill_curthread"} ELSE {})

(* After shutdown a volume is still mounted only if a call failed or       *)
(* somebody else has one of its vnodes: a file that was left open, or the  *)
(* current directory of another process (shutdown, vfs_unmountall).        *)
DownIsClean ==
    phase = "down" /\ faulty = 0 /\ panicked = "no" =>
        \A i \in DOMAIN devs :
            devs[i].rawname # NULL /\ devs[i].fs # "none" =>
                \E v \in Vnode : /\ v[1] = devs[i].name /\ v[2] >= 0
                                 /\ held[v] > 0 \/ \E p \in Proc : cwd[p] = v

(* A program is stopped for want of its file only when that is gone or a   *)
(* call failed: a page fault finds the file by p_name, the path the        *)
(* program was started by (vm_fault; cmd_progthread copies the name        *)
(* because vfs_open destroys the copy it gets).                            *)
ProgramFound ==
    panicked = "kill_curthread" /\ faulty = 0 =>
        \E p \in Program : /\ pstate[p] = "run"
                           /\ ~Ok(vfs_open(Start({}), p, prog[p], ReadOnly))
=============================================================================
