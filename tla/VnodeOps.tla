------------------------------ MODULE VnodeOps ------------------------------
(***************************************************************************)
(* The vnode operation tables: for every kind of vnode, what an operation  *)
(* that is always refused returns, and "impl" for one that does something. *)
(***************************************************************************)
EXTENDS Naturals

(* Operations that take a directory and a name in it.                      *)
NameOps == {"creat", "symlink", "mkdir", "link", "remove", "rmdir", "rename",
            "lookup", "lookparent"}
Ops == NameOps \cup {"eachopen", "reclaim", "read", "readlink", "getdirentry", "write",
                     "ioctl", "stat", "gettype", "isseekable", "fsync", "mmap",
                     "truncate", "namefile"}

(* The operations of a table that always fail.                             *)
Table(notdir, isdir, inval, nosys) ==
    [op \in Ops |-> CASE op \in notdir -> "ENOTDIR"
                      [] op \in isdir  -> "EISDIR"
                      [] op \in inval  -> "EINVAL"
                      [] op \in nosys  -> "ENOSYS"
                      [] OTHER         -> "impl"]

dev_vnode_ops == Table((NameOps \ {"lookup"}) \cup {"getdirentry"}, {}, {"readlink"}, {"mmap"})

sfs_fileops == Table(NameOps \cup {"readlink", "getdirentry", "namefile"}, {},
                     {"ioctl"}, {"mmap"})

sfs_dirops == Table({}, {"read", "write", "mmap", "truncate"}, {"ioctl", "readlink"},
                    {"getdirentry", "symlink", "mkdir", "rmdir"})

semfs_semops == [Table(NameOps \cup {"getdirentry", "namefile"}, {},
                       {"readlink", "ioctl"}, {}) EXCEPT !["mmap"] = "EPERM"]

semfs_dirops == Table({}, {"read", "readlink", "write", "mmap", "truncate"}, {"ioctl"},
                      {"symlink", "mkdir", "link", "rmdir", "rename"})

(* Operations emufs does not have at all.                                  *)
EmufsUnimplemented == {"symlink", "mkdir", "link", "remove", "rmdir", "rename"}


(* Its routines that fail, for files and for directories.                  *)
EmufsNotDir == NameOps \cup {"getdirentry", "namefile"}
EmufsIsDir  == {"read", "readlink", "write", "fsync", "mmap"}

emufs_fileops == Table(EmufsNotDir, {}, {"readlink", "ioctl"}, {"mmap"})

emufs_dirops == Table({"truncate"}, EmufsIsDir, {"ioctl"}, EmufsUnimplemented)

VOP(class, op) ==
    CASE class = "dev"        -> dev_vnode_ops[op]
      [] class = "sfs_file"   -> sfs_fileops[op]
      [] class = "sfs_dir"    -> sfs_dirops[op]
      [] class = "semfs_file" -> semfs_semops[op]
      [] class = "semfs_dir"  -> semfs_dirops[op]
      [] class = "emufs_file" -> emufs_fileops[op]
      [] class = "emufs_dir"  -> emufs_dirops[op]
=============================================================================
