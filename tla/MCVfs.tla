------------------------------- MODULE MCVfs --------------------------------
(* A machine with the null device, the semaphore file system, one host     *)
(* file system and a disk, for TLC.                                        *)
EXTENDS Vfs

Entry(n, m, f, v, names) == [name |-> n, mountable |-> m, fs |-> f, vol |-> v, files |-> names]

Machine == << Entry("null", FALSE, "none", NULL, << >>),
              Entry("sem", FALSE, "semfs", "sem", << >>),
              Entry("emu0", FALSE, "emufs", NULL, <<"prog">> :> 1),
              Entry("lhd0", TRUE, "none", "vol", << >>) >>

SmallPaths == { <<"prog">>, <<"emu0", ":", "prog">>, <<"lhd0", ":">>, <<"vol", ":", "f">>, <<"/", "prog">>,
                <<":", "f">>, <<"lhd0raw", ":">>, <<"null", ":">> }

SomePairs == { <<<<"vol", ":", "f">>, <<":", "f">>>>, <<<<"lhd0", ":", "f">>, <<"lhd0", ":", "g">>>>,
               <<<<"lhd0raw", ":">>, <<"lhd0", ":", "g">>>> }

F(w, c, e, t) == [write |-> w, creat |-> c, excl |-> e, trunc |-> t]
SomeFlags == {F(FALSE, FALSE, FALSE, FALSE), F(TRUE, TRUE, FALSE, TRUE), F(TRUE, TRUE, TRUE, FALSE)}
=============================================================================
