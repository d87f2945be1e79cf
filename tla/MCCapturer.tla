----------------------------- MODULE MCCapturer -----------------------------
(***************************************************************************)
(* Instances of Capturer for TLC: pages 0 to 3 are user space, page 4 is   *)
(* the page of [vsyscall].                                                 *)
(***************************************************************************)
EXTENDS Capturer

Pg(perm, path) == [perm |-> perm, path |-> path, ver |-> 0]
NoPage == Pg("unmapped", "")

\* A line of two pages that can be split, a library, the page of [vvar], and a
\* [vsyscall] page of the "emulate" kind, which can be read.
Crowded ==
    [p \in Page |-> CASE p \in {0, 1} -> Pg("rw", "")
                      [] p = 2 -> Pg("r", "/lib")
                      [] p = 3 -> Pg("r", "[vvar]")
                      [] OTHER -> Pg("r", "[vsyscall]")]

\* A heap and a stack with room between them and pages the heap can merge with.
Sparse ==
    [p \in Page |-> CASE p = 0 -> Pg("rw", "[heap]")
                      [] p = 2 -> Pg("r", "")
                      [] p = 3 -> Pg("rw", "")
                      [] OTHER -> NoPage]

MCSpaces == {Crowded, Sparse}

MCTables ==
    { << [target |-> "/file", pos |-> 0] >>,
      << [target |-> "/dir", pos |-> 0], [target |-> "anon_inode:", pos |-> 0] >> }
=============================================================================
