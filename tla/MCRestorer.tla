----------------------------- MODULE MCRestorer -----------------------------
(***************************************************************************)
(* Instances of Restorer for TLC.                                          *)
(***************************************************************************)
EXTENDS Restorer, SequencesExt

\* Every list of at most three ranges over four starts; size 15 wraps around
\* (Width is 16), size 0 is the degenerate region.
LayoutRegions ==
    { [start |-> a, size |-> s, writable |-> TRUE, sound |-> TRUE] :
        a \in 0 .. 3, s \in {0, 1, 2, 15} }

MCLayouts ==
    { [regions |-> r, fds |-> <<>>, registers |-> TRUE] :
        r \in BoundedSeq(LayoutRegions, 3) }

\* Restorable snapshots: the order of the regions in the file is arbitrary,
\* protections differ, one checksum may be wrong; files and a socket are open.
FileRegions ==
    { << [start |-> 3, size |-> 1, writable |-> TRUE, sound |-> TRUE],
         [start |-> 0, size |-> 2, writable |-> FALSE, sound |-> ok],
         [start |-> 2, size |-> 1, writable |-> w, sound |-> TRUE] >> :
        ok \in BOOLEAN, w \in BOOLEAN }

FileFds ==
    { <<>>,
      << [num |-> 4, type |-> "regular", path |-> TRUE],
         [num |-> 5, type |-> "socket", path |-> TRUE],
         [num |-> 7, type |-> "directory", path |-> TRUE],
         [num |-> 8, type |-> "regular", path |-> FALSE] >> }

MCSnapshots ==
    { [regions |-> r, fds |-> f, registers |-> g] :
        r \in FileRegions, f \in FileFds, g \in BOOLEAN }

MCAll == MCLayouts \cup MCSnapshots
=============================================================================
