---------------------------- MODULE AddressSpace ----------------------------
(***************************************************************************)
(* The layout check of wraith-rust/src/aslr.rs: which lists of address     *)
(* ranges a snapshot may ask the restorer to recreate.                     *)
(*                                                                         *)
(* Addresses are counted in pages.  They are unsigned machine integers:    *)
(* start + size wraps around at Width (2^64 in the code).                  *)
(***************************************************************************)
EXTENDS Integers, Sequences, Functions

CONSTANTS
    Width,           \* number of values of an address
    UserSpaceLimit   \* first address that is not user space (1 << 47)

ASSUME WidthAssumption == Width \in Nat \ {0}
ASSUME LimitAssumption == UserSpaceLimit \in 0 .. (Width - 1)

Address == 0 .. (Width - 1)

AddrRange == [start : Address, end : Address]

\* AddrRange::size is a saturating subtraction.
Size(r) == IF r.end > r.start THEN r.end - r.start ELSE 0

Overlaps(r, s) == r.start < s.end /\ s.start < r.end

\* The range of a captured region, as from_snapshot computes it.
RangeOf(region) ==
    [start |-> region.start, end |-> (region.start + region.size) % Width]

\* The lists that sort_by_key(start) may make of the ranges of regions.
Layouts(regions) ==
    { l \in { [k \in DOMAIN regions |-> RangeOf(regions[f[k]])] :
                  f \in Bijection(DOMAIN regions, DOMAIN regions) } :
        \A j, k \in DOMAIN regions : j < k => l[j].start <= l[k].start }

InUserSpace(r) ==
    /\ r.start < UserSpaceLimit
    /\ r.end <= UserSpaceLimit
    /\ Size(r) # 0

\* Mutant: the last pair of the sorted list is not looked at.
ValidLayoutShort(layout) ==
    /\ \A k \in DOMAIN layout : InUserSpace(layout[k])
    /\ \A k \in 1 .. (Len(layout) - 2) : ~Overlaps(layout[k], layout[k + 1])

\* AddressSpaceLayout::validate: every range on its own, then the neighbours
\* (windows(2)) of the sorted list.
ValidLayout(layout) ==
    /\ \A k \in DOMAIN layout : InUserSpace(layout[k])
    /\ \A k \in 1 .. (Len(layout) - 1) : ~Overlaps(layout[k], layout[k + 1])

\* What the check is for: no two of the ranges share an address.
PairwiseDisjoint(regions) ==
    \A i, j \in DOMAIN regions :
        i # j => ~Overlaps(RangeOf(regions[i]), RangeOf(regions[j]))

\* perms_to_prot keeps the three bits; only "w" matters to the restorer.
Prot(region) == IF region.writable THEN "rw" ELSE "ro"
=============================================================================
