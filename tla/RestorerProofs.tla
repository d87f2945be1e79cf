--------------------------- MODULE RestorerProofs ---------------------------
(***************************************************************************)
(* Proofs about AddressSpace and Restorer, for every Width, every limit of *)
(* user space, every set of snapshots and every set of faults.             *)
(***************************************************************************)
EXTENDS Restorer, FiniteSetTheorems, WellFoundedInduction, TLAPS

\* A sum that wraps around at Width ends up below either operand.
LEMMA WrappedSum ==
    ASSUME NEW a \in Address, NEW b \in Address
    PROVE  (a + b) % Width = IF a + b < Width THEN a + b ELSE a + b - Width
<1>1. Width \in Nat /\ Width > 0 /\ a \in Nat /\ b \in Nat /\ a < Width /\ b < Width
    BY WidthAssumption DEF Address
<1>2. CASE a + b < Width
    BY <1>1, <1>2
<1>3. CASE a + b >= Width
    BY <1>1, <1>3
<1> QED
    BY <1>1, <1>2, <1>3

\* The range of a region of a snapshot is a pair of addresses; if validate
\* finds it in user space, its end did not wrap around.
LEMMA RangeInUserSpace ==
    ASSUME NEW r \in Region
    PROVE  /\ RangeOf(r).start = r.start
           /\ RangeOf(r).start \in Int
           /\ RangeOf(r).end \in Int
           /\ InUserSpace(RangeOf(r)) =>
                 /\ RangeOf(r).start < RangeOf(r).end
                 /\ r.start + r.size <= UserSpaceLimit
<1>1. /\ r.start \in Address /\ r.size \in Address
      /\ Width \in Nat /\ UserSpaceLimit \in Int
      /\ r.start \in Int /\ r.size \in Int /\ r.size < Width
    BY WidthAssumption, LimitAssumption DEF Region, Address
<1>2. (r.start + r.size) % Width =
          IF r.start + r.size < Width THEN r.start + r.size ELSE r.start + r.size - Width
    BY <1>1, WrappedSum
<1> QED
    BY <1>1, <1>2 DEF RangeOf, InUserSpace, Size

\* Comparing neighbours of the sorted list is enough: in a list that
\* AddressSpaceLayout::validate accepts, every range ends before every later
\* one starts.
LEMMA NeighboursSuffice ==
    ASSUME NEW regions \in Seq(Region), NEW l \in Layouts(regions), ValidLayout(l),
           NEW j \in DOMAIN regions, NEW k \in DOMAIN regions, j < k
    PROVE  l[j].end <= l[k].start
<1> DEFINE n == Len(regions)
<1>1. PICK f \in Bijection(DOMAIN regions, DOMAIN regions) :
          l = [m \in DOMAIN regions |-> RangeOf(regions[f[m]])]
    BY DEF Layouts
<1>2. /\ n \in Nat /\ DOMAIN regions = 1 .. n
      /\ \A m \in 1 .. n : f[m] \in 1 .. n /\ regions[f[m]] \in Region
    BY <1>1 DEF Bijection, Injection
<1>3. /\ DOMAIN l = 1 .. n /\ Len(l) = n
      /\ \A m \in 1 .. n : l[m] = RangeOf(regions[f[m]])
  <2>1. l = [m \in 1 .. n |-> RangeOf(regions[f[m]])]
      BY <1>1, <1>2
  <2>2. \A m \in 1 .. n : RangeOf(regions[f[m]]) \in [start : Int, end : Int]
      BY <1>2, RangeInUserSpace DEF RangeOf
  <2>3. l \in Seq([start : Int, end : Int]) /\ Len(l) = n
      BY <2>1, <2>2, <1>2
  <2> QED
      BY <2>1, <2>3
<1>4. \A m \in 1 .. n : /\ l[m].start \in Int /\ l[m].end \in Int
                        /\ l[m].start < l[m].end
  <2> SUFFICES ASSUME NEW m \in 1 .. n
               PROVE  /\ l[m].start \in Int /\ l[m].end \in Int
                      /\ l[m].start < l[m].end
      OBVIOUS
  <2>1. InUserSpace(l[m])
      BY <1>3 DEF ValidLayout
  <2>2. regions[f[m]] \in Region /\ l[m] = RangeOf(regions[f[m]])
      BY <1>2, <1>3
  <2> QED
      BY <2>1, <2>2, RangeInUserSpace
<1>5. j + 1 \in 1 .. n /\ j \in 1 .. (n - 1) /\ j + 1 <= k
    BY <1>2
<1>6. l[j].end <= l[j + 1].start
  <2>1. ~Overlaps(l[j], l[j + 1])
      BY <1>3, <1>5 DEF ValidLayout
  <2>2. l[j].start <= l[j + 1].start
      BY <1>2, <1>5 DEF Layouts
  <2> QED
      BY <2>1, <2>2, <1>4, <1>5, <1>2 DEF Overlaps
<1>7. l[j + 1].start <= l[k].start
    BY <1>2, <1>4, <1>5 DEF Layouts
<1> QED
    BY <1>2, <1>4, <1>5, <1>6, <1>7

\* What AddressSpaceLayout::validate accepts has no two regions that share an
\* address, and none that leaves user space or wraps around.
THEOREM ValidatedIsDisjoint ==
    ASSUME NEW regions \in Seq(Region), NEW l \in Layouts(regions), ValidLayout(l)
    PROVE  /\ PairwiseDisjoint(regions)
           /\ \A i \in DOMAIN regions :
                 regions[i].start + regions[i].size <= UserSpaceLimit
<1>1. PICK f \in Bijection(DOMAIN regions, DOMAIN regions) :
          l = [m \in DOMAIN regions |-> RangeOf(regions[f[m]])]
    BY DEF Layouts
<1>2. \A i \in DOMAIN regions : \E a \in DOMAIN regions : f[a] = i
    BY <1>1 DEF Bijection, Surjection
<1>3. \A a \in DOMAIN regions :
          a \in Int /\ l[a] = RangeOf(regions[f[a]]) /\ regions[f[a]] \in Region
    BY <1>1 DEF Bijection, Injection
<1>4. ASSUME NEW i \in DOMAIN regions, NEW j \in DOMAIN regions, i # j
      PROVE  ~Overlaps(RangeOf(regions[i]), RangeOf(regions[j]))
  <2>1. PICK a \in DOMAIN regions, b \in DOMAIN regions : f[a] = i /\ f[b] = j
      BY <1>2, <1>4
  <2>2. a < b \/ b < a
      BY <2>1, <1>3, <1>4
  <2>3. l[a].end <= l[b].start \/ l[b].end <= l[a].start
      BY <2>2, NeighboursSuffice
  <2>4. l[a] = RangeOf(regions[i]) /\ l[b] = RangeOf(regions[j])
      BY <2>1, <1>3
  <2>5. regions[i] \in Region /\ regions[j] \in Region
      BY <1>4
  <2> QED
      BY <2>3, <2>4, <2>5, RangeInUserSpace DEF Overlaps
<1>5. ASSUME NEW i \in DOMAIN regions
      PROVE  regions[i].start + regions[i].size <= UserSpaceLimit
  <2>1. PICK a \in DOMAIN regions : f[a] = i
      BY <1>2, <1>5
  <2>2. DOMAIN l = DOMAIN regions
      BY <1>1
  <2>3. InUserSpace(l[a])
      BY <2>1, <2>2 DEF ValidLayout
  <2> QED
      BY <2>1, <2>3, <1>3, RangeInUserSpace
<1> QED
    BY <1>4, <1>5 DEF PairwiseDisjoint

-----------------------------------------------------------------------------
\* The layout of the snapshot is known to be good from the fork on.  The step
\* that decides is Validate, which looks at one sorted list of the ranges.
LayoutIsGood ==
    /\ PairwiseDisjoint(snap.regions)
    /\ \A i \in DOMAIN snap.regions :
          snap.regions[i].start + snap.regions[i].size <= UserSpaceLimit

LayoutInv ==
    /\ snap \in Snapshots
    /\ rpc \in {"load", "validate"} => child = "none"
    /\ (rpc \notin {"load", "validate", "exited"} \/ child # "none") => LayoutIsGood

\* A step of validate() that lets the restorer fork has seen a good layout.
LEMMA ValidateDecides ==
    LayoutInv /\ Validate => LayoutInv'
<1> SUFFICES ASSUME LayoutInv, Validate
             PROVE  LayoutInv'
    OBVIOUS
<1>1. snap' = snap /\ child' = child /\ child = "none" /\ snap \in Snapshots
    BY DEF Validate, LayoutInv, inputVars
<1>2. snap.regions \in Seq(Region)
    BY <1>1, SnapshotsAssumption DEF Snapshot
<1>3. PICK layout \in Layouts(snap.regions) :
          IF ValidLayout(layout) /\ snap.registers /\ snap.regions # <<>>
          THEN rpc' = "fork" /\ UNCHANGED exit
          ELSE Exit("1")
    BY DEF Validate
<1>4. CASE ValidLayout(layout)
  <2>1. LayoutIsGood
      BY <1>2, <1>4, ValidatedIsDisjoint DEF LayoutIsGood
  <2>2. rpc' \in {"fork", "exited"}
      BY <1>3 DEF Exit
  <2> QED
      BY <1>1, <2>1, <2>2 DEF LayoutInv, LayoutIsGood
<1>5. CASE ~ValidLayout(layout)
  <2>1. rpc' = "exited"
      BY <1>3, <1>5 DEF Exit
  <2> QED
      BY <1>1, <2>1 DEF LayoutInv
<1> QED
    BY <1>4, <1>5

\* Every step keeps LayoutInv.
LEMMA LayoutStep == LayoutInv /\ [Next]_vars => LayoutInv'
<1> SUFFICES ASSUME LayoutInv, [Next]_vars
             PROVE  LayoutInv'
    OBVIOUS
<1>1. CASE Validate
    BY <1>1, ValidateDecides
<1>2. CASE Load
    BY <1>2 DEF Load, Exit, LayoutInv, LayoutIsGood, inputVars
<1>3. CASE ForkStub
    BY <1>3 DEF ForkStub, Exit, LayoutInv, LayoutIsGood, inputVars
<1>4. CASE StubStops
    BY <1>4 DEF StubStops, LayoutInv, LayoutIsGood, inputVars
<1>5. CASE WaitStub
    BY <1>5 DEF WaitStub, Exit, LayoutInv, LayoutIsGood, inputVars
<1>6. CASE CheckRegion
    BY <1>6 DEF CheckRegion, KillChild, Exit, LayoutInv, LayoutIsGood, inputVars
<1>7. CASE MmapRegion
    BY <1>7 DEF MmapRegion, KillChild, Exit, LayoutInv, LayoutIsGood, inputVars
<1>8. CASE WriteRegion
    BY <1>8 DEF WriteRegion, KillChild, Exit, LayoutInv, LayoutIsGood, inputVars
<1>9. CASE ProtectRegion
    BY <1>9 DEF ProtectRegion, NextRegion, KillChild, Exit, LayoutInv, LayoutIsGood, inputVars
<1>10. CASE RestoreRegisters
    BY <1>10 DEF RestoreRegisters, KillChild, Exit, LayoutInv, LayoutIsGood, inputVars
<1>11. CASE RestoreFd
    BY <1>11 DEF RestoreFd, LayoutInv, LayoutIsGood, inputVars
<1>12. CASE Dup2
    BY <1>12 DEF Dup2, LayoutInv, LayoutIsGood, inputVars
<1>13. CASE Detach
    BY <1>13 DEF Detach, KillChild, Exit, LayoutInv, LayoutIsGood, inputVars
<1>14. CASE Report
    BY <1>14 DEF Report, Exit, LayoutInv, LayoutIsGood, inputVars
<1>15. CASE ChildDies
    BY <1>15 DEF ChildDies, LayoutInv, LayoutIsGood, inputVars
<1>16. CASE UNCHANGED vars
    BY <1>16 DEF vars, inputVars, LayoutInv, LayoutIsGood
<1> QED
    BY <1>1, <1>2, <1>3, <1>4, <1>5, <1>6, <1>7, <1>8, <1>9, <1>10, <1>11, <1>12,
       <1>13, <1>14, <1>15, <1>16 DEF Next, RestorerStep

\* The restorer forks no child for a snapshot whose regions overlap, wrap around
\* or leave user space, whatever the order of the regions in the file.
THEOREM NoForkForOverlap == Spec => []AcceptedIsDisjoint
<1>1. Init => LayoutInv
    BY DEF Init, LayoutInv
<1>2. LayoutInv /\ [Next]_vars => LayoutInv'
    BY LayoutStep
<1>3. LayoutInv => AcceptedIsDisjoint
    BY DEF LayoutInv, LayoutIsGood, AcceptedIsDisjoint
<1> QED
    BY <1>1, <1>2, <1>3, PTL DEF Spec

-----------------------------------------------------------------------------
(***************************************************************************)
(* The copy.  Regions are rebuilt one after the other, each by three       *)
(* injected or direct writes; the invariant says how far the current one   *)
(* has come and that the earlier ones are as they have to be.  That a      *)
(* later MAP_FIXED does not destroy an earlier region rests on LayoutInv.  *)
(***************************************************************************)

ExactRegion(i) ==
    /\ snap.regions[i].sound
    /\ \A p \in PagesOf(snap.regions[i]) :
          mem[p] = Bytes(i) /\ prot[p] = Prot(snap.regions[i])

EarlierAreExact == \A i \in DOMAIN snap.regions : i < reg => ExactRegion(i)

CurrentInv ==
    /\ rpc \in {"mmap", "write", "protect"} =>
          reg <= Len(snap.regions) /\ CurrentRegion.sound
    /\ rpc \in {"write", "protect"} =>
          \A p \in PagesOf(CurrentRegion) : prot[p] = "rw"
    /\ rpc = "protect" =>
          \A p \in PagesOf(CurrentRegion) : mem[p] = Bytes(reg)

CpuInv ==
    /\ rpc # "exited" => cut \/ ~patched
    /\ (rpc \in {"fds", "dup2", "report"} \/ child = "running") =>
          reg > Len(snap.regions) /\ (cut \/ (regs = "snapshot" /\ ~patched))

CopyInv ==
    /\ LayoutInv
    /\ reg \in Nat \ {0}
    /\ EarlierAreExact
    /\ CurrentInv
    /\ CpuInv

\* The regions of a snapshot are a sequence.
LEMMA RegionsType ==
    ASSUME snap \in Snapshots
    PROVE  /\ snap.regions \in Seq(Region)
           /\ Len(snap.regions) \in Nat
           /\ DOMAIN snap.regions = 1 .. Len(snap.regions)
<1>1. snap.regions \in Seq(Region)
    BY SnapshotsAssumption DEF Snapshot
<1> QED
    BY <1>1

\* In a good layout no page belongs to two regions.
LEMMA PagesAreDisjoint ==
    ASSUME snap \in Snapshots, LayoutIsGood,
           NEW i \in DOMAIN snap.regions, NEW j \in DOMAIN snap.regions, i # j,
           NEW p \in PagesOf(snap.regions[i])
    PROVE  p \notin PagesOf(snap.regions[j])
<1>1. snap.regions[i] \in Region /\ snap.regions[j] \in Region
    BY RegionsType
<1>2. ~Overlaps(RangeOf(snap.regions[i]), RangeOf(snap.regions[j]))
    BY DEF LayoutIsGood, PairwiseDisjoint
<1>3. /\ RangeOf(snap.regions[i]).start = snap.regions[i].start
      /\ RangeOf(snap.regions[i]).start \in Int /\ RangeOf(snap.regions[i]).end \in Int
      /\ RangeOf(snap.regions[j]).start = snap.regions[j].start
      /\ RangeOf(snap.regions[j]).start \in Int /\ RangeOf(snap.regions[j]).end \in Int
    BY <1>1, RangeInUserSpace
<1>4. p \in Int
    BY LimitAssumption DEF PagesOf, Pages
<1> QED
    BY <1>2, <1>3, <1>4 DEF PagesOf, Overlaps

\* A step that changes pages of the current region only keeps the earlier ones.
LEMMA EarlierAreKept ==
    ASSUME snap \in Snapshots, LayoutIsGood, reg \in Nat, EarlierAreExact,
           reg \in DOMAIN snap.regions, UNCHANGED <<snap, reg>>,
           \A p \in Pages : p \notin PagesOf(CurrentRegion) =>
               mem'[p] = mem[p] /\ prot'[p] = prot[p]
    PROVE  EarlierAreExact'
<1> SUFFICES ASSUME NEW i \in DOMAIN snap.regions, i < reg
             PROVE  ExactRegion(i)'
    BY DEF EarlierAreExact
<1>1. ExactRegion(i) /\ i # reg
    BY RegionsType DEF EarlierAreExact
<1>2. ASSUME NEW p \in PagesOf(snap.regions[i])
      PROVE  mem'[p] = mem[p] /\ prot'[p] = prot[p]
  <2>1. p \notin PagesOf(CurrentRegion)
      BY <1>1, <1>2, PagesAreDisjoint DEF CurrentRegion
  <2>2. p \in Pages
      BY <1>2 DEF PagesOf
  <2> QED
      BY <2>1, <2>2
<1> QED
    BY <1>1, <1>2 DEF ExactRegion

\* The steps that write to the address space of the child.
LEMMA RegionSteps ==
    ASSUME CopyInv, LayoutInv',
           MmapRegion \/ WriteRegion \/ ProtectRegion
    PROVE  CopyInv'
<1> USE DEF CopyInv
<1>1. /\ snap \in Snapshots /\ LayoutIsGood
      /\ reg \in DOMAIN snap.regions /\ reg <= Len(snap.regions) /\ reg \in Nat
      /\ CurrentRegion.sound
  <2>1. rpc \in {"mmap", "write", "protect"}
      BY DEF MmapRegion, WriteRegion, ProtectRegion
  <2>2. snap \in Snapshots /\ LayoutIsGood
      BY <2>1 DEF LayoutInv
  <2>3. reg <= Len(snap.regions) /\ CurrentRegion.sound
      BY <2>1 DEF CurrentInv
  <2>4. reg >= 1
      BY DEF CopyInv
  <2> QED
      BY <2>2, <2>3, <2>4, RegionsType
<1>2. child # "running" /\ (cut \/ ~patched)
    BY <1>1, RegionsType DEF CpuInv, MmapRegion, WriteRegion, ProtectRegion
<1>3. CASE MmapRegion
  <2>1. UNCHANGED <<snap, reg>>
      BY <1>3 DEF MmapRegion, inputVars
  <2>2. EarlierAreExact'
    <3>1. \A p \in Pages : p \notin PagesOf(CurrentRegion) =>
              mem'[p] = mem[p] /\ prot'[p] = prot[p]
        BY <1>3 DEF MmapRegion, memVars
    <3> QED
        BY <1>1, <2>1, <3>1, EarlierAreKept
  <2>3. CASE rpc' = "write"
    <3>1. \A p \in PagesOf(CurrentRegion) : prot'[p] = "rw"
        BY <1>3, <2>3 DEF MmapRegion, KillChild, Exit, PagesOf
    <3>2. CurrentInv'
        BY <1>1, <2>1, <2>3, <3>1 DEF CurrentInv, CurrentRegion
    <3>3. CpuInv'
        BY <1>2, <1>3, <2>3 DEF MmapRegion, KillChild, Exit, CpuInv, cpuVars
    <3> QED
        BY <1>1, <2>1, <2>2, <3>2, <3>3
  <2>4. CASE rpc' # "write"
    <3>1. rpc' = "exited" /\ child' = "gone"
        BY <1>3, <2>4 DEF MmapRegion, KillChild, Exit
    <3> QED
        BY <1>1, <2>1, <2>2, <3>1 DEF CurrentInv, CpuInv
  <2> QED
      BY <2>3, <2>4
<1>4. CASE WriteRegion
  <2>1. UNCHANGED <<snap, reg, prot, patched, cut>>
      BY <1>4 DEF WriteRegion, inputVars, cpuVars
  <2>2. EarlierAreExact'
    <3>1. \A p \in Pages : p \notin PagesOf(CurrentRegion) =>
              mem'[p] = mem[p] /\ prot'[p] = prot[p]
        BY <1>4, <2>1 DEF WriteRegion
    <3> QED
        BY <1>1, <2>1, <3>1, EarlierAreKept
  <2>3. CASE rpc' = "protect"
    <3>1. child' = child /\ \A p \in PagesOf(CurrentRegion) : mem'[p] = Bytes(reg)
        BY <1>4, <2>3 DEF WriteRegion, KillChild, Exit, PagesOf
    <3>2. \A p \in PagesOf(CurrentRegion) : prot[p] = "rw"
        BY <1>4 DEF WriteRegion, CurrentInv
    <3>3. CurrentInv'
        BY <1>1, <2>1, <2>3, <3>1, <3>2 DEF CurrentInv, CurrentRegion
    <3>4. CpuInv'
        BY <1>2, <2>1, <2>3, <3>1 DEF CpuInv
    <3> QED
        BY <1>1, <2>1, <2>2, <3>3, <3>4
  <2>4. CASE rpc' # "protect"
    <3>1. rpc' = "exited" /\ child' = "gone"
        BY <1>4, <2>4 DEF WriteRegion, KillChild, Exit
    <3> QED
        BY <1>1, <2>1, <2>2, <3>1 DEF CurrentInv, CpuInv
  <2> QED
      BY <2>3, <2>4
<1>5. CASE ProtectRegion
  <2>1. UNCHANGED <<snap, mem>>
      BY <1>5 DEF ProtectRegion, inputVars
  <2>2. /\ \A p \in PagesOf(CurrentRegion) : mem[p] = Bytes(reg) /\ prot[p] = "rw"
        /\ \A p \in Pages : p \notin PagesOf(CurrentRegion) => prot'[p] = prot[p]
      BY <1>5 DEF ProtectRegion, CurrentInv
  <2>3. CASE rpc' = "region"
    <3>1. reg' = reg + 1 /\ child' = child /\ patched' = patched /\ cut' = cut
        BY <1>5, <2>3 DEF ProtectRegion, NextRegion, KillChild, Exit, cpuVars
    <3>2. \A p \in PagesOf(CurrentRegion) : prot'[p] = Prot(CurrentRegion)
        BY <1>5, <2>2, <2>3 DEF ProtectRegion, KillChild, Exit, Prot, PagesOf
    <3>3. ASSUME NEW i \in DOMAIN snap.regions, i = reg
          PROVE  ExactRegion(i)'
        BY <1>1, <2>1, <2>2, <3>2, <3>3 DEF ExactRegion, CurrentRegion
    <3>4. ASSUME NEW i \in DOMAIN snap.regions, i < reg
          PROVE  ExactRegion(i)'
      <4>1. ExactRegion(i) /\ i # reg
          BY <1>1, <3>4, RegionsType DEF EarlierAreExact
      <4>2. \A p \in PagesOf(snap.regions[i]) : p \in Pages /\ p \notin PagesOf(CurrentRegion)
          BY <1>1, <3>4, <4>1, PagesAreDisjoint DEF CurrentRegion, PagesOf
      <4> QED
          BY <2>1, <2>2, <4>1, <4>2 DEF ExactRegion
    <3>5. EarlierAreExact'
      <4>1. \A i \in DOMAIN snap.regions : i < reg + 1 => i < reg \/ i = reg
          BY <1>1, RegionsType
      <4> QED
          BY <2>1, <3>1, <3>3, <3>4, <4>1 DEF EarlierAreExact
    <3> QED
        BY <1>1, <1>2, <2>1, <2>3, <3>1, <3>5 DEF CurrentInv, CpuInv
  <2>4. CASE rpc' # "region"
    <3>1. rpc' = "exited" /\ child' = "gone" /\ reg' = reg
        BY <1>5, <2>4 DEF ProtectRegion, NextRegion, KillChild, Exit
    <3>2. EarlierAreExact'
        BY <1>1, <2>1, <2>2, <3>1, EarlierAreKept
    <3> QED
        BY <1>1, <2>1, <3>1, <3>2 DEF CurrentInv, CpuInv
  <2> QED
      BY <2>3, <2>4
<1> QED
    BY <1>3, <1>4, <1>5

\* The steps before the fork and after the regions, and the environment's.
LEMMA OtherSteps ==
    ASSUME CopyInv, LayoutInv',
           \/ Load \/ Validate \/ ForkStub \/ WaitStub \/ CheckRegion
           \/ RestoreRegisters \/ RestoreFd \/ Dup2 \/ Detach \/ Report
           \/ StubStops \/ ChildDies \/ UNCHANGED vars
    PROVE  CopyInv'
<1>1. UNCHANGED <<snap, reg, mem, prot>>
    BY DEF Load, Validate, ForkStub, WaitStub, CheckRegion, RestoreRegisters, RestoreFd,
           Dup2, Detach, Report, StubStops, ChildDies, vars, inputVars, memVars
<1>2. EarlierAreExact'
    BY <1>1 DEF CopyInv, EarlierAreExact, ExactRegion, PagesOf, RangeOf
<1>3. reg \in Nat \ {0} /\ CurrentInv /\ CpuInv
    BY DEF CopyInv
<1>4. CurrentInv' /\ CpuInv'
  <2>1. CASE Load
      BY <1>1, <1>3, <2>1 DEF Load, Exit, CurrentInv, CpuInv, CurrentRegion, cpuVars
  <2>2. CASE Validate
      BY <1>1, <1>3, <2>2 DEF Validate, Exit, CurrentInv, CpuInv, CurrentRegion, cpuVars
  <2>3. CASE ForkStub
      BY <1>1, <1>3, <2>3 DEF ForkStub, Exit, CurrentInv, CpuInv, CurrentRegion, cpuVars
  <2>4. CASE WaitStub
      BY <1>1, <1>3, <2>4 DEF WaitStub, Exit, CurrentInv, CpuInv, CurrentRegion, cpuVars
  <2>5. CASE CheckRegion
      BY <1>1, <1>3, <2>5
      DEF CheckRegion, KillChild, Exit, CurrentInv, CpuInv, CurrentRegion, cpuVars
  <2>6. CASE RestoreRegisters
      BY <1>1, <1>3, <2>6
      DEF RestoreRegisters, KillChild, Exit, CurrentInv, CpuInv, Alive
  <2>7. CASE RestoreFd
      BY <1>1, <1>3, <2>7 DEF RestoreFd, CurrentInv, CpuInv, cpuVars
  <2>8. CASE Dup2
      BY <1>1, <1>3, <2>8 DEF Dup2, InjectionLost, CurrentInv, CpuInv, cpuVars
  <2>9. CASE Detach
      BY <1>1, <1>3, <2>9 DEF Detach, KillChild, Exit, CurrentInv, CpuInv, cpuVars
  <2>10. CASE Report
      BY <1>1, <1>3, <2>10 DEF Report, Exit, CurrentInv, CpuInv, cpuVars
  <2>11. CASE StubStops
      BY <1>1, <1>3, <2>11 DEF StubStops, CurrentInv, CpuInv, CurrentRegion, cpuVars
  <2>12. CASE ChildDies
      BY <1>1, <1>3, <2>12 DEF ChildDies, CurrentInv, CpuInv, CurrentRegion, cpuVars
  <2>13. CASE UNCHANGED vars
      BY <1>1, <1>3, <2>13 DEF vars, CurrentInv, CpuInv, CurrentRegion, cpuVars
  <2> QED
      BY <2>1, <2>2, <2>3, <2>4, <2>5, <2>6, <2>7, <2>8, <2>9, <2>10, <2>11, <2>12, <2>13
<1> QED
    BY <1>1, <1>2, <1>3, <1>4 DEF CopyInv

\* The process that the restorer lets go is the snapshot in every page of every
\* region, with its protection, and in its registers unless the injection of a
\* dup2 was cut short, for any number of regions, wherever the stub happens to
\* execute and whatever fails.
THEOREM CopyExact == Spec => []CopyIsExact
<1>1. Init => CopyInv
  <2> SUFFICES ASSUME Init
               PROVE  CopyInv
      OBVIOUS
  <2>1. LayoutInv
      BY DEF Init, LayoutInv
  <2>2. EarlierAreExact
      BY RegionsType DEF Init, EarlierAreExact
  <2> QED
      BY <2>1, <2>2 DEF Init, CopyInv, CurrentInv, CpuInv
<1>2. CopyInv /\ [Next]_vars => CopyInv'
  <2> SUFFICES ASSUME CopyInv, [Next]_vars
               PROVE  CopyInv'
      OBVIOUS
  <2>1. LayoutInv'
      BY LayoutStep DEF CopyInv
  <2> QED
      BY <2>1, RegionSteps, OtherSteps DEF Next, RestorerStep
<1>3. CopyInv => CopyIsExact
  <2> SUFFICES ASSUME CopyInv, child = "running"
               PROVE  CopyIsExact
      BY DEF CopyIsExact
  <2>1. snap \in Snapshots
      BY DEF CopyInv, LayoutInv
  <2>2. \A i \in DOMAIN snap.regions : i < reg
      BY <2>1, RegionsType DEF CopyInv, CpuInv
  <2> QED
      BY <2>2 DEF CopyInv, CpuInv, EarlierAreExact, ExactRegion, CopyIsExact
<1> QED
    BY <1>1, <1>2, <1>3, PTL DEF Spec

-----------------------------------------------------------------------------
(***************************************************************************)
(* The exit status.  What it says about the child has to be related to the *)
(* place where the restorer is: a child exists from the fork on, and is    *)
(* let go only on the way to the report.                                   *)
(***************************************************************************)

Building == {"region", "mmap", "write", "protect", "fds", "dup2"}
RpcStates == {"load", "validate", "fork", "wait_stub", "report", "exited"} \cup Building

ExitInv ==
    /\ ExitTellsChild
    /\ rpc \in RpcStates
    /\ rpc # "exited" <=> exit = "none"
    /\ exit \in {"none", "0", "1", "2", "101"}
    /\ rpc \in {"load", "validate", "fork"} => child = "none"
    /\ rpc = "wait_stub" => child \in {"starting", "stopped", "stopped_other", "gone"}
    /\ rpc \in Building => child \in {"stopped", "gone"}
    /\ rpc = "report" \/ exit = "101" => child \in {"running", "ended"}
    /\ exit = "1" => child \in {"none", "gone", "stray"}
    /\ exit = "2" => child \in {"gone", "ended"}

\* Every step keeps it.
LEMMA ExitStep == ExitInv /\ [Next]_vars => ExitInv'
<1> USE DEF ExitInv, ExitTellsChild, Building, RpcStates
<1> SUFFICES ASSUME ExitInv, [Next]_vars
             PROVE  ExitInv'
    OBVIOUS
<1>1. CASE Load
    BY <1>1 DEF Load, Exit
<1>2. CASE Validate
    BY <1>2 DEF Validate, Exit
<1>3. CASE ForkStub
    BY <1>3 DEF ForkStub, Exit
<1>4. CASE StubStops
    BY <1>4 DEF StubStops
<1>5. CASE WaitStub
    BY <1>5 DEF WaitStub, Exit
<1>6. CASE CheckRegion
    BY <1>6 DEF CheckRegion, KillChild, Exit
<1>7. CASE MmapRegion
    BY <1>7 DEF MmapRegion, KillChild, Exit
<1>8. CASE WriteRegion
    BY <1>8 DEF WriteRegion, KillChild, Exit
<1>9. CASE ProtectRegion
    BY <1>9 DEF ProtectRegion, NextRegion, KillChild, Exit
<1>10. CASE RestoreRegisters
    BY <1>10 DEF RestoreRegisters, KillChild, Exit
<1>11. CASE RestoreFd
    BY <1>11 DEF RestoreFd
<1>12. CASE Dup2
    BY <1>12 DEF Dup2
<1>13. CASE Detach
    BY <1>13 DEF Detach, KillChild, Exit
<1>14. CASE Report
    BY <1>14 DEF Report, Exit
<1>15. CASE ChildDies
    BY <1>15 DEF ChildDies
<1>16. CASE UNCHANGED vars
    BY <1>16 DEF vars
<1> QED
    BY <1>1, <1>2, <1>3, <1>4, <1>5, <1>6, <1>7, <1>8, <1>9, <1>10, <1>11, <1>12,
       <1>13, <1>14, <1>15, <1>16 DEF Next, RestorerStep

\* The restorer's place, its exit status and its child go together.
LEMMA ExitInvariance == Spec => []ExitInv
<1>1. Init => ExitInv
    BY DEF Init, ExitInv, ExitTellsChild, Building, RpcStates
<1> QED
    BY <1>1, ExitStep, PTL DEF Spec

\* After exit status 0 the copy was let go, after 1 or 2 no copy executes, whatever
\* fails: the orchestrator can resume the source on either of them.
THEOREM ExitIsTruthful == Spec => []ExitTellsChild
<1>1. ExitInv => ExitTellsChild
    BY DEF ExitInv
<1> QED
    BY <1>1, ExitInvariance, PTL

-----------------------------------------------------------------------------
(***************************************************************************)
(* Restorer implements the restorer that Teleporter assumes.               *)
(***************************************************************************)

\* A step that the orchestrator cannot see.
LEMMA Unseen ==
  ASSUME strict' = strict, TeleporterRst' = TeleporterRst, TeleporterDst' = TeleporterDst
  PROVE  UNCHANGED T!vars
BY DEF T!vars, T!orchVars, T!srcVars, T!captVars, T!netVars, T!dstVars

\* The abstract steps, in terms of what the orchestrator sees.
LEMMA Seen ==
  ASSUME strict' = strict
  PROVE  /\ TeleporterRst = "loading" /\ TeleporterRst' = "building" /\ TeleporterDst' = "stub"
              => T!RestorerStep
         /\ TeleporterRst = "loading" /\ TeleporterRst' = "exit1"
              /\ TeleporterDst' \in {TeleporterDst, "stub"} => T!RestorerStep
         /\ TeleporterRst = "building" /\ TeleporterRst' = "exit1" /\ TeleporterDst' = "none"
              => T!RestorerStep
         /\ TeleporterRst = "building" /\ TeleporterRst' = "reporting"
              /\ TeleporterDst' = "running" => T!RestorerStep
         /\ TeleporterRst = "reporting" /\ TeleporterRst' \in {"exit0", "exit1"}
              /\ TeleporterDst' = TeleporterDst => T!RestorerStep
         /\ TeleporterRst = "reporting" /\ TeleporterRst' = "exit2" /\ strict
              /\ TeleporterDst' = (IF TeleporterDst = "running" THEN "killed" ELSE TeleporterDst)
              => T!RestorerStep
         /\ TeleporterDst = "running" /\ TeleporterDst' = "exited"
              /\ TeleporterRst' = TeleporterRst => T!CopyExits
BY DEF T!RestorerStep, T!RestorerLoads, T!RestorerRejects, T!RestorerDetaches,
   T!RestorerAborts, T!RestorerReports, T!RestorerPanics, T!CopyExits, T!orchVars,
   T!srcVars, T!captVars, T!netVars

\* What the orchestrator sees, by the place the restorer is at.
SeenInv ==
    /\ rpc \in {"load", "validate", "fork", "wait_stub"}
         => TeleporterRst = "loading" /\ TeleporterDst = "none"
    /\ rpc \in Building => TeleporterRst = "building" /\ TeleporterDst = "stub"
    /\ rpc = "report" => TeleporterRst = "reporting"
    /\ exit = "0" => TeleporterRst = "exit0"
    /\ exit = "1" => /\ TeleporterRst = "exit1"
                     /\ TeleporterDst = IF child = "stray" THEN "stub" ELSE "none"
    /\ exit = "101" => TeleporterRst = "exit1"
    /\ exit = "2" => /\ TeleporterRst = "exit2"
                     /\ TeleporterDst = IF child = "ended" THEN "exited" ELSE "killed"
    /\ child = "running" => TeleporterDst = "running"
    /\ child = "ended" => TeleporterDst = "exited"

\* The place of the restorer and the state of the child determine it.
LEMMA SeenIs == ExitInv => SeenInv
<1> SUFFICES ASSUME ExitInv PROVE SeenInv
    OBVIOUS
<1>1. /\ rpc \in {"load", "validate", "fork", "wait_stub"} => TeleporterRst = "loading"
      /\ rpc \in Building => TeleporterRst = "building"
      /\ rpc = "report" => TeleporterRst = "reporting"
      /\ exit = "0" => TeleporterRst = "exit0"
      /\ exit \in {"1", "101"} => TeleporterRst = "exit1"
      /\ exit = "2" => TeleporterRst = "exit2"
    BY DEF ExitInv, Building, TeleporterRst
<1>2. child = "running" => TeleporterDst = "running"
    BY DEF TeleporterDst
<1>3. child = "ended" => TeleporterDst = "exited"
    BY DEF TeleporterDst
<1>4. ASSUME rpc \in {"load", "validate", "fork", "wait_stub"} PROVE TeleporterDst = "none"
  <2>1. child \in {"none", "starting", "stopped", "stopped_other", "gone"} /\ exit = "none"
        /\ TeleporterRst = "loading"
      BY <1>1, <1>4 DEF ExitInv
  <2> QED
      BY <2>1 DEF TeleporterDst
<1>5. ASSUME rpc \in Building PROVE TeleporterDst = "stub"
  <2>1. child \in {"stopped", "gone"} /\ TeleporterRst = "building"
      BY <1>1, <1>5 DEF ExitInv
  <2> QED
      BY <2>1 DEF TeleporterDst
<1>6. ASSUME exit = "1" PROVE TeleporterDst = IF child = "stray" THEN "stub" ELSE "none"
  <2>1. child \in {"none", "gone", "stray"} /\ TeleporterRst = "exit1"
      BY <1>1, <1>6 DEF ExitInv
  <2> QED
      BY <1>6, <2>1 DEF TeleporterDst
<1>7. ASSUME exit = "2" PROVE TeleporterDst = IF child = "ended" THEN "exited" ELSE "killed"
  <2>1. child \in {"gone", "ended"} /\ TeleporterRst = "exit2"
      BY <1>1, <1>7 DEF ExitInv
  <2> QED
      BY <1>7, <2>1 DEF TeleporterDst
<1> QED
    BY <1>1, <1>2, <1>3, <1>4, <1>5, <1>6, <1>7 DEF SeenInv

\* The orchestrator sees the same after a step.
LEMMA SeenIsNext == ExitInv' => SeenInv'
BY SeenIs, PTL

\* Each step is one of the abstract steps or none.
LEMMA StepIsSeen ==
  ASSUME ExitInv, [Next]_vars
  PROVE  [T!RestorerStep \/ T!CopyExits]_(T!vars)
<1>1. ExitInv /\ ExitInv'
    BY ExitStep
<1>2. SeenInv /\ SeenInv'
    BY <1>1, SeenIs, SeenIsNext
<1>3. strict' = strict
    BY DEF Next, RestorerStep, Load, Validate, ForkStub, WaitStub, CheckRegion, MmapRegion,
       WriteRegion, ProtectRegion, RestoreRegisters, RestoreFd, Dup2, Detach, Report,
       StubStops, ChildDies, vars, inputVars
<1>4. ASSUME rpc \in {"load", "validate", "fork", "wait_stub"},
             \/ rpc' \in {"load", "validate", "fork", "wait_stub"}
             \/ rpc' = "region"
             \/ rpc' = "exited" /\ exit' = "1"
      PROVE  T!RestorerStep \/ UNCHANGED T!vars
  <2>1. TeleporterRst = "loading" /\ TeleporterDst = "none"
      BY <1>2, <1>4 DEF SeenInv
  <2>2. CASE rpc' \in {"load", "validate", "fork", "wait_stub"}
      BY <1>2, <1>3, <2>1, <2>2, Unseen DEF SeenInv
  <2>3. CASE rpc' = "region"
    <3>1. TeleporterRst' = "building" /\ TeleporterDst' = "stub"
        BY <1>2, <2>3 DEF SeenInv, Building
    <3> QED
        BY <1>3, <2>1, <3>1, Seen
  <2>4. CASE exit' = "1"
    <3>1. TeleporterRst' = "exit1" /\ TeleporterDst' \in {TeleporterDst, "stub"}
        BY <1>2, <2>1, <2>4 DEF SeenInv
    <3> QED
        BY <1>3, <2>1, <3>1, Seen
  <2> QED
      BY <1>4, <2>2, <2>3, <2>4
<1>5. ASSUME rpc \in Building,
             \/ rpc' \in Building
             \/ rpc' = "report" /\ child' = "running"
             \/ rpc' = "exited" /\ exit' = "1" /\ child' = "gone"
      PROVE  T!RestorerStep \/ UNCHANGED T!vars
  <2>1. TeleporterRst = "building" /\ TeleporterDst = "stub"
      BY <1>2, <1>5 DEF SeenInv
  <2>2. CASE rpc' \in Building
      BY <1>2, <1>3, <2>1, <2>2, Unseen DEF SeenInv
  <2>3. CASE rpc' = "report" /\ child' = "running"
    <3>1. TeleporterRst' = "reporting" /\ TeleporterDst' = "running"
        BY <1>2, <2>3 DEF SeenInv
    <3> QED
        BY <1>3, <2>1, <3>1, Seen
  <2>4. CASE exit' = "1" /\ child' = "gone"
    <3>1. TeleporterRst' = "exit1" /\ TeleporterDst' = "none"
        BY <1>2, <2>4 DEF SeenInv
    <3> QED
        BY <1>3, <2>1, <3>1, Seen
  <2> QED
      BY <1>5, <2>2, <2>3, <2>4
<1>6. CASE Load \/ Validate \/ ForkStub \/ WaitStub
    BY <1>4, <1>6 DEF Load, Validate, ForkStub, WaitStub, Exit
<1>7. CASE CheckRegion \/ MmapRegion \/ WriteRegion \/ ProtectRegion \/ RestoreRegisters
           \/ RestoreFd \/ Dup2 \/ Detach
    BY <1>5, <1>7 DEF CheckRegion, MmapRegion, WriteRegion, ProtectRegion, NextRegion,
       RestoreRegisters, RestoreFd, Dup2, Detach, KillChild, Exit, Building
<1>8. CASE Report
  <2>1. /\ rpc = "report" /\ child \in {"running", "ended"} /\ TeleporterRst = "reporting"
        /\ TeleporterDst = IF child = "running" THEN "running" ELSE "exited"
      BY <1>1, <1>2, <1>8 DEF Report, ExitInv, SeenInv
  <2>2. CASE exit' \in {"0", "101"} /\ child' = child
    <3>1. TeleporterRst' \in {"exit0", "exit1"} /\ TeleporterDst' = TeleporterDst
        BY <1>2, <2>1, <2>2 DEF SeenInv
    <3> QED
        BY <1>3, <2>1, <3>1, Seen
  <2>3. CASE exit' = "2" /\ strict /\ child' = IF child = "running" THEN "gone" ELSE child
    <3>1. /\ TeleporterRst' = "exit2"
          /\ TeleporterDst' = IF TeleporterDst = "running" THEN "killed" ELSE TeleporterDst
        BY <1>2, <2>1, <2>3 DEF SeenInv
    <3> QED
        BY <1>3, <2>1, <2>3, <3>1, Seen
  <2> QED
      BY <1>8, <2>2, <2>3 DEF Report, Exit
<1>9. CASE StubStops
  <2>1. rpc = "wait_stub" /\ rpc' = rpc
    BY <1>1, <1>9 DEF StubStops, ExitInv, ExitTellsChild, RpcStates, Building
  <2> QED
      BY <1>4, <2>1
<1>10. CASE ChildDies
  <2>1. CASE child = "stopped"
    <3>1. rpc' = rpc /\ (rpc = "wait_stub" \/ rpc \in Building)
        BY <1>1, <1>10, <2>1 DEF ChildDies, ExitInv, ExitTellsChild, RpcStates, Building
    <3> QED
        BY <1>4, <1>5, <3>1
  <2>2. CASE child = "running"
    <3>1. TeleporterDst = "running" /\ TeleporterDst' = "exited"
        BY <1>2, <1>10, <2>2 DEF SeenInv, ChildDies
    <3>2. TeleporterRst' = TeleporterRst
        BY <1>10 DEF ChildDies, TeleporterRst
    <3> QED
        BY <1>3, <3>1, <3>2, Seen
  <2> QED
      BY <1>10, <2>1, <2>2 DEF ChildDies
<1>11. CASE UNCHANGED vars
  <2>1. TeleporterRst' = TeleporterRst /\ TeleporterDst' = TeleporterDst
      BY <1>11 DEF vars, TeleporterRst, TeleporterDst
  <2> QED
      BY <1>3, <2>1, Unseen
<1> QED
    BY <1>6, <1>7, <1>8, <1>9, <1>10, <1>11 DEF Next, RestorerStep

\* The restorer, whatever fails inside it, does what Teleporter lets a restorer do:
\* the theorems about the orchestrator hold with this restorer at the other end.
THEOREM Refinement == Spec => ImplementsTeleporter
<1>1. Init => TeleporterRst = "loading" /\ TeleporterDst = "none"
    BY DEF Init, TeleporterRst, TeleporterDst
<1>2. ExitInv /\ [Next]_vars => [T!RestorerStep \/ T!CopyExits]_(T!vars)
    BY StepIsSeen
<1> QED
    BY <1>1, <1>2, ExitInvariance, PTL DEF Spec, ImplementsTeleporter

-----------------------------------------------------------------------------
(***************************************************************************)
(* Type correctness.  The counter of the regions stays within the snapshot *)
(* because it is advanced only behind a region that exists, and a free     *)
(* descriptor can always be found because finitely many are in use.        *)
(***************************************************************************)

\* A non-empty set of naturals has a least member, and Min is it.
LEMMA LeastIsMember ==
    ASSUME NEW S \in SUBSET Nat, S # {}
    PROVE  Min(S) \in S
<1> DEFINE R == OpToRel(<, Nat)
<1>1. PICK n \in S : \A m \in S : <<m, n>> \notin R
  <2>1. IsWellFoundedOn(R, Nat)
      BY NatLessThanWellFounded
  <2> HIDE DEF R
  <2> QED
      BY <2>1, WFMin
<1>2. ASSUME NEW m \in S PROVE n <= m
  <2>1. ~(m < n)
      BY <1>1 DEF OpToRel
  <2> QED
      BY <2>1
<1> QED
    BY <1>2 DEF Min

\* Of the numbers up to the size of a finite set, one is not in the set.
LEMMA OneIsFree ==
    ASSUME NEW used, IsFiniteSet(used)
    PROVE  {n \in 0 .. Cardinality(used) : n \notin used} # {}
<1>1. Cardinality(used) \in Nat
    BY FS_CardinalityType
<1>2. /\ IsFiniteSet(0 .. Cardinality(used))
      /\ Cardinality(0 .. Cardinality(used)) = Cardinality(used) + 1
    BY <1>1, FS_Interval
<1>3. ASSUME 0 .. Cardinality(used) \subseteq used PROVE FALSE
  <2>1. Cardinality(0 .. Cardinality(used)) <= Cardinality(used)
      BY <1>3, FS_Subset
  <2> QED
      BY <1>1, <1>2, <2>1
<1> QED
    BY <1>3

\* The restorer always finds a descriptor for a file it opens, and not one of
\* those it was started with.
LEMMA FreeFdType ==
    ASSUME opened \in Seq([num : Nat, os : Nat])
    PROVE  FreeFd \in Nat /\ FreeFd \notin Stdio
<1> DEFINE os   == {opened[k].os : k \in DOMAIN opened}
           used == Stdio \cup os
           f    == [k \in 1 .. Len(opened) |-> opened[k].os]
<1>1. DOMAIN opened = 1 .. Len(opened) /\ Len(opened) \in Nat
    OBVIOUS
<1>2. IsFiniteSet(1 .. Len(opened))
    BY <1>1, FS_Interval
<1>3. f \in Surjection(1 .. Len(opened), os)
    BY <1>1 DEF Surjection
<1>4. IsFiniteSet(os)
  <2> HIDE DEF os, f
  <2> QED
      BY <1>2, <1>3, FS_Surjection
<1>5. IsFiniteSet(Stdio)
  <2>1. Stdio \in SUBSET Nat /\ 2 \in Nat /\ \A s \in Stdio : s <= 2
      BY DEF Stdio
  <2> QED
      BY <2>1, FS_BoundedSetOfNaturals
<1>6. IsFiniteSet(used)
  <2> HIDE DEF os
  <2> QED
      BY <1>4, <1>5, FS_Union
<1> DEFINE free == {n \in 0 .. Cardinality(used) : n \notin used}
<1>7. free # {} /\ free \in SUBSET Nat /\ \A n \in free : n \notin Stdio
  <2>2. Stdio \subseteq used
      OBVIOUS
  <2> HIDE DEF used
  <2>1. Cardinality(used) \in Nat
      BY <1>6, FS_CardinalityType
  <2> QED
      BY <1>6, <2>1, <2>2, OneIsFree
<1>8. FreeFd = Min(free)
    BY DEF FreeFd
<1> HIDE DEF free
<1> QED
    BY <1>7, <1>8, LeastIsMember

\* A region is being restored only while there is one.
ProgressInv ==
    rpc \in {"mmap", "write", "protect"} => reg <= Len(snap.regions)

CpuOK ==
    /\ regs \in {"stub", "call", "snapshot"}
    /\ patched \in BOOLEAN
    /\ cut \in BOOLEAN

\* An injection, whole or cut short, leaves the registers and the flags typed.
LEMMA CpuType ==
    ASSUME TypeOK
    PROVE  CpuOK /\ (InjectionLost \/ UNCHANGED cpuVars => CpuOK')
<1>1. CpuOK
    BY DEF TypeOK, CpuOK
<1>2. ASSUME InjectionLost PROVE CpuOK'
    BY <1>1, <1>2, Zenon DEF InjectionLost, CpuOK
<1>3. ASSUME UNCHANGED cpuVars PROVE CpuOK'
    BY <1>1, <1>3 DEF cpuVars, CpuOK
<1> QED
    BY <1>1, <1>2, <1>3

\* What a list of opened descriptors holds, and what it is after another one.
LEMMA ListType ==
    ASSUME NEW S, NEW s \in Seq(S)
    PROVE  /\ \A i \in Nat \ {0} : i <= Len(s) => s[i] \in S
           /\ \A e \in S : Append(s, e) \in Seq(S)
OBVIOUS

\* Every step of the restorer and of the child keeps the types.
LEMMA TypeStep ==
    ASSUME TypeOK, ProgressInv, [Next]_vars
    PROVE  TypeOK' /\ ProgressInv'
<1> USE DEF TypeOK, ProgressInv, ChildStates
<1>1. Len(snap.regions) \in Nat
    BY RegionsType
<1>2. \A i \in Nat : Bytes(i) \in Nat
    BY DEF Bytes
<1>3. CASE Load
    BY <1>3 DEF Load, Exit, inputVars, fdVars, memVars, cpuVars
<1>4. CASE Validate
    BY <1>4 DEF Validate, Exit, inputVars, fdVars, memVars, cpuVars
<1>5. CASE ForkStub
    BY <1>5 DEF ForkStub, Exit, inputVars, fdVars, memVars, cpuVars
<1>6. CASE StubStops
    BY <1>6 DEF StubStops, inputVars, fdVars, memVars, cpuVars
<1>7. CASE WaitStub
    BY <1>7 DEF WaitStub, Exit, inputVars, fdVars, memVars, cpuVars
<1>8. CASE CheckRegion
    BY <1>8 DEF CheckRegion, KillChild, Exit, inputVars, fdVars, memVars, cpuVars
<1>9. CASE MmapRegion
  <2>1. mem' \in [Pages -> Nat] /\ prot' \in [Pages -> {"ro", "rw"}]
      BY <1>9 DEF MmapRegion, ZeroPage, memVars
  <2>2. CpuOK'
      BY <1>9, CpuType DEF MmapRegion, cpuVars
  <2> QED
      BY <1>9, <2>1, <2>2 DEF MmapRegion, KillChild, Exit, CpuOK, inputVars, fdVars
<1>10. CASE WriteRegion
  <2>1. reg \in Nat
      BY <1>1
  <2> QED
      BY <1>2, <1>10, <2>1 DEF WriteRegion, KillChild, Exit, inputVars, fdVars, memVars, cpuVars
<1>11. CASE ProtectRegion
  <2>1. prot' \in [Pages -> {"ro", "rw"}]
      BY <1>11 DEF ProtectRegion, Prot
  <2>2. CpuOK'
      BY <1>11, CpuType DEF ProtectRegion, cpuVars
  <2>3. reg' \in 1 .. (Len(snap.regions) + 1)
      BY <1>1, <1>11 DEF ProtectRegion, NextRegion
  <2>4. rpc' \in {"region", "exited"} /\ exit' \in {exit, "1"} /\ child' \in {child, "gone"}
      BY <1>11 DEF ProtectRegion, NextRegion, KillChild, Exit
  <2>5. UNCHANGED <<inputVars, fdVars, mem, placed>>
      BY <1>11 DEF ProtectRegion
  <2> QED
      BY <2>1, <2>2, <2>3, <2>4, <2>5 DEF CpuOK, inputVars, fdVars
<1>12. CASE RestoreRegisters
    BY <1>12 DEF RestoreRegisters, KillChild, Exit, inputVars, fdVars, memVars, cpuVars
<1>13. CASE RestoreFd
  <2>1. FreeFd \in Nat
      BY FreeFdType
  <2>2. ASSUME fd <= Len(snap.fds) PROVE snap.fds[fd].num \in Nat
    <3>1. snap.fds \in Seq(FdSpec)
        BY SnapshotsAssumption DEF Snapshot
    <3>2. snap.fds[fd] \in FdSpec
        BY <2>2, <3>1
    <3> QED
        BY <3>2 DEF FdSpec
  <2>3. fd' \in Nat \ {0}
      BY <1>13 DEF RestoreFd
  <2>4. opened' \in Seq([num : Nat, os : Nat]) /\ failed' \subseteq Nat
    <3>1. CASE fd > Len(snap.fds)
        BY <1>13, <3>1 DEF RestoreFd
    <3>2. CASE ~(fd > Len(snap.fds))
      <4>1. snap.fds[fd].num \in Nat
        <5>1. snap.fds \in Seq(FdSpec)
            BY SnapshotsAssumption DEF Snapshot
        <5> QED
            BY <2>2, <3>2, <5>1
      <4>2. [num |-> snap.fds[fd].num, os |-> FreeFd] \in [num : Nat, os : Nat]
          BY <2>1, <4>1
      <4> DEFINE rec == [num |-> snap.fds[fd].num, os |-> FreeFd]
      <4>3. opened' \in {opened, Append(opened, rec)}
          BY <1>13, <3>2 DEF RestoreFd
      <4>4. failed' \in {failed, failed \cup {snap.fds[fd].num}}
          BY <1>13, <3>2 DEF RestoreFd
      <4>5. opened \in Seq([num : Nat, os : Nat]) /\ failed \subseteq Nat
          OBVIOUS
      <4>6. Append(opened, rec) \in Seq([num : Nat, os : Nat])
          BY <4>2, <4>5, ListType, Zenon
      <4> HIDE DEF rec, TypeOK
      <4> QED
          BY <4>1, <4>3, <4>4, <4>5, <4>6
    <3> QED
        BY <3>1, <3>2
  <2>5. rpc' \in {"fds", "dup2"} /\ UNCHANGED <<inputVars, reg, exit, child, memVars, cpuVars, placed>>
      BY <1>13 DEF RestoreFd
  <2> QED
      BY <2>3, <2>4, <2>5 DEF inputVars, memVars, cpuVars
<1>14. CASE Dup2
  <2>1. CpuOK'
      BY <1>14, CpuType DEF Dup2
  <2>2. placed' \subseteq Nat
    <3>1. opened[fd] \in [num : Nat, os : Nat]
      <4>1. opened \in Seq([num : Nat, os : Nat]) /\ fd \in Nat \ {0} /\ fd <= Len(opened)
          BY <1>14 DEF Dup2
      <4> QED
          BY <4>1, ListType, Zenon
    <3>2. placed' \in {placed, placed \cup {opened[fd].num}}
        BY <1>14, Zenon DEF Dup2
    <3> QED
        BY <3>1, <3>2
  <2>3. fd' \in Nat \ {0} /\ UNCHANGED <<inputVars, rpc, reg, opened, failed, exit, child, memVars>>
      BY <1>14 DEF Dup2
  <2> QED
      BY <2>1, <2>2, <2>3 DEF CpuOK, inputVars, memVars
<1>15. CASE Detach
    BY <1>15 DEF Detach, KillChild, Exit, inputVars, fdVars, memVars, cpuVars
<1>16. CASE Report
    BY <1>16 DEF Report, Exit, inputVars, fdVars, memVars, cpuVars
<1>17. CASE ChildDies
    BY <1>17 DEF ChildDies, inputVars, fdVars, memVars, cpuVars
<1>18. CASE UNCHANGED vars
    BY <1>18 DEF vars, inputVars, fdVars, memVars, cpuVars
<1> QED
    BY <1>3, <1>4, <1>5, <1>6, <1>7, <1>8, <1>9, <1>10, <1>11, <1>12, <1>13, <1>14,
       <1>15, <1>16, <1>17, <1>18 DEF Next, RestorerStep

\* Types and the counter of the regions hold together.
LEMMA TypeInvariance == Spec => [](TypeOK /\ ProgressInv)
<1>1. Init => TypeOK /\ ProgressInv
  <2> SUFFICES ASSUME Init PROVE TypeOK /\ ProgressInv
      OBVIOUS
  <2>1. Len(snap.regions) \in Nat
      BY RegionsType DEF Init
  <2>2. mem \in [Pages -> Nat] /\ prot \in [Pages -> {"ro", "rw"}]
      BY DEF Init, StubImage, Unmapped
  <2>3. opened \in Seq([num : Nat, os : Nat])
      BY DEF Init
  <2>4. reg \in 1 .. (Len(snap.regions) + 1) /\ fd \in Nat \ {0}
      BY <2>1 DEF Init
  <2>5. strict \in BOOLEAN /\ CpuOK
      BY Zenon DEF Init, CpuOK
  <2>6. /\ rpc = "load" /\ exit = "none" /\ child = "none" /\ failed = {} /\ placed = {}
        /\ snap \in Snapshots /\ stubPage \in Pages
      BY DEF Init
  <2> QED
      BY <2>2, <2>3, <2>4, <2>5, <2>6 DEF TypeOK, CpuOK, ProgressInv, ChildStates
<1>2. TypeOK /\ ProgressInv /\ [Next]_vars => (TypeOK /\ ProgressInv)'
    BY TypeStep
<1> QED
    BY <1>1, <1>2, PTL DEF Spec

\* Every reachable state of a restore is type correct: the counter of the regions
\* never leaves the snapshot, and a free descriptor is found for every file, for
\* any snapshot and any faults.
THEOREM TypeCorrect == Spec => []TypeOK
BY TypeInvariance, PTL

-----------------------------------------------------------------------------
(***************************************************************************)
(* The descriptors of the copy.  What the restorer opens is never one of   *)
(* the descriptors that the child inherited, so that no dup2 in the child  *)
(* finds its first argument open.                                          *)
(***************************************************************************)

OpenedAfterFork == \A k \in DOMAIN opened : opened[k].os \notin Stdio

FdInv == TypeOK /\ OpenedAfterFork /\ NoForeignDescriptor

\* Every step that keeps the types keeps it.
LEMMA FdStep ==
    ASSUME FdInv, TypeOK', [Next]_vars
    PROVE  FdInv'
<1>1. CASE RestoreFd
  <2>1. opened \in Seq([num : Nat, os : Nat]) /\ FreeFd \in Nat /\ FreeFd \notin Stdio
      BY FreeFdType DEF FdInv, TypeOK
  <2>2. placed' = placed
      BY <1>1 DEF RestoreFd
  <2>3. opened' = opened \/ \E n : opened' = Append(opened, [num |-> n, os |-> FreeFd])
      BY <1>1 DEF RestoreFd
  <2>4. OpenedAfterFork'
    <3>1. CASE opened' = opened
        BY <3>1 DEF FdInv, OpenedAfterFork
    <3>2. ASSUME NEW n, opened' = Append(opened, [num |-> n, os |-> FreeFd])
          PROVE  OpenedAfterFork'
        BY <2>1, <3>2 DEF FdInv, OpenedAfterFork
    <3> QED
        BY <2>3, <3>1, <3>2
  <2> QED
      BY <2>2, <2>4 DEF FdInv, NoForeignDescriptor
<1>2. CASE Dup2
  <2>1. opened' = opened
      BY <1>2 DEF Dup2
  <2>2. fd \in DOMAIN opened
    <3>1. opened \in Seq([num : Nat, os : Nat]) /\ fd \in Nat \ {0} /\ fd <= Len(opened)
        BY <1>2 DEF Dup2, FdInv, TypeOK
    <3> QED
        BY <3>1
  <2>3. opened[fd].os \notin Stdio /\ placed = {}
      BY <2>2 DEF FdInv, OpenedAfterFork, NoForeignDescriptor
  <2>4. placed' = {}
      BY <1>2, <2>3, Zenon DEF Dup2
  <2> QED
      BY <2>1, <2>4 DEF FdInv, OpenedAfterFork, NoForeignDescriptor
<1>3. ASSUME UNCHANGED <<opened, placed>> PROVE FdInv'
    BY <1>3 DEF FdInv, OpenedAfterFork, NoForeignDescriptor
<1>4. ASSUME ~RestoreFd, ~Dup2 PROVE UNCHANGED <<opened, placed>>
    BY <1>4 DEF Next, RestorerStep, Load, Validate, ForkStub, WaitStub, CheckRegion,
       MmapRegion, WriteRegion, ProtectRegion, RestoreRegisters, Detach, Report, StubStops,
       ChildDies, vars, fdVars
<1> QED
    BY <1>1, <1>2, <1>3, <1>4

\* No injected dup2 replaces a descriptor of the copy, for any number of open files
\* and whatever fails: none puts an inherited end of the SSH channel in the place of
\* a file, and none puts the file there either.
THEOREM DescriptorsUntouched == Spec => []NoForeignDescriptor
<1>1. Init => OpenedAfterFork /\ NoForeignDescriptor
  <2>1. Init => DOMAIN opened = {} /\ placed = {}
      BY DEF Init
  <2> QED
      BY <2>1 DEF OpenedAfterFork, NoForeignDescriptor
<1>2. FdInv /\ TypeOK' /\ [Next]_vars => FdInv'
    BY FdStep
<1>3. FdInv <=> TypeOK /\ OpenedAfterFork /\ NoForeignDescriptor
    BY DEF FdInv
<1> QED
    BY <1>1, <1>2, <1>3, TypeCorrect, PTL DEF Spec
=============================================================================
