------------------------- MODULE CapturerMapProofs -------------------------
(***************************************************************************)
(* Proofs about what Capturer makes of the memory map of a process that    *)
(* runs while the map is read: the snapshot is wrong only about what was   *)
(* touched, and the restorer accepts its layout.  For any address space    *)
(* and any number of steps of the source process.                          *)
(***************************************************************************)
EXTENDS CapturerProofs

Untouched == Page \ touched

\* The kernel's page, and nothing else, is above user space.
VsyscallInv ==
    \A p \in Page : Mapped(p) => (space[p].path = "[vsyscall]" <=> p >= UserSpaceLimit)

\* The regions are in the order of their addresses and below the cursor, one
\* that is not the kernel's is in user space, and the dump loop and retain
\* leave regions with data only.
OrderInv ==
    /\ \A j, k \in DOMAIN regions : j < k => regions[j].end <= regions[k].start
    /\ cpc = "parse_maps" => \A k \in DOMAIN regions : regions[k].end <= cursor
    /\ \A k \in DOMAIN regions :
          /\ regions[k].end <= UserSpaceLimit \/ regions[k].type = "vsyscall"
          /\ regions[k].data # <<>> => regions[k].type # "vsyscall"
          /\ cpc \in {"fds", "save"} => regions[k].data # <<>>

\* The pages of a region that were left alone are what its line said, and so
\* they are like each other.
LinesInv ==
    \A k \in DOMAIN regions : \A p \in Untouched :
        Covers(regions[k], p) =>
            /\ Mapped(p)
            /\ regions[k].perms = space[p].perm
            /\ regions[k].type = classify_region(space[p].path)
            /\ \A q \in Untouched : Covers(regions[k], q) => Like(p, q)

Listed(p) == \E k \in DOMAIN regions : Covers(regions[k], p)

\* A page that was left alone and is mapped is listed once the cursor is past it.
ListedInv ==
    /\ (mode = "capture" /\ cpc = "parse_maps") =>
          \A p \in Untouched : p < cursor /\ Mapped(p) => Listed(p)
    /\ (mode = "capture" /\ run # "dead"
          /\ cpc \in {"attach", "waitpid", "registers", "dump"}) =>
          \A p \in Untouched : Mapped(p) => Listed(p)

\* A region that the dump loop has passed has its data, or was to be skipped,
\* or cannot be read.
DumpInv ==
    /\ cpc \in {"parse_maps", "attach", "waitpid", "registers"} \cup Ended => idx = 1
    /\ (cpc = "dump" /\ run # "dead") =>
          \A k \in DOMAIN regions :
              k < idx => \/ regions[k].data # <<>>
                         \/ should_skip(regions[k])
                         \/ ~CanDump(regions[k])

MapInv == VsyscallInv /\ OrderInv /\ LinesInv /\ ListedInv /\ DumpInv

\* Nothing is listed at first, and the initial spaces are those of a kernel.
LEMMA InitMap == Init => MapInv
<1> SUFFICES ASSUME Init PROVE MapInv
  OBVIOUS
<1>1. VsyscallInv
  BY VsyscallAssumption DEF Init, VsyscallInv, Mapped
<1>2. DOMAIN regions = {} /\ cursor = 0 /\ cpc = "parse_maps" /\ idx = 1
  BY DEF Init
<1>3. \A p \in Page : ~(p < 0)
  BY WidthAssumption DEF Page
<1> QED
  BY <1>1, <1>2, <1>3 DEF MapInv, OrderInv, LinesInv, ListedInv, DumpInv, Untouched

\* All pages of a line of the maps file are like the first one, and are mapped.
LEMMA LineIsUniform ==
  ASSUME space \in [Page -> Cell], NEW p \in Page, Mapped(p),
         NEW q \in p .. (MapsLine(p).end - 1)
  PROVE  q \in Page /\ Like(p, q) /\ Mapped(q)
<1> DEFINE S == {e \in (p + 1) .. (Width - 1) : e = Width - 1 \/ ~Like(p, e)}
<1>1. Width - 1 \in S /\ S \in SUBSET Nat /\ p \in Nat
  BY WidthAssumption DEF Page
<1>2. MapsLine(p).end = Min(S)
  BY DEF MapsLine
<1>3. Min(S) \in S /\ \A e \in S : Min(S) <= e
  <2> HIDE DEF S
  <2> QED
    BY <1>1, MinIsMember
<1>4. q \in Page
  BY <1>1, <1>2, <1>3, WidthAssumption DEF Page
<1>5. Like(p, q)
  <2>1. CASE q = p
    BY <2>1 DEF Like
  <2>2. CASE q # p
    <3>1. q \notin S
      BY <1>1, <1>2, <1>3
    <3>2. q \in (p + 1) .. (Width - 1)
      BY <1>1, <1>2, <1>3, <2>2
    <3> QED
      BY <3>1, <3>2
  <2> QED
    BY <2>1, <2>2
<1> QED
  BY <1>4, <1>5 DEF Like, Mapped

\* A step of the source leaves the protection and the name of every page that
\* counts as untouched afterwards, and keeps the kernel's page where it is.
LEMMA SourceKeeps ==
  ASSUME SourceOK, VsyscallInv, SourceStep
  PROVE  /\ VsyscallInv'
         /\ touched \subseteq touched'
         /\ \A p \in Untouched' :
               space'[p].perm = space[p].perm /\ space'[p].path = space[p].path
<1> DEFINE Kept == /\ VsyscallInv'
                   /\ touched \subseteq touched'
                   /\ \A p \in Untouched' :
                         space'[p].perm = space[p].perm /\ space'[p].path = space[p].path
<1> SUFFICES Kept
  OBVIOUS
<1> USE DEF SourceOK, VsyscallInv, Untouched, Mapped
<1>1. UserPage \subseteq Page /\ \A p \in UserPage : ~(p >= UserSpaceLimit)
  BY WidthAssumption, LimitAssumption DEF UserPage, Page
<1>2. \A p \in Page : space[p] \in Cell
  OBVIOUS
<1>3. ASSUME NEW p \in Page, space' = [space EXCEPT ![p].ver = regs + 1],
             UNCHANGED touched
      PROVE  Kept
  <2>1. \A q \in Page : space'[q].perm = space[q].perm /\ space'[q].path = space[q].path
    BY <1>2, <1>3 DEF Cell
  <2> QED
    BY <1>3, <2>1
<1>4. ASSUME NEW p \in UserPage, NEW c, Remap(p, c), c.path # "[vsyscall]" \/ c.perm = "unmapped"
      PROVE  Kept
  <2>1. /\ space'[p] = c
        /\ \A q \in Page : q # p => space'[q] = space[q]
        /\ touched' = touched \cup {p}
    BY <1>1, <1>4 DEF Remap
  <2> QED
    BY <1>1, <1>4, <2>1
<1>5. ASSUME NEW d, NEW v, SetDescriptor(d, v) PROVE Kept
  BY <1>5 DEF SetDescriptor
<1> HIDE DEF Kept
<1>11. CASE \E p \in Page :
              /\ space[p].perm = "rw"
              /\ space' = [space EXCEPT ![p].ver = regs + 1]
              /\ UNCHANGED <<fds, touched>>
  BY <1>3, <1>11
<1>12. CASE \E p \in UserPage :
              ~Mapped(p) /\ Remap(p, [perm |-> "rw", path |-> "", ver |-> regs + 1])
  BY <1>4, <1>12
<1>13. CASE \E p \in UserPage :
              Mapped(p) /\ Remap(p, [perm |-> "unmapped", path |-> "", ver |-> 0])
  BY <1>4, <1>13
<1>14. CASE \E p \in UserPage, perm \in Perms :
              /\ Mapped(p) /\ space[p].perm # perm /\ space[p].path \notin KernelPaths
              /\ Remap(p, [space[p] EXCEPT !.perm = perm])
  <2>1. PICK p \in UserPage, perm \in Perms :
          space[p].path \notin KernelPaths /\ Remap(p, [space[p] EXCEPT !.perm = perm])
    BY <1>14
  <2>2. [space[p] EXCEPT !.perm = perm].path # "[vsyscall]"
    BY <1>1, <1>2, <2>1 DEF Cell, KernelPaths
  <2> QED
    BY <1>4, <2>1, <2>2
<1>15. CASE \E d \in DOMAIN fds, t \in {"/file", "socket:"} :
              fds[d].target = Closed /\ SetDescriptor(d, [target |-> t, pos |-> 0])
  BY <1>5, <1>15
<1>16. CASE \E d \in DOMAIN fds :
              fds[d].target # Closed /\ SetDescriptor(d, [target |-> Closed, pos |-> 0])
  BY <1>5, <1>16
<1>17. CASE \E d \in DOMAIN fds :
              fds[d].target = "/file" /\ SetDescriptor(d, [fds[d] EXCEPT !.pos = regs + 1])
  BY <1>5, <1>17
<1> QED
  BY <1>11, <1>12, <1>13, <1>14, <1>15, <1>16, <1>17 DEF SourceStep

\* Nothing that the lines say of untouched pages is lost when pages are touched,
\* regions are dumped or regions are dropped.
LEMMA LinesKept ==
  ASSUME LinesInv,
         Untouched' \subseteq Untouched,
         \A p \in Untouched' :
            space'[p].perm = space[p].perm /\ space'[p].path = space[p].path,
         \A k \in DOMAIN regions' : \E j \in DOMAIN regions :
            /\ regions'[k].start = regions[j].start
            /\ regions'[k].end = regions[j].end
            /\ regions'[k].perms = regions[j].perms
            /\ regions'[k].type = regions[j].type
  PROVE  LinesInv'
<1> SUFFICES ASSUME NEW k \in DOMAIN regions', NEW p \in Untouched',
                    Covers(regions'[k], p)
             PROVE  /\ Mapped(p)'
                    /\ regions'[k].perms = space'[p].perm
                    /\ regions'[k].type = classify_region(space'[p].path)
                    /\ \A q \in Untouched' : Covers(regions'[k], q) => Like(p, q)'
  BY DEF LinesInv, Covers
<1>1. PICK j \in DOMAIN regions :
        /\ regions'[k].start = regions[j].start
        /\ regions'[k].end = regions[j].end
        /\ regions'[k].perms = regions[j].perms
        /\ regions'[k].type = regions[j].type
  OBVIOUS
<1>2. \A q : Covers(regions'[k], q) <=> Covers(regions[j], q)
  BY <1>1 DEF Covers
<1>3. /\ Mapped(p)
      /\ regions[j].perms = space[p].perm
      /\ regions[j].type = classify_region(space[p].path)
      /\ \A q \in Untouched : Covers(regions[j], q) => Like(p, q)
  BY <1>2 DEF LinesInv
<1> QED
  BY <1>1, <1>2, <1>3 DEF Mapped, Like

\* The next line of the maps file continues the list: it starts at the first
\* mapped page from the cursor on, lies on one side of the limit of user space,
\* and no mapped page before its end is left out.
LEMMA ParseLine ==
  ASSUME SourceOK, RegionsOK, cursor \in Address, VsyscallInv,
         NEW p \in Page, p >= cursor, Mapped(p),
         \A q \in Page : q >= cursor /\ Mapped(q) => p <= q
  PROVE  LET r == parse_maps_line(MapsLine(p))
         IN  /\ r.start = p /\ r.end = MapsLine(p).end /\ r.data = <<>>
             /\ r.start \in Nat /\ r.end \in Nat /\ r.start < r.end
             /\ r.end <= UserSpaceLimit \/ r.type = "vsyscall"
             /\ \A q \in Page : Covers(r, q) =>
                   /\ Mapped(q)
                   /\ r.perms = space[q].perm
                   /\ r.type = classify_region(space[q].path)
             /\ \A q, s \in Page : Covers(r, q) /\ Covers(r, s) => Like(q, s)
             /\ \A q \in Page : q >= cursor /\ q < r.end /\ Mapped(q) => Covers(r, q)
<1> DEFINE line == MapsLine(p)
           r == parse_maps_line(line)
<1>1. /\ line.start = p /\ line.end \in (p + 1) .. (Width - 1)
      /\ line.perms = space[p].perm /\ line.path = space[p].path
  <2>1. line.perms = space[p].perm /\ line.path = space[p].path
    BY DEF MapsLine
  <2> QED
    BY <2>1, MapsLineType DEF SourceOK
<1>2. \A q \in p .. (line.end - 1) : q \in Page /\ Like(p, q) /\ Mapped(q)
  BY LineIsUniform DEF SourceOK
<1> HIDE DEF line
<1>3. /\ r.start = p /\ r.end = line.end /\ r.data = <<>> /\ r.perms = space[p].perm
      /\ r.type = classify_region(space[p].path)
  BY <1>1 DEF parse_maps_line
<1> HIDE DEF r
<1>4. p \in Nat /\ line.end \in Nat /\ p < line.end
  BY <1>1, WidthAssumption DEF Page
<1>5. \A q \in Page : Covers(r, q) <=> q \in p .. (line.end - 1)
  BY <1>3, <1>4, WidthAssumption DEF Covers, Page
<1>6. r.end <= UserSpaceLimit \/ r.type = "vsyscall"
  <2>1. CASE p >= UserSpaceLimit
    <3>1. space[p].path = "[vsyscall]"
      BY <2>1 DEF VsyscallInv
    <3> QED
      BY <1>3, <3>1 DEF classify_region
  <2>2. CASE ~(p >= UserSpaceLimit)
    <3> DEFINE z == line.end - 1
    <3>1. z \in p .. (line.end - 1) /\ z \in Nat
      BY <1>4
    <3>2. z \in Page /\ Like(p, z) /\ Mapped(z)
      BY <1>2, <3>1
    <3>3. space[p].path # "[vsyscall]"
      BY <2>2 DEF VsyscallInv
    <3>4. ~(z >= UserSpaceLimit)
      BY <3>2, <3>3 DEF VsyscallInv, Like
    <3> QED
      BY <1>3, <1>4, <3>4, LimitAssumption, WidthAssumption
  <2> QED
    BY <2>1, <2>2
<1>7. \A q \in Page : Covers(r, q) => Like(p, q) /\ Mapped(q)
  BY <1>2, <1>5
<1>8. \A q \in Page : q >= cursor /\ q < r.end /\ Mapped(q) => Covers(r, q)
  BY <1>3 DEF Covers
<1> QED
  BY <1>3, <1>4, <1>6, <1>7, <1>8 DEF Like, r, line

\* While the source does nothing, it is the new regions that have to fit.
LEMMA LinesAnew ==
  ASSUME UNCHANGED srcVars,
         \A k \in DOMAIN regions' : \A q \in Untouched :
            Covers(regions'[k], q) =>
                /\ Mapped(q)
                /\ regions'[k].perms = space[q].perm
                /\ regions'[k].type = classify_region(space[q].path)
                /\ \A s \in Untouched : Covers(regions'[k], s) => Like(q, s)
  PROVE  LinesInv'
<1>1. Untouched' = Untouched /\ space' = space
  BY DEF Untouched, srcVars
<1> SUFFICES ASSUME NEW k \in DOMAIN regions', NEW q \in Untouched',
                    Covers(regions'[k], q)
             PROVE  /\ Mapped(q)'
                    /\ regions'[k].perms = space'[q].perm
                    /\ regions'[k].type = classify_region(space'[q].path)
                    /\ \A s \in Untouched' : Covers(regions'[k], s) => Like(q, s)'
  BY DEF LinesInv, Covers
<1> QED
  BY <1>1 DEF Mapped, Like

\* Reading a line keeps the invariant.
LEMMA ParseKeeps ==
  ASSUME SourceOK, RegionsOK, cursor \in Address, MapInv, cpc = "parse_maps",
         NEW left, left = {p \in Page : p >= cursor /\ Mapped(p)}, left # {},
         regions' = Append(regions, parse_maps_line(MapsLine(Min(left)))),
         cursor' = MapsLine(Min(left)).end,
         UNCHANGED <<mode, cpc, idx>>, UNCHANGED srcVars
  PROVE  MapInv'
<1> DEFINE p == Min(left)
           r == parse_maps_line(MapsLine(p))
           n == Len(regions)
<1>1. /\ p \in Page /\ p >= cursor /\ Mapped(p)
      /\ \A q \in Page : q >= cursor /\ Mapped(q) => p <= q
  <2>1. left \in SUBSET Nat
    BY WidthAssumption DEF Page
  <2>2. p \in left /\ \A q \in left : p <= q
    BY <2>1, MinIsMember
  <2> QED
    BY <2>2
<1>2. regions' = Append(regions, r) /\ cursor' = MapsLine(p).end
  OBVIOUS
<1> HIDE DEF p
<1>3. /\ r.start = p /\ r.end = MapsLine(p).end /\ r.data = <<>>
      /\ r.start \in Nat /\ r.end \in Nat /\ r.start < r.end
      /\ r.end <= UserSpaceLimit \/ r.type = "vsyscall"
      /\ \A q \in Page : Covers(r, q) =>
            /\ Mapped(q)
            /\ r.perms = space[q].perm
            /\ r.type = classify_region(space[q].path)
      /\ \A q, s \in Page : Covers(r, q) /\ Covers(r, s) => Like(q, s)
      /\ \A q \in Page : q >= cursor /\ q < r.end /\ Mapped(q) => Covers(r, q)
  BY <1>1, ParseLine DEF MapInv
<1> HIDE DEF r
<1>4. n \in Nat /\ DOMAIN regions = 1 .. n
  BY DEF RegionsOK
<1>5. /\ DOMAIN regions' = 1 .. (n + 1)
      /\ regions'[n + 1] = r
      /\ \A k \in 1 .. n : regions'[k] = regions[k]
  BY <1>2 DEF RegionsOK
<1>6. \A k \in DOMAIN regions : regions[k].end \in Nat /\ regions[k].start \in Nat
  <2> SUFFICES ASSUME NEW k \in DOMAIN regions
               PROVE  regions[k].end \in Nat /\ regions[k].start \in Nat
    OBVIOUS
  <2>1. regions[k] \in Region
    BY DEF RegionsOK
  <2> QED
    BY <2>1, WidthAssumption DEF Region, Address, Page
<1>7. cursor \in Nat
  BY WidthAssumption DEF Address
<1> HIDE DEF n
<1>8. VsyscallInv'
  BY DEF MapInv, VsyscallInv, Mapped, srcVars
<1>9. OrderInv'
  <2>1. \A k \in DOMAIN regions : regions[k].end <= cursor
    BY DEF MapInv, OrderInv
  <2>2. \A j, k \in DOMAIN regions' : j < k => regions'[j].end <= regions'[k].start
    <3> SUFFICES ASSUME NEW j \in 1 .. (n + 1), NEW k \in 1 .. (n + 1), j < k
                 PROVE  regions'[j].end <= regions'[k].start
      BY <1>5
    <3>1. j \in 1 .. n
      BY <1>4
    <3>2. CASE k = n + 1
      BY <1>1, <1>3, <1>4, <1>5, <1>6, <1>7, <2>1, <3>1, <3>2
    <3>3. CASE k \in 1 .. n
      BY <1>4, <1>5, <3>1, <3>3 DEF MapInv, OrderInv
    <3> QED
      BY <1>4, <3>2, <3>3
  <2>3. \A k \in DOMAIN regions' : regions'[k].end <= cursor'
    BY <1>1, <1>2, <1>3, <1>4, <1>5, <1>6, <1>7, <2>1
  <2>4. \A k \in DOMAIN regions' :
           /\ regions'[k].end <= UserSpaceLimit \/ regions'[k].type = "vsyscall"
           /\ regions'[k].data # <<>> => regions'[k].type # "vsyscall"
    BY <1>3, <1>4, <1>5 DEF MapInv, OrderInv
  <2> QED
    BY <2>2, <2>3, <2>4 DEF OrderInv
<1>10. LinesInv'
  <2> SUFFICES ASSUME NEW k \in DOMAIN regions', NEW q \in Untouched,
                      Covers(regions'[k], q)
               PROVE  /\ Mapped(q)
                      /\ regions'[k].perms = space[q].perm
                      /\ regions'[k].type = classify_region(space[q].path)
                      /\ \A s \in Untouched : Covers(regions'[k], s) => Like(q, s)
    BY LinesAnew
  <2>1. CASE k = n + 1
    BY <1>3, <1>5, <2>1 DEF Untouched
  <2>2. CASE k \in 1 .. n
    BY <1>4, <1>5, <2>2 DEF MapInv, LinesInv
  <2> QED
    BY <1>4, <1>5, <2>1, <2>2
<1>11. ListedInv'
  <2> SUFFICES ASSUME mode = "capture", NEW q \in Untouched, q < cursor', Mapped(q)
               PROVE  \E k \in DOMAIN regions' : Covers(regions'[k], q)
    BY DEF ListedInv, Listed, Untouched, srcVars, Covers, Mapped
  <2>1. q \in Page /\ q \in Nat
    BY WidthAssumption DEF Untouched, Page
  <2>2. CASE q < cursor
    <3>1. PICK k \in DOMAIN regions : Covers(regions[k], q)
      BY <2>2 DEF MapInv, ListedInv, Listed
    <3> QED
      BY <1>4, <1>5, <3>1
  <2>3. CASE q >= cursor
    <3>1. Covers(r, q)
      BY <1>2, <1>3, <2>1, <2>3
    <3>2. n + 1 \in DOMAIN regions'
      BY <1>4, <1>5
    <3> QED
      BY <1>5, <3>1, <3>2
  <2> QED
    BY <1>7, <2>1, <2>2, <2>3
<1>12. DumpInv'
  BY DEF MapInv, DumpInv
<1> QED
  BY <1>8, <1>9, <1>10, <1>11, <1>12 DEF MapInv

\* The order of the regions is a matter of the regions and of where the capturer is.
LEMMA OrderKept ==
  ASSUME OrderInv, UNCHANGED regions,
         cpc' = "parse_maps" => UNCHANGED <<cpc, cursor>>,
         cpc' \in {"fds", "save"} => cpc \in {"fds", "save"}
  PROVE  OrderInv'
BY DEF OrderInv

\* A capturer that ends has nothing left that could be wrong.
LEMMA ExitKeepsMap ==
  ASSUME MapInv, NEW how \in Ended, ExitAs(how), UNCHANGED srcVars
  PROVE  MapInv'
<1>1. cpc' \in Ended /\ DOMAIN regions' = {} /\ idx' = 1
  BY DEF ExitAs
<1>2. VsyscallInv'
  BY DEF MapInv, VsyscallInv, Mapped, srcVars
<1> QED
  BY <1>1, <1>2 DEF MapInv, OrderInv, LinesInv, ListedInv, DumpInv, Ended

\* Steps of the kernel and of other parties keep the invariant.
LEMMA OthersKeepMap ==
  ASSUME MapInv, UNCHANGED srcVars, UNCHANGED <<mode, cpc, regions, cursor, idx>>,
         run' = "dead" \/ run # "dead"
  PROVE  MapInv'
<1> USE DEF MapInv
<1>1. space' = space /\ touched' = touched /\ Untouched' = Untouched
  BY DEF srcVars, Untouched
<1>2. VsyscallInv'
  BY <1>1 DEF VsyscallInv, Mapped
<1>3. OrderInv'
  BY OrderKept
<1>4. LinesInv'
  BY <1>1, LinesKept
<1>5. ListedInv'
  BY <1>1 DEF ListedInv, Listed, Covers, Mapped
<1>6. DumpInv'
  <2> SUFFICES ASSUME cpc = "dump", run' # "dead", NEW k \in DOMAIN regions, k < idx
               PROVE  \/ regions[k].data # <<>>
                      \/ should_skip(regions[k])
                      \/ ~CanDump(regions[k])'
    BY DEF DumpInv, should_skip, region_size
  <2> QED
    BY <1>1 DEF DumpInv, CanDump, InMem, Mapped
<1> QED
  BY <1>2, <1>3, <1>4, <1>5, <1>6

\* So do the steps of the capturer that only bring it from one point to the next.
LEMMA AdvanceKeepsMap ==
  ASSUME MapInv, UNCHANGED srcVars, UNCHANGED <<mode, regions>>,
         \/ /\ cpc = "parse_maps" /\ cpc' = "attach" /\ UNCHANGED <<run, idx>>
            /\ run = "dead" \/ \A p \in Page : ~(p >= cursor /\ Mapped(p))
         \/ /\ cpc = "attach" /\ cpc' = "waitpid" /\ UNCHANGED idx
            /\ run' = "dead" \/ run # "dead"
         \/ cpc = "waitpid" /\ cpc' \in {"registers", "detach"} /\ UNCHANGED <<run, idx>>
         \/ cpc = "registers" /\ cpc' = "dump" /\ UNCHANGED <<run, idx>>
         \/ cpc = "fds" /\ cpc' \in {"fds", "save"},
         cursor \in Address, RegionsOK
  PROVE  MapInv'
<1> USE DEF MapInv
<1>1. space' = space /\ touched' = touched /\ Untouched' = Untouched
  BY DEF srcVars, Untouched
<1>2. VsyscallInv'
  BY <1>1 DEF VsyscallInv, Mapped
<1>3. OrderInv'
  BY OrderKept
<1>4. LinesInv'
  BY <1>1, LinesKept
<1>5. ListedInv'
  <2> SUFFICES ASSUME mode = "capture", run' # "dead", NEW p \in Untouched, Mapped(p),
                      cpc' \in {"attach", "waitpid", "registers", "dump"}
               PROVE  Listed(p)
    BY <1>1 DEF ListedInv, Listed, Covers, Mapped
  <2>1. CASE cpc = "parse_maps"
    <3>1. p \in Page /\ p \in Nat /\ cursor \in Nat
      BY WidthAssumption DEF Untouched, Page, Address
    <3>2. p < cursor
      BY <2>1, <3>1
    <3> QED
      BY <2>1, <3>2 DEF ListedInv
  <2>2. CASE cpc # "parse_maps"
    BY <2>2 DEF ListedInv
  <2> QED
    BY <2>1, <2>2
<1>6. DumpInv'
  <2>1. CASE cpc = "registers"
    <3>1. idx' = 1 /\ DOMAIN regions' \subseteq Nat \ {0}
      BY <2>1 DEF DumpInv, RegionsOK
    <3> QED
      BY <2>1, <3>1 DEF DumpInv, Ended
  <2>2. CASE cpc # "registers"
    BY <2>2 DEF DumpInv, Ended
  <2> QED
    BY <2>1, <2>2
<1> QED
  BY <1>2, <1>3, <1>4, <1>5, <1>6

\* A step of the source touches pages, and can only be made when nothing is dumped.
LEMMA SourceKeepsMap ==
  ASSUME SourceOK, LockInv, MapInv, SourceStep
  PROVE  MapInv'
<1> USE DEF MapInv
<1>1. /\ VsyscallInv'
      /\ touched \subseteq touched'
      /\ \A p \in Untouched' :
            space'[p].perm = space[p].perm /\ space'[p].path = space[p].path
  BY SourceKeeps
<1>2. UNCHANGED <<run, mode, cpc, regions, cursor, idx>> /\ run = "running"
  BY DEF SourceStep, kernelVars, capVars, dataVars
<1>3. Untouched' \subseteq Untouched
  BY <1>1 DEF Untouched
<1>4. OrderInv'
  BY <1>2, OrderKept
<1>5. LinesInv'
  BY <1>1, <1>2, <1>3, LinesKept
<1>6. ListedInv'
  BY <1>1, <1>2, <1>3 DEF ListedInv, Listed, Covers, Mapped
<1>7. DumpInv'
  BY <1>2 DEF DumpInv, LockInv, Attached
<1> QED
  BY <1>1, <1>4, <1>5, <1>6, <1>7

\* A round of the dump loop changes at most the data of one region, and gives
\* data to every region that it can and should read.
LEMMA DumpKeepsMap ==
  ASSUME TypeOK, MapInv, DumpRegion
  PROVE  MapInv'
<1> DEFINE r == regions[idx]
           data == dump_region(r)
<1> USE DEF MapInv
<1>1. /\ space' = space /\ touched' = touched /\ Untouched' = Untouched
      /\ UNCHANGED <<run, mode, cpc>> /\ cpc = "dump" /\ idx' = idx + 1
  BY DEF DumpRegion, srcVars, kernelVars, Untouched
<1>2. idx \in DOMAIN regions /\ r \in Region /\ r.start < r.end /\ idx \in Nat
      /\ DOMAIN regions \subseteq Nat
  BY DEF DumpRegion, TypeOK
<1>3. /\ DOMAIN regions' = DOMAIN regions
      /\ \A k \in DOMAIN regions :
            /\ regions'[k].start = regions[k].start
            /\ regions'[k].end = regions[k].end
            /\ regions'[k].perms = regions[k].perms
            /\ regions'[k].type = regions[k].type
            /\ k # idx => regions'[k].data = regions[k].data
  <2>1. CASE regions' = regions
    BY <2>1
  <2>2. CASE regions' = [regions EXCEPT ![idx].data = data]
    <3>1. regions \in Seq(Region)
      BY DEF TypeOK
    <3> HIDE DEF data
    <3> QED
      BY <1>2, <2>2, <3>1 DEF Region
  <2> QED
    BY <2>1, <2>2 DEF DumpRegion
<1>4. \/ regions' = regions /\ (should_skip(r) \/ ~CanDump(r))
      \/ regions'[idx].data # <<>> /\ ~should_skip(r)
  <2>1. CASE should_skip(r) \/ ~CanDump(r)
    BY <2>1 DEF DumpRegion
  <2>2. CASE ~should_skip(r) /\ CanDump(r)
    <3>1. Len(data) = region_size(r) /\ data \in Seq(Versions)
      BY <1>2, <2>2, DumpType
    <3>2. region_size(r) # 0
      BY <1>2, WidthAssumption DEF region_size, Region, Page, Address
    <3>3. data # <<>>
      BY <3>1, <3>2
    <3>4. regions' = [regions EXCEPT ![idx].data = data]
      BY <2>2 DEF DumpRegion
    <3>5. regions \in Seq(Region)
      BY DEF TypeOK
    <3> HIDE DEF data
    <3>6. regions'[idx].data = data
      BY <1>2, <3>4, <3>5 DEF Region
    <3> QED
      BY <2>2, <3>3, <3>6
  <2> QED
    BY <2>1, <2>2
<1> HIDE DEF data
<1>5. VsyscallInv'
  BY <1>1 DEF VsyscallInv, Mapped
<1>6. OrderInv'
  <2>1. \A j, k \in DOMAIN regions' : j < k => regions'[j].end <= regions'[k].start
    BY <1>3 DEF OrderInv
  <2>2. \A k \in DOMAIN regions' :
           /\ regions'[k].end <= UserSpaceLimit \/ regions'[k].type = "vsyscall"
           /\ regions'[k].data # <<>> => regions'[k].type # "vsyscall"
    <3> SUFFICES ASSUME NEW k \in DOMAIN regions
                 PROVE  /\ regions'[k].end <= UserSpaceLimit \/ regions'[k].type = "vsyscall"
                        /\ regions'[k].data # <<>> => regions'[k].type # "vsyscall"
      BY <1>3
    <3>1. CASE k # idx
      BY <1>3, <3>1 DEF OrderInv
    <3>2. CASE k = idx
      BY <1>3, <1>4, <3>2 DEF OrderInv, should_skip
    <3> QED
      BY <3>1, <3>2
  <2> QED
    BY <1>1, <2>1, <2>2 DEF OrderInv
<1>7. LinesInv'
  BY <1>1, <1>3, LinesKept
<1>8. ListedInv'
  BY <1>1, <1>3 DEF ListedInv, Listed, Covers, Mapped
<1>9. DumpInv'
  <2>1. \A k \in DOMAIN regions :
           /\ should_skip(regions'[k]) <=> should_skip(regions[k])
           /\ CanDump(regions[k])' <=> CanDump(regions[k])
    BY <1>1, <1>3 DEF should_skip, region_size, CanDump, InMem, Mapped
  <2> SUFFICES ASSUME run # "dead", NEW k \in DOMAIN regions, k < idx + 1
               PROVE  \/ regions'[k].data # <<>>
                      \/ should_skip(regions'[k])
                      \/ ~CanDump(regions[k])'
    BY <1>1, <1>3 DEF DumpInv, Ended, should_skip, region_size
  <2>2. CASE k = idx
    BY <1>4, <2>1, <2>2
  <2>3. CASE k # idx
    <3>1. k < idx
      BY <1>2, <2>3
    <3> QED
      BY <1>1, <1>3, <2>1, <2>3, <3>1 DEF DumpInv
  <2> QED
    BY <2>2, <2>3
<1> QED
  BY <1>5, <1>6, <1>7, <1>8, <1>9

\* What retain leaves is the regions with data, all of them, in their order.
LEMMA RetainList ==
  ASSUME CapturerOK, RetainDumped, ~Fail
  PROVE  \E f :
            /\ \A k \in DOMAIN regions' :
                  /\ f[k] \in DOMAIN regions
                  /\ regions[f[k]].data # <<>>
                  /\ regions'[k] = regions[f[k]]
            /\ \A j, k \in DOMAIN regions' : j < k => f[j] < f[k]
            /\ \A m \in DOMAIN regions : regions[m].data # <<>> =>
                  \E k \in DOMAIN regions' : regions'[k] = regions[m]
<1> DEFINE kept == {k \in DOMAIN regions : regions[k].data # <<>>}
           n == Cardinality(kept)
<1>1. PICK f \in [1 .. n -> kept] :
        Increasing(f) /\ regions' = [k \in DOMAIN f |-> regions[f[k]]]
  BY DEF RetainDumped
<1>2. IsFiniteSet(kept)
  BY FS_Subset, FS_Interval DEF CapturerOK, RegionsOK
<1>3. n \in Nat
  BY <1>2, FS_CardinalityType
<1>4. kept \subseteq DOMAIN regions /\ kept \subseteq Nat
  BY DEF CapturerOK, RegionsOK
<1>5. Cardinality(1 .. n) = n
  BY <1>3, FS_Interval
<1>6. f \in Surjection(1 .. n, kept)
  <2> HIDE DEF kept, n
  <2>1. ASSUME NEW i \in 1 .. n, NEW j \in 1 .. n, f[i] = f[j] PROVE i = j
    <3>1. ~(i < j) /\ ~(j < i)
      BY <1>1, <1>4, <2>1 DEF Increasing
    <3> QED
      BY <1>3, <3>1
  <2>2. f \in Injection(1 .. n, kept)
    BY <1>1, <2>1 DEF Injection, IsInjective
  <2>3. Cardinality(1 .. n) = Cardinality(kept)
    BY <1>5 DEF n
  <2> QED
    BY <1>2, <2>2, <2>3, FS_Injection
<1>7. DOMAIN regions' = 1 .. n /\ DOMAIN f = 1 .. n
  BY <1>1
<1>8. \A m \in kept : \E k \in 1 .. n : f[k] = m
  BY <1>6 DEF Surjection
<1>9. \A k \in DOMAIN regions' : f[k] \in kept /\ regions'[k] = regions[f[k]]
  BY <1>1, <1>7
<1>10. \A j, k \in DOMAIN regions' : j < k => f[j] < f[k]
  BY <1>1, <1>7 DEF Increasing
<1>11. \A m \in kept : \E k \in DOMAIN regions' : regions'[k] = regions[m]
  BY <1>7, <1>8, <1>9
<1> QED
  BY <1>9, <1>10, <1>11

\* retain keeps the invariant.
LEMMA RetainKeepsMap ==
  ASSUME TypeOK, MapInv, RetainDumped, ~Fail
  PROVE  MapInv'
<1> USE DEF MapInv
<1>1. PICK f :
        /\ \A k \in DOMAIN regions' :
              /\ f[k] \in DOMAIN regions
              /\ regions[f[k]].data # <<>>
              /\ regions'[k] = regions[f[k]]
        /\ \A j, k \in DOMAIN regions' : j < k => f[j] < f[k]
  BY RetainList, TypeParts
<1>2. /\ space' = space /\ touched' = touched /\ Untouched' = Untouched
      /\ cpc' = "fds"
  BY DEF RetainDumped, srcVars, Untouched
<1>3. VsyscallInv'
  BY <1>2 DEF VsyscallInv, Mapped
<1>4. OrderInv'
  BY <1>1, <1>2 DEF OrderInv
<1>5. LinesInv'
  BY <1>1, <1>2, LinesKept
<1>6. ListedInv' /\ DumpInv'
  BY <1>2 DEF ListedInv, DumpInv, Ended
<1> QED
  BY <1>3, <1>4, <1>5, <1>6

\* Each step keeps what is known of the map.
LEMMA MapStep == TypeOK /\ ControlInv /\ MapInv /\ [Next]_vars => MapInv'
<1> SUFFICES ASSUME TypeOK, ControlInv, MapInv, [Next]_vars PROVE MapInv'
  OBVIOUS
<1>1. KernelOK /\ SourceOK /\ CapturerOK /\ RegionsOK /\ cursor \in Address
  BY TypeParts DEF CapturerOK
<1>2. ASSUME NEW how \in Ended, ExitAs(how), UNCHANGED srcVars PROVE MapInv'
  BY <1>2, ExitKeepsMap
<1>3. ASSUME Fail, UNCHANGED srcVars PROVE MapInv'
  BY <1>2, <1>3 DEF Fail, Ended
<1>4. CASE UNCHANGED vars
  BY <1>4, OthersKeepMap DEF vars, capVars, dataVars, kernelVars
<1>5. CASE ParseMaps
  <2> DEFINE left == {p \in Page : p >= cursor /\ Mapped(p)}
  <2>1. UNCHANGED srcVars /\ cpc = "parse_maps"
    BY <1>5 DEF ParseMaps
  <2>2. CASE Fail
    BY <1>3, <2>1, <2>2
  <2>3. CASE /\ left # {}
             /\ regions' = Append(regions, parse_maps_line(MapsLine(Min(left))))
             /\ cursor' = MapsLine(Min(left)).end
             /\ UNCHANGED <<mode, cpc, idx>>
    BY <1>1, <2>1, <2>3, ParseKeeps
  <2>4. CASE /\ run = "dead" \/ left = {}
             /\ cpc' = "attach"
             /\ UNCHANGED <<mode, dataVars, kernelVars>>
    BY <1>1, <2>1, <2>4, AdvanceKeepsMap DEF dataVars, kernelVars
  <2> QED
    BY <1>5, <2>2, <2>3, <2>4 DEF ParseMaps
<1>6. CASE Attach
  <2>1. UNCHANGED srcVars /\ cpc = "attach"
    BY <1>6 DEF Attach
  <2>2. CASE Fail
    BY <1>3, <2>1, <2>2
  <2>3. CASE run # "dead" /\ cpc' = "waitpid" /\ UNCHANGED <<mode, dataVars>>
    BY <1>1, <2>1, <2>3, AdvanceKeepsMap DEF dataVars
  <2> QED
    BY <1>6, <2>2, <2>3 DEF Attach
<1>7. CASE WaitPid
  BY <1>1, <1>7, AdvanceKeepsMap DEF WaitPid, dataVars, kernelVars
<1>8. CASE CaptureRegisters
  <2>1. UNCHANGED srcVars /\ cpc = "registers"
    BY <1>8 DEF CaptureRegisters
  <2>2. CASE Fail
    BY <1>3, <2>1, <2>2
  <2>3. CASE cpc' = "dump" /\ UNCHANGED <<mode, cursor, regions, idx, kernelVars>>
    BY <1>1, <2>1, <2>3, AdvanceKeepsMap DEF kernelVars
  <2> QED
    BY <1>8, <2>2, <2>3 DEF CaptureRegisters
<1>9. CASE DumpRegion
  BY <1>9, DumpKeepsMap
<1>10. CASE RetainDumped
  <2>1. UNCHANGED srcVars
    BY <1>10 DEF RetainDumped
  <2> QED
    BY <1>3, <1>10, <2>1, RetainKeepsMap
<1>11. CASE EnumerateFd
  BY <1>1, <1>11, AdvanceKeepsMap DEF EnumerateFd
<1>12. CASE Detach
  <2>1. UNCHANGED srcVars /\ mode' = mode
    BY <1>12 DEF Detach
  <2>2. CASE cpc = "fds" /\ cpc' = "save" /\ UNCHANGED dataVars
    BY <1>1, <2>1, <2>2, AdvanceKeepsMap DEF dataVars
  <2>3. CASE ExitAs(IF run = "dead" THEN "err" ELSE "ok")
    BY <1>2, <2>1, <2>3 DEF Ended
  <2> QED
    BY <1>12, <2>2, <2>3 DEF Detach
<1>13. CASE Save \/ Kill
  <2>1. UNCHANGED srcVars /\ (ExitAs("ok") \/ ExitAs("err") \/ ExitAs("killed"))
    BY <1>13 DEF Save, Kill
  <2> QED
    BY <1>2, <2>1 DEF Ended
<1>14. CASE StartResume
  <2>1. /\ UNCHANGED srcVars /\ UNCHANGED <<regions, idx, cursor>>
        /\ cpc \in Ended /\ mode' = "resume" /\ cpc' \in {"err", "attach"}
    BY <1>14 DEF StartResume, dataVars
  <2>2. VsyscallInv'
    BY <2>1 DEF MapInv, VsyscallInv, Mapped, srcVars
  <2>3. OrderInv'
    BY <2>1, OrderKept DEF MapInv
  <2>4. LinesInv'
    BY <2>1, LinesKept DEF MapInv, srcVars, Untouched
  <2>5. ListedInv' /\ DumpInv'
    BY <2>1 DEF MapInv, ListedInv, DumpInv, Ended
  <2> QED
    BY <2>2, <2>3, <2>4, <2>5 DEF MapInv
<1>15. CASE SendSignal \/ SourceDies
  BY <1>15, OthersKeepMap DEF SendSignal, SourceDies, capVars, dataVars
<1>16. CASE Deliver
  BY <1>16, OthersKeepMap DEF Deliver, capVars, dataVars
<1>17. CASE SourceStep
  BY <1>1, <1>17, SourceKeepsMap DEF ControlInv
<1> QED
  BY <1>4, <1>5, <1>6, <1>7, <1>8, <1>9, <1>10, <1>11, <1>12, <1>13, <1>14, <1>15,
     <1>16, <1>17 DEF Next, CapturerStep

-----------------------------------------------------------------------------
(***************************************************************************)
(* Only what was touched is wrong.                                         *)
(***************************************************************************)

\* A region that was listed for an untouched page of user space that can be
\* read, and that was passed over, lost a touched page that it was listed with.
LEMMA PassedOver ==
  ASSUME TypeOK, MapInv, run # "dead",
         NEW m \in DOMAIN regions, NEW p \in Untouched, Covers(regions[m], p),
         space[p].perm \notin {"unmapped", "none"}, InMem(p), p \in UserPage,
         should_skip(regions[m]) \/ ~CanDump(regions[m])
  PROVE  \E q \in touched : \A r \in (p .. q) \cup (q .. p) : r \in touched \/ Like(p, r)
<1>1. /\ Mapped(p)
      /\ regions[m].perms = space[p].perm
      /\ regions[m].type = classify_region(space[p].path)
      /\ \A q \in Untouched : Covers(regions[m], q) => Like(p, q)
  BY DEF MapInv, LinesInv
<1>2. /\ regions[m] \in Region /\ regions[m].start < regions[m].end
      /\ regions[m].start \in Nat /\ regions[m].end \in Nat
      /\ regions[m].end <= Width - 1
  <2>1. regions[m] \in Region /\ regions[m].start < regions[m].end
    BY DEF TypeOK
  <2> QED
    BY <2>1, WidthAssumption DEF Region, Page, Address
<1>3. ~should_skip(regions[m])
  <2>1. region_size(regions[m]) # 0
    BY <1>2 DEF region_size
  <2>2. space[p].path # "[vsyscall]"
    BY <1>1, LimitAssumption, WidthAssumption DEF MapInv, VsyscallInv, UserPage, Page
  <2>3. space[p].path # "[vvar]"
    BY DEF InMem
  <2>4. classify_region(space[p].path) \notin {"vsyscall", "vvar"}
    BY <2>2, <2>3 DEF classify_region
  <2> QED
    BY <1>1, <2>1, <2>4 DEF should_skip
<1>4. PICK q \in regions[m].start .. (regions[m].end - 1) : ~InMem(q)
  BY <1>3 DEF CanDump
<1>5. q \in Page /\ Covers(regions[m], q)
  BY <1>2, <1>4, WidthAssumption DEF Page, Covers
<1>6. q \in touched
  <2>1. ASSUME q \in Untouched PROVE FALSE
    <3>1. Like(p, q)
      BY <1>1, <1>5, <2>1
    <3> QED
      BY <1>1, <1>4, <3>1 DEF Like, InMem, Mapped
  <2> QED
    BY <1>5, <2>1 DEF Untouched
<1>7. ASSUME NEW r \in (p .. q) \cup (q .. p) PROVE r \in touched \/ Like(p, r)
  <2>1. p \in Nat /\ q \in Nat
    BY <1>5, WidthAssumption DEF Untouched, Page
  <2>2. r \in Page /\ Covers(regions[m], r)
    BY <1>2, <1>4, <1>5, <2>1, WidthAssumption DEF Page, Covers
  <2> QED
    BY <1>1, <2>2 DEF Untouched
<1> QED
  BY <1>6, <1>7

\* When retain is done, an untouched page is in the list or lost with a touched one.
LEMMA RetainCovers ==
  ASSUME TypeOK, MapInv, RetainDumped, ~Fail
  PROVE  OnlyTouchedIsWrong'
<1>1. /\ space' = space /\ touched' = touched /\ UNCHANGED <<run, mode>>
      /\ cpc = "dump" /\ idx > Len(regions)
  BY DEF RetainDumped, srcVars, kernelVars
<1> SUFFICES ASSUME mode = "capture", run # "dead", NEW p \in Page \ touched,
                    space[p].perm \notin {"unmapped", "none"}, InMem(p), p \in UserPage
             PROVE  \/ \E k \in DOMAIN regions' :
                          Covers(regions'[k], p) /\ regions'[k].perms = space[p].perm
                    \/ \E q \in touched : \A r \in (p .. q) \cup (q .. p) :
                          r \in touched \/ Like(p, r)
  BY <1>1 DEF OnlyTouchedIsWrong, InMem, Mapped, Like, Covers
<1>2. p \in Untouched /\ Mapped(p)
  BY DEF Untouched, InMem
<1>3. PICK m \in DOMAIN regions : Covers(regions[m], p)
  BY <1>1, <1>2 DEF MapInv, ListedInv, Listed
<1>4. m < idx
  BY <1>1 DEF TypeOK
<1>5. CASE regions[m].data # <<>>
  <2>1. PICK k \in DOMAIN regions' : regions'[k] = regions[m]
    BY <1>5, RetainList, TypeParts
  <2>2. regions[m].perms = space[p].perm
    BY <1>2, <1>3 DEF MapInv, LinesInv
  <2> QED
    BY <1>3, <2>1, <2>2
<1>6. CASE should_skip(regions[m]) \/ ~CanDump(regions[m])
  BY <1>2, <1>3, <1>6, PassedOver
<1> QED
  BY <1>1, <1>4, <1>5, <1>6 DEF MapInv, DumpInv

\* The other steps leave the list and the source alone while the lock is held.
LEMMA TouchedStep ==
  TypeOK /\ ControlInv /\ MapInv /\ OnlyTouchedIsWrong /\ [Next]_vars
    => OnlyTouchedIsWrong'
<1> SUFFICES ASSUME TypeOK, ControlInv, MapInv, OnlyTouchedIsWrong, [Next]_vars,
                    mode' = "capture", cpc' = "fds", run' # "dead"
             PROVE  OnlyTouchedIsWrong'
  BY DEF OnlyTouchedIsWrong
<1>1. ASSUME NEW how \in Ended, ExitAs(how) PROVE FALSE
  BY <1>1 DEF ExitAs, Ended
<1>2. ASSUME UNCHANGED <<mode, cpc, regions>>, UNCHANGED srcVars, run # "dead"
      PROVE  OnlyTouchedIsWrong'
  BY <1>2 DEF OnlyTouchedIsWrong, InMem, Mapped, Like, Covers, srcVars
<1>3. CASE RetainDumped
  BY <1>1, <1>3, RetainCovers DEF Fail, Ended
<1>4. CASE UNCHANGED vars
  BY <1>2, <1>4 DEF vars, capVars, dataVars, kernelVars
<1>5. CASE EnumerateFd
  BY <1>2, <1>5 DEF EnumerateFd, kernelVars
<1>6. CASE SendSignal \/ SourceDies
  BY <1>2, <1>6 DEF SendSignal, SourceDies, capVars, dataVars
<1>7. CASE Deliver
  BY <1>2, <1>7 DEF Deliver, capVars, dataVars
<1>8. CASE SourceStep
  BY <1>8 DEF SourceStep, ControlInv, LockInv, Attached, capVars
<1>9. CASE ParseMaps \/ Attach \/ WaitPid \/ CaptureRegisters \/ DumpRegion
  BY <1>1, <1>9 DEF ParseMaps, Attach, WaitPid, CaptureRegisters, DumpRegion, Fail, Ended
<1>10. CASE Detach \/ Save \/ Kill
  BY <1>1, <1>10 DEF Detach, Save, Kill, Ended
<1>11. CASE StartResume
  BY <1>11 DEF StartResume
<1> QED
  BY <1>3, <1>4, <1>5, <1>6, <1>7, <1>8, <1>9, <1>10, <1>11 DEF Next, CapturerStep

-----------------------------------------------------------------------------
(***************************************************************************)
(* The restorer accepts the layout of the snapshot.                        *)
(***************************************************************************)

\* An address that is small enough does not wrap around.
LEMMA SmallMod ==
  ASSUME NEW e \in Nat, NEW w \in Nat \ {0}, e < w
  PROVE  e % w = e
OBVIOUS

\* Whatever order sort_by_key leaves equal starts in, ranges that are not empty,
\* in user space and in order are a valid layout.
LEMMA OrderedIsValid ==
  ASSUME NEW list, NEW n \in Nat, DOMAIN list = 1 .. n,
         \A k \in 1 .. n :
            /\ list[k].start \in Nat /\ list[k].size \in Nat /\ list[k].size # 0
            /\ list[k].start + list[k].size <= UserSpaceLimit,
         \A j, k \in 1 .. n : j < k => list[j].start + list[j].size <= list[k].start,
         NEW layout \in Layouts(list)
  PROVE  ValidLayout(layout)
<1>1. PICK f \in Bijection(1 .. n, 1 .. n) :
        layout = [k \in 1 .. n |-> RangeOf(list[f[k]])]
  BY DEF Layouts
<1>2. /\ f \in [1 .. n -> 1 .. n]
      /\ \A j, k \in 1 .. n : f[j] = f[k] => j = k
  BY <1>1 DEF Bijection, Injection, IsInjective
<1>3. \A j, k \in 1 .. n : j < k => layout[j].start <= layout[k].start
  BY DEF Layouts
<1>4. \A k \in 1 .. n :
         /\ RangeOf(list[k]).start = list[k].start
         /\ RangeOf(list[k]).end = list[k].start + list[k].size
  <2> SUFFICES ASSUME NEW k \in 1 .. n
               PROVE  (list[k].start + list[k].size) % Width = list[k].start + list[k].size
    BY DEF RangeOf
  <2> DEFINE e == list[k].start + list[k].size
  <2>1. e \in Nat /\ e < Width
    BY LimitAssumption, WidthAssumption
  <2> HIDE DEF e
  <2>2. e % Width = e
    BY <2>1, WidthAssumption, SmallMod
  <2> QED
    BY <2>2 DEF e
<1>5. \A k \in 1 .. n : InUserSpace(RangeOf(list[k]))
  BY <1>4, LimitAssumption, WidthAssumption DEF InUserSpace, Size
<1>6. \A k \in DOMAIN layout : InUserSpace(layout[k])
  BY <1>1, <1>2, <1>5
<1>7. Len(layout) = n
  BY <1>1
<1>8. ASSUME NEW k \in 1 .. (n - 1) PROVE ~Overlaps(layout[k], layout[k + 1])
  <2>1. k \in 1 .. n /\ k + 1 \in 1 .. n /\ k < k + 1
    OBVIOUS
  <2> DEFINE a == f[k]
             b == f[k + 1]
  <2>2. a \in 1 .. n /\ b \in 1 .. n /\ a # b
    BY <1>2, <2>1
  <2>3. layout[k] = RangeOf(list[a]) /\ layout[k + 1] = RangeOf(list[b])
    BY <1>1, <2>1
  <2>4. list[a].start <= list[b].start
    BY <1>3, <1>4, <2>1, <2>2, <2>3
  <2> HIDE DEF a, b
  <2>5. ASSUME b < a PROVE FALSE
    <3>1. /\ list[b].start + list[b].size <= list[a].start
          /\ list[a].start \in Nat /\ list[b].start \in Nat
          /\ list[b].size \in Nat /\ list[b].size # 0
      BY <2>2, <2>5
    <3> QED
      BY ONLY <2>4, <3>1
  <2>6. a < b
    BY <2>2, <2>5
  <2> QED
    BY <1>4, <2>2, <2>3, <2>6 DEF Overlaps
<1> QED
  BY <1>6, <1>7, <1>8 DEF ValidLayout

\* The file is written once, from regions that retain has left.
LEMMA RestorableStep ==
  TypeOK /\ MapInv /\ CapturedIsRestorable /\ [Next]_vars => CapturedIsRestorable'
<1> SUFFICES ASSUME TypeOK, MapInv, CapturedIsRestorable, [Next]_vars
             PROVE  CapturedIsRestorable'
  OBVIOUS
<1>1. CASE UNCHANGED file
  BY <1>1 DEF CapturedIsRestorable
<1>2. CASE Save /\ file' = Snapshot
  <2> DEFINE list == file'.regions
             n == Len(regions)
  <2>1. n \in Nat /\ DOMAIN regions = 1 .. n
    BY DEF TypeOK
  <2>2. list = [k \in 1 .. n |-> region_to_proto(regions[k])]
    BY <1>2, <2>1 DEF Snapshot
  <2> HIDE DEF n, list
  <2>3. \A k \in 1 .. n :
           /\ regions[k].start \in Nat /\ regions[k].end \in Nat
           /\ regions[k].start < regions[k].end
           /\ regions[k].end <= UserSpaceLimit
    <3> SUFFICES ASSUME NEW k \in 1 .. n
                 PROVE  /\ regions[k].start \in Nat /\ regions[k].end \in Nat
                        /\ regions[k].start < regions[k].end
                        /\ regions[k].end <= UserSpaceLimit
      OBVIOUS
    <3>1. regions[k] \in Region /\ regions[k].start < regions[k].end
      BY <2>1 DEF TypeOK
    <3>2. regions[k].start \in Nat /\ regions[k].end \in Nat
      BY <3>1, WidthAssumption DEF Region, Page, Address
    <3>3. regions[k].end <= UserSpaceLimit
      BY <1>2, <2>1 DEF Save, MapInv, OrderInv
    <3> QED
      BY <3>1, <3>2, <3>3
  <2>4. \A j, k \in 1 .. n : j < k => regions[j].end <= regions[k].start
    BY <2>1 DEF MapInv, OrderInv
  <2>5. \A k \in 1 .. n :
           list[k].start = regions[k].start /\ list[k].size = regions[k].end - regions[k].start
    BY <2>2 DEF region_to_proto, region_size
  <2>6. \A k \in 1 .. n :
           /\ list[k].start \in Nat /\ list[k].size \in Nat /\ list[k].size # 0
           /\ list[k].start + list[k].size = regions[k].end
    BY <2>3, <2>5
  <2>7. DOMAIN list = 1 .. n
    BY <2>2
  <2>8. \A layout \in Layouts(list) : ValidLayout(layout)
    BY <2>1, <2>3, <2>4, <2>5, <2>6, <2>7, OrderedIsValid
  <2> QED
    BY <2>8 DEF CapturedIsRestorable, list
<1>3. CASE ParseMaps \/ Attach \/ WaitPid \/ CaptureRegisters \/ DumpRegion
  BY <1>1, <1>3 DEF ParseMaps, Attach, WaitPid, CaptureRegisters, DumpRegion, Fail
<1>4. CASE RetainDumped \/ EnumerateFd \/ Detach
  BY <1>1, <1>4 DEF RetainDumped, EnumerateFd, Detach, Fail
<1>5. CASE Save
  BY <1>1, <1>2, <1>5 DEF Save
<1>6. CASE Kill \/ StartResume \/ SendSignal \/ Deliver \/ SourceStep \/ SourceDies
  BY <1>1, <1>6 DEF Kill, StartResume, SendSignal, Deliver, SourceStep, SourceDies, capVars
<1>7. CASE UNCHANGED vars
  BY <1>1, <1>7 DEF vars, capVars
<1> QED
  BY <1>3, <1>4, <1>5, <1>6, <1>7 DEF Next, CapturerStep

-----------------------------------------------------------------------------
MInv == IInv /\ MapInv /\ OnlyTouchedIsWrong /\ CapturedIsRestorable

\* What is known of the map holds in every reachable state.
THEOREM MapInvariance == Spec => []MInv
<1>1. Init => MInv
  <2> SUFFICES ASSUME Init PROVE MInv
    OBVIOUS
  <2>1. OnlyTouchedIsWrong /\ CapturedIsRestorable
    BY DEF Init, OnlyTouchedIsWrong, CapturedIsRestorable
  <2> QED
    BY <2>1, InitType, InitControl, InitInstant, InitMap DEF MInv, IInv
<1>2. MInv /\ [Next]_vars => MInv'
  <2>1. IInv /\ [Next]_vars => IInv'
    BY TypeStep, ControlStep, FreshStep, InstantStep DEF IInv, InstantInv
  <2> QED
    BY <2>1, MapStep, TouchedStep, RestorableStep DEF MInv, IInv
<1> QED
  BY <1>1, <1>2, PTL DEF Spec

\* The race of capturer.rs with the running source, bounded: whatever the source
\* maps, unmaps or protects while its map is read, a readable page of user space
\* that it left alone is in the snapshot, unless it was listed together with a
\* page that was touched.
THEOREM RaceIsContained == Spec => []OnlyTouchedIsWrong
<1>1. MInv => OnlyTouchedIsWrong
  BY DEF MInv
<1> QED
  BY MapInvariance, <1>1, PTL

\* Every snapshot that the capturer writes passes the layout check of the restorer.
THEOREM SnapshotIsRestorable == Spec => []CapturedIsRestorable
<1>1. MInv => CapturedIsRestorable
  BY DEF MInv
<1> QED
  BY MapInvariance, <1>1, PTL
=============================================================================
