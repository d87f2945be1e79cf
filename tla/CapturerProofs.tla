--------------------------- MODULE CapturerProofs ---------------------------
(***************************************************************************)
(* Proofs about Capturer, for any address space, descriptor table, set of  *)
(* signals and number of steps of the source process.                      *)
(***************************************************************************)
EXTENDS Capturer, WellFoundedInduction, FiniteSetTheorems, TLAPS

\* A non-empty set of naturals has a least member, and Min is it.
LEMMA MinIsMember ==
  ASSUME NEW S \in SUBSET Nat, S # {}
  PROVE  Min(S) \in S /\ \A y \in S : Min(S) <= y
<1> DEFINE R == OpToRel(<, Nat)
<1>1. PICK n \in S : \A m \in S : <<m, n>> \notin R
  <2>1. IsWellFoundedOn(R, Nat)
    BY NatLessThanWellFounded
  <2> HIDE DEF R
  <2> QED
    BY <2>1, WFMin
<1>2. ASSUME NEW m \in S PROVE n <= m
  <2>1. ~(m < n)
    BY <1>1 DEF OpToRel
  <2> QED
    BY <2>1
<1> QED
  BY <1>2 DEF Min

\* A line of the maps file is a range of pages that starts where it is asked to.
LEMMA MapsLineType ==
  ASSUME space \in [Page -> Cell], NEW p \in Page, Mapped(p)
  PROVE  /\ MapsLine(p).start = p
         /\ MapsLine(p).end \in (p + 1) .. (Width - 1)
         /\ MapsLine(p).perms \in Perms
         /\ MapsLine(p).path \in Pathnames
<1> DEFINE S == {e \in (p + 1) .. (Width - 1) : e = Width - 1 \/ ~Like(p, e)}
<1>1. Width - 1 \in S
  BY WidthAssumption DEF Page
<1>2. S \in SUBSET Nat
  BY WidthAssumption DEF Page
<1>3. Min(S) \in S
  BY <1>1, <1>2, MinIsMember
<1>4. MapsLine(p).end = Min(S)
  BY DEF MapsLine
<1>5. MapsLine(p).end \in (p + 1) .. (Width - 1)
  BY <1>3, <1>4
<1>6. space[p] \in Cell
  OBVIOUS
<1>7. space[p].perm \in Perms /\ space[p].path \in Pathnames
  BY <1>6 DEF Cell, Mapped
<1> QED
  BY <1>5, <1>7 DEF MapsLine

\* What parse_maps_line makes of a line is a region without data.
LEMMA ParsedType ==
  ASSUME space \in [Page -> Cell], NEW p \in Page, Mapped(p)
  PROVE  LET r == parse_maps_line(MapsLine(p))
         IN  /\ r \in Region
             /\ r.start < r.end
             /\ r.data = <<>>
             /\ MapsLine(p).end \in Address
<1> DEFINE line == MapsLine(p)
<1>1. /\ line.start \in Page
      /\ line.end \in Address
      /\ line.start < line.end
      /\ line.perms \in Perms
  BY MapsLineType, WidthAssumption DEF Page, Address
<1>2. classify_region(line.path) \in RegionTypes
  BY DEF classify_region, RegionTypes
<1>3. <<>> \in Seq(Versions)
  OBVIOUS
<1> QED
  BY <1>1, <1>2, <1>3 DEF parse_maps_line, Region

\* The bytes dump_region returns are as many as the region has pages.
LEMMA DumpType ==
  ASSUME TypeOK, NEW r \in Region, r.start < r.end, CanDump(r)
  PROVE  /\ dump_region(r) \in Seq(Versions)
         /\ Len(dump_region(r)) = region_size(r)
         /\ \A p \in r.start .. (r.end - 1) :
               Mapped(p) /\ dump_region(r)[p - r.start + 1] = space[p].ver
<1>1. r.start \in Nat /\ r.end \in Nat /\ region_size(r) \in Nat /\ r.start \in Page
  BY WidthAssumption DEF Region, Page, Address, region_size
<1>2. ASSUME NEW p \in r.start .. (r.end - 1)
      PROVE  p \in Page /\ Mapped(p) /\ space[p].ver \in Versions
  <2>1. p \in Page
    BY <1>1, <1>2, WidthAssumption DEF Region, Page, Address
  <2>2. Mapped(p)
    BY <1>2 DEF CanDump, InMem
  <2>3. space[p] \in Cell
    BY <2>1 DEF TypeOK
  <2> QED
    BY <2>1, <2>2, <2>3 DEF Cell, Versions
<1>3. \A k \in 1 .. region_size(r) : r.start + k - 1 \in r.start .. (r.end - 1)
  BY <1>1 DEF region_size
<1>4. dump_region(r) \in [1 .. region_size(r) -> Versions]
  BY <1>2, <1>3 DEF dump_region
<1>5. ASSUME NEW p \in r.start .. (r.end - 1)
      PROVE  dump_region(r)[p - r.start + 1] = space[p].ver
  <2>1. p - r.start + 1 \in 1 .. region_size(r)
    BY <1>1 DEF region_size
  <2>2. r.start + (p - r.start + 1) - 1 = p
    BY <1>1
  <2> QED
    BY <2>1, <2>2 DEF dump_region
<1> QED
  BY <1>1, <1>2, <1>4, <1>5

-----------------------------------------------------------------------------
(***************************************************************************)
(* Type correctness.                                                       *)
(***************************************************************************)

\* The initial states have the right types.
LEMMA InitType == Init => TypeOK
<1> SUFFICES ASSUME Init PROVE TypeOK
  OBVIOUS
<1>1. space \in [Page -> Cell] /\ fds \in Seq(Descriptor)
  BY SpacesAssumption, TablesAssumption DEF Init
<1>2. /\ regs \in Versions /\ cregs \in Versions
      /\ cursor \in Address /\ idx \in Nat \ {0}
  BY MaxStepsAssumption, WidthAssumption DEF Init, Versions, Address
<1>3. /\ regions \in Seq(Region)
      /\ \A k \in DOMAIN regions :
            /\ regions[k].start < regions[k].end
            /\ Len(regions[k].data) \in {0, region_size(regions[k])}
      /\ cfds \in Seq(OpenFd)
  BY DEF Init
<1> QED
  BY <1>1, <1>2, <1>3 DEF Init, TypeOK, AllSignals, NoSignal

\* The part of the type invariant that is about the kernel, the source and the
\* capturer.
KernelOK ==
    /\ run \in {"running", "tstop", "gstop", "dead"}
    /\ traced \in BOOLEAN
    /\ gstop \in BOOLEAN
    /\ pending \subseteq AllSignals
    /\ stopsig \in AllSignals \cup {NoSignal}
    /\ unsent \subseteq Signals
    /\ orphaned \in BOOLEAN

SourceOK ==
    /\ regs \in Versions
    /\ space \in [Page -> Cell]
    /\ fds \in Seq(Descriptor)
    /\ touched \subseteq Page

RegionsOK ==
    /\ regions \in Seq(Region)
    /\ \A k \in DOMAIN regions :
          /\ regions[k].start < regions[k].end
          /\ Len(regions[k].data) \in {0, region_size(regions[k])}

CapturerOK ==
    /\ mode \in {"capture", "resume"}
    /\ cpc \in {"parse_maps", "attach", "waitpid", "registers", "dump", "fds", "detach",
                "save"} \cup Ended
    /\ cursor \in Address
    /\ RegionsOK
    /\ idx \in Nat \ {0}
    /\ cregs \in Versions
    /\ cfds \in Seq(OpenFd)

\* The type invariant is the conjunction of its three parts.
LEMMA TypeParts == TypeOK <=> KernelOK /\ SourceOK /\ CapturerOK
BY DEF TypeOK, KernelOK, SourceOK, CapturerOK, RegionsOK

\* Attach, detach and the death of a tracer keep the kernel's types.
LEMMA KernelOps ==
  ASSUME KernelOK,
         \/ KernelAttach \/ KernelDetach \/ UNCHANGED kernelVars
         \/ KernelTracerExit /\ orphaned' = (orphaned \/ ~gstop)
  PROVE  KernelOK'
BY DEF KernelOK, KernelAttach, KernelDetach, KernelTracerExit, kernelVars,
   AllSignals, NoSignal

\* A capturer that ends holds nothing.
LEMMA ExitType ==
  ASSUME CapturerOK, NEW how \in Ended, ExitAs(how), mode' = mode
  PROVE  CapturerOK'
<1>1. RegionsOK'
  BY DEF ExitAs, RegionsOK
<1>2. cregs' \in Versions /\ cursor' \in Address /\ idx' \in Nat \ {0}
  BY MaxStepsAssumption, WidthAssumption DEF ExitAs, Versions, Address
<1> QED
  BY <1>1, <1>2 DEF CapturerOK, ExitAs

\* An error return keeps the types.
LEMMA FailType ==
  ASSUME KernelOK, CapturerOK, Fail
  PROVE  KernelOK' /\ CapturerOK'
<1>1. KernelOK'
  BY KernelOps DEF Fail
<1>2. CapturerOK'
  BY ExitType DEF Fail, Ended
<1> QED
  BY <1>1, <1>2

\* SourceStep writes versions up to MaxSteps.
LEMMA SourceType == SourceOK /\ SourceStep => SourceOK'
<1> SUFFICES ASSUME SourceOK, SourceStep PROVE SourceOK'
  OBVIOUS
<1> USE DEF SourceOK
<1>1. regs + 1 \in Versions /\ regs' = regs + 1 /\ 0 \in Versions
  <2>1. regs < MaxSteps /\ regs' = regs + 1
    BY ONLY SourceStep DEF SourceStep
  <2>2. regs \in 0 .. MaxSteps
    BY DEF Versions
  <2> QED
    BY ONLY <2>1, <2>2, MaxStepsAssumption DEF Versions
<1>2. UserPage \subseteq Page
  BY DEF UserPage
<1>3. ASSUME NEW p \in Page, space' = [space EXCEPT ![p].ver = regs + 1],
             UNCHANGED <<fds, touched>>
      PROVE  SourceOK'
  <2>1. [space[p] EXCEPT !.ver = regs + 1] \in Cell
    BY <1>1 DEF Cell, Versions
  <2> QED
    BY <1>1, <1>3, <2>1
<1>4. ASSUME NEW p \in Page, NEW c \in Cell, Remap(p, c)
      PROVE  SourceOK'
  BY <1>1, <1>4 DEF Remap
<1>5. ASSUME NEW d \in DOMAIN fds, NEW v \in Descriptor, SetDescriptor(d, v)
      PROVE  SourceOK'
  BY <1>1, <1>5 DEF SetDescriptor
<1>6. [perm |-> "rw", path |-> "", ver |-> regs + 1] \in Cell
  BY <1>1 DEF Cell, Perms, Pathnames, Versions
<1>7. [perm |-> "unmapped", path |-> "", ver |-> 0] \in Cell
  BY <1>1 DEF Cell, Perms, Pathnames, Versions
<1>8. \A p \in UserPage, perm \in Perms : [space[p] EXCEPT !.perm = perm] \in Cell
  BY <1>2 DEF Cell
<1>9. \A t \in {"/file", "socket:", Closed} : [target |-> t, pos |-> 0] \in Descriptor
  BY <1>1 DEF Descriptor, Targets, Closed, Versions
<1>10. \A d \in DOMAIN fds : [fds[d] EXCEPT !.pos = regs + 1] \in Descriptor
  <2> SUFFICES ASSUME NEW d \in DOMAIN fds
               PROVE  [fds[d] EXCEPT !.pos = regs + 1] \in Descriptor
    OBVIOUS
  <2>1. fds[d] \in Descriptor
    OBVIOUS
  <2> QED
    BY <1>1, <2>1 DEF Descriptor, Versions
<1>11. CASE \E p \in Page :
              /\ space[p].perm = "rw"
              /\ space' = [space EXCEPT ![p].ver = regs + 1]
              /\ UNCHANGED <<fds, touched>>
  BY <1>3, <1>11
<1>12. CASE \E p \in UserPage :
              ~Mapped(p) /\ Remap(p, [perm |-> "rw", path |-> "", ver |-> regs + 1])
  BY <1>2, <1>4, <1>6, <1>12
<1>13. CASE \E p \in UserPage :
              Mapped(p) /\ Remap(p, [perm |-> "unmapped", path |-> "", ver |-> 0])
  BY <1>2, <1>4, <1>7, <1>13
<1>14. CASE \E p \in UserPage, perm \in Perms :
              /\ Mapped(p) /\ space[p].perm # perm /\ space[p].path \notin KernelPaths
              /\ Remap(p, [space[p] EXCEPT !.perm = perm])
  BY <1>2, <1>4, <1>8, <1>14
<1>15. CASE \E d \in DOMAIN fds, t \in {"/file", "socket:"} :
              fds[d].target = Closed /\ SetDescriptor(d, [target |-> t, pos |-> 0])
  BY <1>5, <1>9, <1>15
<1>16. CASE \E d \in DOMAIN fds :
              fds[d].target # Closed /\ SetDescriptor(d, [target |-> Closed, pos |-> 0])
  BY <1>5, <1>9, <1>16
<1>17. CASE \E d \in DOMAIN fds :
              fds[d].target = "/file" /\ SetDescriptor(d, [fds[d] EXCEPT !.pos = regs + 1])
  BY <1>5, <1>10, <1>17
<1> QED
  BY <1>11, <1>12, <1>13, <1>14, <1>15, <1>16, <1>17 DEF SourceStep

\* A line of the maps file is appended as a well-formed region.
LEMMA ParseMapsType ==
  ASSUME KernelOK, SourceOK, CapturerOK, ParseMaps
  PROVE  KernelOK' /\ CapturerOK'
<1> DEFINE left == {p \in Page : p >= cursor /\ Mapped(p)}
<1>1. CASE Fail
  BY <1>1, FailType
<1>2. ASSUME left # {},
             regions' = Append(regions, parse_maps_line(MapsLine(Min(left)))),
             cursor' = MapsLine(Min(left)).end,
             UNCHANGED <<mode, cpc, idx, cregs, cfds, file, kernelVars>>
      PROVE  KernelOK' /\ CapturerOK'
  <2> DEFINE p == Min(left)
             r == parse_maps_line(MapsLine(p))
  <2>1. left \in SUBSET Nat
    BY WidthAssumption DEF Page
  <2>2. p \in left
    BY <1>2, <2>1, MinIsMember
  <2>3. p \in Page /\ Mapped(p)
    BY <2>2
  <2> HIDE DEF p
  <2>4. r \in Region /\ r.start < r.end /\ r.data = <<>> /\ MapsLine(p).end \in Address
    BY <2>3, ParsedType DEF SourceOK
  <2>5. regions' = Append(regions, r) /\ cursor' = MapsLine(p).end
    BY <1>2 DEF p
  <2> HIDE DEF r
  <2>6. RegionsOK'
    BY <2>4, <2>5 DEF CapturerOK, RegionsOK, region_size
  <2>7. KernelOK'
    BY <1>2, KernelOps
  <2> QED
    BY <1>2, <2>4, <2>5, <2>6, <2>7 DEF CapturerOK
<1>3. ASSUME cpc' = "attach",
             UNCHANGED <<mode, dataVars, file, kernelVars>>
      PROVE  KernelOK' /\ CapturerOK'
  BY <1>3, KernelOps DEF CapturerOK, RegionsOK, dataVars
<1> QED
  BY <1>1, <1>2, <1>3 DEF ParseMaps

\* A dump fills a region with as many versions as it has pages.
LEMMA DumpRegionType ==
  ASSUME KernelOK, SourceOK, CapturerOK, DumpRegion
  PROVE  RegionsOK'
<1>1. CASE regions' = regions
  BY <1>1 DEF CapturerOK, RegionsOK
<1>2. CASE /\ CanDump(regions[idx])
           /\ regions' = [regions EXCEPT ![idx].data = dump_region(regions[idx])]
  <2> DEFINE data == dump_region(regions[idx])
  <2>1. idx \in DOMAIN regions
    BY DEF DumpRegion, CapturerOK, RegionsOK
  <2>2. regions[idx] \in Region /\ regions[idx].start < regions[idx].end
    BY <2>1 DEF CapturerOK, RegionsOK
  <2>3. data \in Seq(Versions) /\ Len(data) = region_size(regions[idx])
    BY <1>2, <2>2, DumpType, TypeParts
  <2> DEFINE new == [regions[idx] EXCEPT !.data = data]
  <2>4. new \in Region /\ new.start < new.end /\ Len(new.data) = region_size(new)
    BY <2>2, <2>3 DEF Region, region_size
  <2>5. regions' = [regions EXCEPT ![idx] = new]
    BY <1>2
  <2> HIDE DEF new
  <2> QED
    BY <2>1, <2>4, <2>5 DEF CapturerOK, RegionsOK
<1> QED
  BY <1>1, <1>2 DEF DumpRegion

\* retain keeps well-formed regions only, and its result is a sequence.
LEMMA RetainType ==
  ASSUME KernelOK, CapturerOK, RetainDumped
  PROVE  KernelOK' /\ CapturerOK'
<1>1. CASE Fail
  BY <1>1, FailType
<1>2. CASE ~Fail
  <2> DEFINE kept == {k \in DOMAIN regions : regions[k].data # <<>>}
  <2>1. PICK f \in [1 .. Cardinality(kept) -> kept] :
          regions' = [k \in DOMAIN f |-> regions[f[k]]]
    BY <1>2 DEF RetainDumped
  <2>2. /\ cpc' = "fds" /\ idx' = 1
        /\ UNCHANGED <<mode, cursor, cregs, cfds, file, kernelVars>>
    BY <1>2 DEF RetainDumped
  <2>3. IsFiniteSet(kept)
    BY FS_Subset, FS_Interval DEF CapturerOK, RegionsOK
  <2>4. Cardinality(kept) \in Nat
    BY <2>3, FS_CardinalityType
  <2> DEFINE n == Cardinality(kept)
  <2>5. n \in Nat /\ f \in [1 .. n -> kept]
    BY <2>4
  <2> HIDE DEF n
  <2>6. \A k \in 1 .. n : f[k] \in DOMAIN regions
    BY <2>5
  <2>7. regions' = [k \in 1 .. n |-> regions[f[k]]]
    BY <2>1, <2>5
  <2>8. \A k \in 1 .. n : regions[f[k]] \in Region
    BY <2>6 DEF CapturerOK, RegionsOK
  <2>9. regions' \in Seq(Region)
    BY <2>5, <2>7, <2>8
  <2>10. RegionsOK'
    BY <2>5, <2>6, <2>7, <2>9 DEF CapturerOK, RegionsOK, region_size
  <2> QED
    BY <2>2, <2>10, KernelOps DEF CapturerOK
<1> QED
  BY <1>1, <1>2

\* enumerate_fds appends a well-formed descriptor or nothing.
LEMMA EnumerateFdType ==
  ASSUME KernelOK, SourceOK, CapturerOK, EnumerateFd
  PROVE  cfds' \in Seq(OpenFd)
<1>1. CASE cfds' = cfds
  BY <1>1 DEF CapturerOK
<1>2. ASSUME NEW pos \in Versions, fds[idx].target # Closed,
             cfds' = Append(cfds, CapturedFd(idx, pos))
      PROVE  cfds' \in Seq(OpenFd)
  <2>1. idx \in DOMAIN fds /\ idx \in Nat
    BY DEF EnumerateFd, CapturerOK, SourceOK
  <2>2. fds[idx] \in Descriptor
    BY <2>1 DEF SourceOK
  <2>3. fds[idx].target \in Targets
    BY <1>2, <2>2 DEF Descriptor
  <2>4. classify_fd(fds[idx].target) \in FdTypes
    BY DEF classify_fd, FdTypes
  <2>5. CapturedFd(idx, pos) \in OpenFd
    BY <2>1, <2>3, <2>4 DEF CapturedFd, OpenFd
  <2> QED
    BY <1>2, <2>5 DEF CapturerOK
<1>3. idx \in DOMAIN fds
  BY DEF EnumerateFd, CapturerOK, SourceOK
<1>4. fds[idx].pos \in Versions /\ 0 \in Versions
  <2>1. fds[idx] \in Descriptor
    BY <1>3 DEF SourceOK
  <2> QED
    BY <2>1, MaxStepsAssumption DEF Descriptor, Versions
<1> QED
  BY <1>1, <1>2, <1>4 DEF EnumerateFd

\* Every step keeps the types.
LEMMA TypeStep == TypeOK /\ [Next]_vars => TypeOK'
<1> SUFFICES ASSUME KernelOK, SourceOK, CapturerOK, [Next]_vars
             PROVE  KernelOK' /\ SourceOK' /\ CapturerOK'
  BY DEF TypeOK, KernelOK, SourceOK, CapturerOK, RegionsOK
<1>1. UNCHANGED srcVars => SourceOK'
  BY DEF SourceOK, srcVars
<1>2. UNCHANGED capVars => CapturerOK'
  BY DEF CapturerOK, RegionsOK, capVars, dataVars
<1>3. UNCHANGED kernelVars => KernelOK'
  BY KernelOps
<1>4. CASE UNCHANGED vars
  BY <1>1, <1>2, <1>3, <1>4 DEF vars
<1>5. CASE ParseMaps
  BY <1>1, <1>5, ParseMapsType DEF ParseMaps
<1>6. CASE Attach
  <2>1. CASE Fail
    BY <1>1, <1>6, <2>1, FailType DEF Attach
  <2>2. CASE KernelAttach /\ cpc' = "waitpid" /\ UNCHANGED <<mode, dataVars, file>>
    BY <1>1, <1>6, <2>2, KernelOps DEF Attach, CapturerOK, RegionsOK, dataVars
  <2> QED
    BY <1>6, <2>1, <2>2 DEF Attach
<1>7. CASE WaitPid
  BY <1>1, <1>3, <1>7 DEF WaitPid, CapturerOK, RegionsOK, dataVars
<1>8. CASE CaptureRegisters
  <2>1. CASE Fail
    BY <1>1, <1>8, <2>1, FailType DEF CaptureRegisters
  <2>2. CASE ~Fail
    BY <1>1, <1>3, <1>8, <2>2 DEF CaptureRegisters, CapturerOK, RegionsOK, SourceOK
  <2> QED
    BY <2>1, <2>2
<1>9. CASE DumpRegion
  BY <1>1, <1>3, <1>9, DumpRegionType DEF DumpRegion, CapturerOK
<1>10. CASE RetainDumped
  BY <1>1, <1>10, RetainType DEF RetainDumped
<1>11. CASE EnumerateFd
  BY <1>1, <1>3, <1>11, EnumerateFdType DEF EnumerateFd, CapturerOK, RegionsOK
<1>12. CASE Detach
  <2>1. KernelOK' /\ SourceOK'
    BY <1>1, <1>12, KernelOps DEF Detach
  <2>2. CASE cpc' = "save" /\ UNCHANGED dataVars
    BY <1>12, <2>1, <2>2 DEF Detach, CapturerOK, RegionsOK, dataVars
  <2>3. CASE ExitAs(IF run = "dead" THEN "err" ELSE "ok")
    BY <1>12, <2>1, <2>3, ExitType DEF Detach, CapturerOK, Ended
  <2> QED
    BY <1>12, <2>2, <2>3 DEF Detach
<1>13. CASE Save
  <2>1. ExitAs("ok") \/ ExitAs("err")
    BY <1>13 DEF Save
  <2>2. mode' = mode
    BY <1>13 DEF Save
  <2> QED
    BY <1>1, <1>3, <1>13, <2>1, <2>2, ExitType DEF Save, Ended
<1>14. CASE Kill
  BY <1>1, <1>14, ExitType, KernelOps DEF Kill, Ended
<1>15. CASE StartResume
  BY <1>1, <1>3, <1>15 DEF StartResume, CapturerOK, RegionsOK, dataVars, Ended
<1>16. CASE SendSignal
  BY <1>1, <1>2, <1>16 DEF SendSignal, KernelOK, AllSignals
<1>17. CASE Deliver
  BY <1>1, <1>2, <1>17 DEF Deliver, KernelOK
<1>18. CASE SourceStep
  BY <1>2, <1>3, <1>18, SourceType DEF SourceStep
<1>19. CASE SourceDies
  BY <1>1, <1>2, <1>19 DEF SourceDies, KernelOK
<1> QED
  BY <1>4, <1>5, <1>6, <1>7, <1>8, <1>9, <1>10, <1>11, <1>12, <1>13, <1>14, <1>15,
     <1>16, <1>17, <1>18, <1>19 DEF Next, CapturerStep

-----------------------------------------------------------------------------
(***************************************************************************)
(* Who is attached, and what that means for the source.                    *)
(***************************************************************************)

Attached == {"registers", "dump", "fds", "detach"}

\* The capturer holds the lock from the attach to the detach, and after waitpid
\* the source is stopped for it, or dead.
LockInv ==
    /\ cpc = "waitpid" => traced
    /\ cpc \in Attached => traced /\ run \in {"tstop", "dead"}
    /\ cpc \notin Attached \cup {"waitpid"} => ~traced
    /\ run = "tstop" => traced

\* As long as nobody else sends a signal, the only signal there is the SIGSTOP of
\* an attach.  The tracer takes it, unless the tracer is killed before: then it
\* stays pending, or stops the source, which is orphaned until a resume's attach
\* and detach have taken it.
QuietInv ==
    (unsent = Signals /\ run # "dead") =>
        /\ pending \subseteq {"STOP"}
        /\ (traced /\ ~gstop) => run # "gstop" /\ (pending = {} <=> run = "tstop")
        /\ ~orphaned => /\ run # "gstop"
                        /\ ~(traced /\ gstop)
                        /\ ~traced => pending = {}

\* Only a resume finds the source in a group stop: a capture is the first to attach.
\* The SIGSTOP of an attach is pending, or has stopped the source, until the tracer
\* has gone.
StopInv ==
    /\ traced /\ gstop => mode = "resume" /\ run \in {"tstop", "dead"}
    /\ traced /\ ~gstop /\ run # "dead" =>
          /\ run # "gstop"
          /\ "STOP" \in pending \/ (run = "tstop" /\ stopsig = "STOP")
    /\ mode = "capture" /\ cpc \in {"parse_maps", "attach"} =>
          run \in {"running", "dead"} /\ "STOP" \notin pending
    /\ mode = "capture" => cpc # "detach"
    /\ mode = "resume" => cpc \notin {"parse_maps", "registers", "dump", "fds", "save"}

ControlInv == LockInv /\ QuietInv /\ StopInv

\* Nobody is attached at first and no signal is pending.
LEMMA InitControl == Init => ControlInv
BY DEF Init, ControlInv, LockInv, QuietInv, StopInv, Attached

\* What a step may do to the kernel's view of the source and to the place of the
\* capturer.
MovesOn ==
    /\ UNCHANGED <<kernelVars, mode>>
    /\ \/ cpc' = cpc
       \/ cpc = "parse_maps" /\ cpc' = "attach"
       \/ cpc = "waitpid" /\ run \in {"tstop", "dead"}
          /\ cpc' = IF mode = "capture" THEN "registers" ELSE "detach"
       \/ cpc = "registers" /\ cpc' = "dump"
       \/ cpc = "dump" /\ cpc' = "fds"
       \/ cpc = "save" /\ cpc' \in {"ok", "err"}
       \/ cpc \in {"parse_maps", "attach"} /\ cpc' = "err"
       \/ cpc \notin Ended /\ ~traced /\ cpc' = "killed"

Attaches ==
    /\ cpc = "attach" /\ run # "dead" /\ cpc' = "waitpid" /\ mode' = mode
    /\ KernelAttach

Releases ==
    /\ cpc \in Attached /\ mode' = mode
    /\ \/ cpc # "detach" /\ cpc' = "err"
       \/ cpc = "fds" /\ cpc' = "save"
       \/ cpc = "detach" /\ cpc' = IF run = "dead" THEN "err" ELSE "ok"
    /\ KernelDetach

IsKilled ==
    /\ cpc \notin Ended /\ traced /\ cpc' = "killed" /\ mode' = mode
    /\ KernelTracerExit /\ orphaned' = (orphaned \/ ~gstop)

Resumes ==
    /\ mode = "capture" /\ cpc \in Ended /\ mode' = "resume" /\ cpc' = "attach"
    /\ UNCHANGED kernelVars

\* Every step is one of these, or one of the kernel or the source.
LEMMA ControlView ==
  ASSUME LockInv, [Next]_vars
  PROVE  \/ MovesOn \/ Attaches \/ Releases \/ IsKilled \/ Resumes
         \/ SendSignal \/ Deliver \/ SourceDies
<1> USE DEF kernelVars
<1>1. ASSUME Fail, cpc \in {"parse_maps", "attach"} PROVE MovesOn
  BY <1>1 DEF Fail, ExitAs, MovesOn, LockInv, Attached
<1>2. ASSUME Fail, cpc \in {"registers", "dump"} PROVE Releases
  BY <1>2 DEF Fail, ExitAs, Releases, LockInv, Attached
<1>3. CASE UNCHANGED vars
  BY <1>3 DEF vars, capVars, MovesOn
<1>4. CASE ParseMaps
  <2>1. CASE Fail
    BY <1>1, <1>4, <2>1 DEF ParseMaps
  <2>2. CASE ~Fail
    BY <1>4, <2>2 DEF ParseMaps, MovesOn
  <2> QED
    BY <2>1, <2>2
<1>5. CASE Attach
  <2>1. CASE Fail
    BY <1>1, <1>5, <2>1 DEF Attach
  <2>2. CASE ~Fail
    BY <1>5, <2>2 DEF Attach, Attaches
  <2> QED
    BY <2>1, <2>2
<1>6. CASE WaitPid
  BY <1>6 DEF WaitPid, MovesOn
<1>7. CASE CaptureRegisters
  <2>1. CASE Fail
    BY <1>2, <1>7, <2>1 DEF CaptureRegisters
  <2>2. CASE ~Fail
    BY <1>7, <2>2 DEF CaptureRegisters, MovesOn
  <2> QED
    BY <2>1, <2>2
<1>8. CASE DumpRegion \/ EnumerateFd
  BY <1>8 DEF DumpRegion, EnumerateFd, MovesOn
<1>9. CASE RetainDumped
  <2>1. CASE Fail
    BY <1>2, <1>9, <2>1 DEF RetainDumped
  <2>2. CASE ~Fail
    <3>1. cpc = "dump" /\ cpc' = "fds" /\ UNCHANGED <<kernelVars, mode>>
      BY <1>9, <2>2 DEF RetainDumped
    <3> QED
      BY <3>1 DEF MovesOn
  <2> QED
    BY <2>1, <2>2
<1>10. CASE Detach
  BY <1>10 DEF Detach, ExitAs, Releases, Attached
<1>11. CASE Save
  BY <1>11 DEF Save, ExitAs, MovesOn
<1>12. CASE Kill
  <2>1. CASE traced
    BY <1>12, <2>1 DEF Kill, ExitAs, IsKilled
  <2>2. CASE ~traced
    BY <1>12, <2>2 DEF Kill, ExitAs, MovesOn
  <2> QED
    BY <2>1, <2>2
<1>13. CASE StartResume
  BY <1>13 DEF StartResume, Resumes
<1>14. CASE SourceStep
  BY <1>14 DEF SourceStep, capVars, MovesOn
<1> QED
  BY <1>3, <1>4, <1>5, <1>6, <1>7, <1>8, <1>9, <1>10, <1>11, <1>12, <1>13, <1>14
     DEF Next, CapturerStep

\* Every step keeps the lock.
LEMMA LockStep == TypeOK /\ LockInv /\ [Next]_vars => LockInv'
<1> SUFFICES ASSUME TypeOK, LockInv, [Next]_vars PROVE LockInv'
  OBVIOUS
<1> USE DEF LockInv, Attached, kernelVars, Ended
<1>1. /\ run \in {"running", "tstop", "gstop", "dead"}
      /\ traced \in BOOLEAN
  BY DEF TypeOK
<1>2. CASE MovesOn
  BY <1>1, <1>2 DEF MovesOn
<1>3. CASE Attaches
  BY <1>1, <1>3 DEF Attaches, KernelAttach
<1>4. CASE Releases
  BY <1>1, <1>4 DEF Releases, KernelDetach
<1>5. CASE IsKilled
  BY <1>1, <1>5 DEF IsKilled, KernelTracerExit
<1>6. CASE Resumes
  BY <1>1, <1>6 DEF Resumes
<1>7. CASE SendSignal
  BY <1>1, <1>7 DEF SendSignal, capVars
<1>8. CASE Deliver
  BY <1>1, <1>8 DEF Deliver, capVars
<1>9. CASE SourceDies
  BY <1>1, <1>9 DEF SourceDies, capVars
<1> QED
  BY <1>2, <1>3, <1>4, <1>5, <1>6, <1>7, <1>8, <1>9, ControlView

\* Every step keeps the discipline of the signals.
LEMMA QuietStep == TypeOK /\ LockInv /\ QuietInv /\ StopInv /\ [Next]_vars => QuietInv'
<1> SUFFICES ASSUME TypeOK, LockInv, QuietInv, StopInv, [Next]_vars PROVE QuietInv'
  OBVIOUS
<1>1. /\ run \in {"running", "tstop", "gstop", "dead"}
      /\ traced \in BOOLEAN /\ gstop \in BOOLEAN /\ orphaned \in BOOLEAN
      /\ unsent \subseteq Signals
  BY DEF TypeOK
<1>2. CASE MovesOn
  BY <1>2 DEF MovesOn, kernelVars, QuietInv
<1>3. CASE Attaches
  BY <1>1, <1>3 DEF Attaches, KernelAttach, QuietInv, LockInv, Attached
<1>4. CASE Releases
  BY <1>1, <1>4 DEF Releases, KernelDetach, QuietInv, LockInv
<1>5. CASE IsKilled
  BY <1>1, <1>5 DEF IsKilled, KernelTracerExit, QuietInv
<1>6. CASE Resumes
  BY <1>6 DEF Resumes, kernelVars, QuietInv
<1>7. CASE SendSignal
  BY <1>1, <1>7 DEF SendSignal, QuietInv
<1>8. CASE Deliver
  BY <1>1, <1>8 DEF Deliver, QuietInv
<1>9. CASE SourceDies
  BY <1>9 DEF SourceDies, QuietInv
<1> QED
  BY <1>2, <1>3, <1>4, <1>5, <1>6, <1>7, <1>8, <1>9, ControlView

\* Every step keeps track of the SIGSTOP of an attach.
LEMMA StopStep == TypeOK /\ LockInv /\ StopInv /\ [Next]_vars => StopInv'
<1> SUFFICES ASSUME TypeOK, LockInv, StopInv, [Next]_vars PROVE StopInv'
  OBVIOUS
<1>1. /\ run \in {"running", "tstop", "gstop", "dead"}
      /\ traced \in BOOLEAN /\ gstop \in BOOLEAN
      /\ unsent \subseteq Signals /\ mode \in {"capture", "resume"}
  BY DEF TypeOK
<1>2. CASE MovesOn
  BY <1>1, <1>2 DEF MovesOn, kernelVars, StopInv
<1>3. CASE Attaches
  BY <1>1, <1>3 DEF Attaches, KernelAttach, StopInv, LockInv, Attached
<1>4. CASE Releases
  BY <1>1, <1>4 DEF Releases, KernelDetach, StopInv, LockInv, Attached
<1>5. CASE IsKilled
  BY <1>1, <1>5 DEF IsKilled, KernelTracerExit, StopInv
<1>6. CASE Resumes
  BY <1>1, <1>6 DEF Resumes, kernelVars, StopInv, LockInv, Ended, Attached
<1>7. CASE SendSignal
  BY <1>1, <1>7, SignalsAssumption DEF SendSignal, StopInv, capVars
<1>8. CASE Deliver
  BY <1>1, <1>8 DEF Deliver, StopInv, LockInv, Attached, capVars
<1>9. CASE SourceDies
  BY <1>1, <1>9 DEF SourceDies, StopInv, capVars
<1> QED
  BY <1>2, <1>3, <1>4, <1>5, <1>6, <1>7, <1>8, <1>9, ControlView

\* Every step keeps the lock and the discipline of the signals.
LEMMA ControlStep == TypeOK /\ ControlInv /\ [Next]_vars => ControlInv'
BY LockStep, QuietStep, StopStep DEF ControlInv

-----------------------------------------------------------------------------
(***************************************************************************)
(* The snapshot is a state of one instant.                                 *)
(***************************************************************************)

\* SnapshotOfOneInstant without its premise.
Untorn ==
    /\ cregs = regs
    /\ \A k \in DOMAIN regions : DumpIsCurrent(regions[k])
    /\ \A k \in DOMAIN cfds : cfds[k] = CapturedFd(cfds[k].fd, fds[cfds[k].fd].pos)

\* Until the registers are read, and after the end, nothing that was dumped or
\* enumerated is held.
FreshInv ==
    cpc \in {"parse_maps", "attach", "waitpid", "registers"} \cup Ended =>
        cfds = <<>> /\ \A k \in DOMAIN regions : regions[k].data = <<>>

InstantInv == FreshInv /\ SnapshotOfOneInstant

\* Nothing has been captured at first.
LEMMA InitInstant == Init => InstantInv
BY DEF Init, InstantInv, FreshInv, SnapshotOfOneInstant

\* A step that leaves the source and what was captured alone cannot tear it.
LEMMA UntornKept ==
  ASSUME Untorn, UNCHANGED srcVars, UNCHANGED <<cregs, regions, cfds>>
  PROVE  Untorn'
BY DEF Untorn, DumpIsCurrent, CapturedFd, Mapped, srcVars

\* Data is held between the registers and the end only.
LEMMA FreshStep == TypeOK /\ FreshInv /\ [Next]_vars => FreshInv'
<1> SUFFICES ASSUME TypeOK, FreshInv, [Next]_vars PROVE FreshInv'
  OBVIOUS
<1> USE DEF FreshInv, Ended
<1>1. CASE UNCHANGED <<cpc, cfds, regions>>
  BY <1>1
<1>2. ASSUME NEW how, ExitAs(how) PROVE FreshInv'
  BY <1>2 DEF ExitAs
<1>3. CASE ParseMaps
  <2>1. CASE Fail
    BY <1>2, <2>1 DEF Fail
  <2>2. CASE cpc' = "attach" /\ UNCHANGED dataVars
    BY <1>3, <2>2 DEF ParseMaps, dataVars
  <2>3. ASSUME NEW line, regions' = Append(regions, parse_maps_line(line)),
               UNCHANGED <<cpc, cfds>>
        PROVE  FreshInv'
    BY <2>3 DEF parse_maps_line, TypeOK
  <2> QED
    BY <1>3, <2>1, <2>2, <2>3 DEF ParseMaps
<1>4. CASE Attach
  BY <1>2, <1>4 DEF Attach, Fail, dataVars
<1>5. CASE WaitPid
  BY <1>5 DEF WaitPid, dataVars
<1>6. CASE CaptureRegisters
  BY <1>2, <1>6 DEF CaptureRegisters, Fail
<1>7. CASE DumpRegion \/ EnumerateFd
  BY <1>7 DEF DumpRegion, EnumerateFd
<1>8. CASE RetainDumped
  <2>1. CASE Fail
    BY <1>2, <2>1 DEF Fail
  <2>2. CASE ~Fail
    <3>1. cpc' = "fds"
      BY <1>8, <2>2 DEF RetainDumped
    <3> QED
      BY <3>1
  <2> QED
    BY <2>1, <2>2
<1>9. CASE Detach
  BY <1>2, <1>9 DEF Detach
<1>10. CASE Save
  BY <1>2, <1>10 DEF Save
<1>11. CASE Kill
  BY <1>2, <1>11 DEF Kill
<1>12. CASE StartResume
  BY <1>12 DEF StartResume, dataVars
<1> QED
  BY <1>1, <1>3, <1>4, <1>5, <1>6, <1>7, <1>8, <1>9, <1>10, <1>11, <1>12
     DEF Next, CapturerStep, SendSignal, Deliver, SourceStep, SourceDies, vars,
     capVars, dataVars

\* No step tears what was captured while the lock is held: the source
\* cannot run, and each reader adds what the source has now.
LEMMA InstantStep ==
  TypeOK /\ ControlInv /\ InstantInv /\ [Next]_vars => SnapshotOfOneInstant'
<1> SUFFICES ASSUME TypeOK, ControlInv, InstantInv, [Next]_vars,
                    mode' = "capture", run' # "dead", cpc' \in {"dump", "fds"}
             PROVE  Untorn'
  BY DEF SnapshotOfOneInstant, Untorn, DumpIsCurrent, CapturedFd, Mapped
<1>1. ASSUME mode = "capture", run # "dead", cpc \in {"dump", "fds"}
      PROVE  Untorn
  BY <1>1 DEF InstantInv, SnapshotOfOneInstant, Untorn
<1>2. ASSUME NEW how \in Ended, ExitAs(how) PROVE FALSE
  BY <1>2 DEF ExitAs, Ended
<1>3. CASE UNCHANGED vars
  BY <1>1, <1>3, UntornKept DEF vars, capVars, dataVars, kernelVars
<1>4. CASE CaptureRegisters
  <2>1. ~Fail
    BY <1>2 DEF Fail, Ended
  <2>2. /\ cpc = "registers" /\ cregs' = regs
        /\ UNCHANGED <<regions, cfds, srcVars>>
    BY <1>4, <2>1 DEF CaptureRegisters
  <2>3. cfds = <<>> /\ \A k \in DOMAIN regions : regions[k].data = <<>>
    BY <2>2 DEF InstantInv, FreshInv
  <2> QED
    BY <2>2, <2>3 DEF Untorn, DumpIsCurrent, srcVars
<1>5. CASE DumpRegion
  <2>1. Untorn /\ UNCHANGED <<cregs, cfds, srcVars>> /\ idx \in DOMAIN regions
    BY <1>1, <1>5 DEF DumpRegion, TypeOK, kernelVars
  <2>2. CASE regions' = regions
    BY <2>1, <2>2, UntornKept
  <2>3. CASE /\ CanDump(regions[idx])
             /\ regions' = [regions EXCEPT ![idx].data = dump_region(regions[idx])]
    <3> DEFINE r == regions[idx]
               new == [r EXCEPT !.data = dump_region(r)]
    <3>1. r \in Region /\ r.start < r.end
      BY <2>1 DEF TypeOK
    <3>2. \A p \in r.start .. (r.end - 1) :
             Mapped(p) /\ dump_region(r)[p - r.start + 1] = space[p].ver
      BY <2>3, <3>1, DumpType
    <3>3. new.start = r.start /\ new.end = r.end /\ new.data = dump_region(r)
      BY <3>1 DEF Region
    <3>4. DumpIsCurrent(new)
      BY <3>2, <3>3 DEF DumpIsCurrent
    <3>5. DOMAIN regions' = DOMAIN regions /\ regions'[idx] = new
          /\ \A k \in DOMAIN regions : k # idx => regions'[k] = regions[k]
      BY <2>1, <2>3 DEF TypeOK
    <3> HIDE DEF new
    <3>6. \A k \in DOMAIN regions' : DumpIsCurrent(regions'[k])
      BY <2>1, <3>4, <3>5 DEF Untorn
    <3>7. \A k \in DOMAIN regions' : DumpIsCurrent(regions[k])'
      BY <2>1, <3>6 DEF DumpIsCurrent, Mapped, srcVars
    <3> QED
      BY <2>1, <3>7 DEF Untorn, CapturedFd, srcVars
  <2> QED
    BY <1>5, <2>2, <2>3 DEF DumpRegion
<1>6. CASE RetainDumped
  <2>1. ~Fail
    BY <1>2 DEF Fail, Ended
  <2> DEFINE kept == {k \in DOMAIN regions : regions[k].data # <<>>}
  <2>2. Untorn /\ UNCHANGED <<cregs, cfds, srcVars>>
    <3>1. cpc = "dump" /\ UNCHANGED <<mode, cregs, cfds, kernelVars, srcVars>>
      BY <1>6, <2>1 DEF RetainDumped
    <3> QED
      BY <1>1, <3>1 DEF kernelVars
  <2>3. PICK f \in [1 .. Cardinality(kept) -> kept] :
          regions' = [k \in DOMAIN f |-> regions[f[k]]]
    BY <1>6, <2>1 DEF RetainDumped
  <2>4. \A k \in DOMAIN regions' : \E j \in DOMAIN regions : regions'[k] = regions[j]
    BY <2>3
  <2>5. \A k \in DOMAIN regions' : DumpIsCurrent(regions'[k])
    BY <2>2, <2>4 DEF Untorn
  <2>6. \A k \in DOMAIN regions' : DumpIsCurrent(regions[k])'
    BY <2>2, <2>5 DEF DumpIsCurrent, Mapped, srcVars
  <2> QED
    BY <2>2, <2>6 DEF Untorn, CapturedFd, srcVars
<1>7. CASE EnumerateFd
  <2>1. Untorn /\ UNCHANGED <<cregs, regions, srcVars>> /\ run # "dead"
    BY <1>1, <1>7 DEF EnumerateFd, kernelVars
  <2>2. CASE cfds' = cfds
    BY <2>1, <2>2, UntornKept
  <2>3. CASE cfds' = Append(cfds, CapturedFd(idx, fds[idx].pos))
    <3> DEFINE new == CapturedFd(idx, fds[idx].pos)
    <3>1. new = CapturedFd(new.fd, fds[new.fd].pos)
      BY DEF CapturedFd
    <3> HIDE DEF new
    <3>2. cfds' = Append(cfds, new) /\ cfds \in Seq(OpenFd)
      BY <2>3 DEF new, TypeOK
    <3>3. \A k \in DOMAIN cfds' : cfds'[k] = new \/ (k \in DOMAIN cfds /\ cfds'[k] = cfds[k])
      BY <3>2
    <3>4. \A k \in DOMAIN cfds' : cfds'[k] = CapturedFd(cfds'[k].fd, fds[cfds'[k].fd].pos)
      BY <2>1, <3>1, <3>3 DEF Untorn
    <3> QED
      BY <2>1, <3>4 DEF Untorn, DumpIsCurrent, Mapped, CapturedFd, srcVars
  <2> QED
    BY <1>7, <2>1, <2>2, <2>3 DEF EnumerateFd
<1>8. CASE SendSignal \/ SourceDies
  BY <1>1, <1>8, UntornKept DEF SendSignal, SourceDies, capVars, dataVars
<1>9. CASE Deliver
  BY <1>1, <1>9, UntornKept DEF Deliver, capVars, dataVars
<1>10. CASE SourceStep
  BY <1>10 DEF SourceStep, ControlInv, LockInv, Attached, capVars
<1>11. CASE ParseMaps \/ Attach \/ WaitPid
  BY <1>2, <1>11 DEF ParseMaps, Attach, WaitPid, Fail, Ended
<1>12. CASE Detach \/ Save \/ Kill
  BY <1>2, <1>12 DEF Detach, Save, Kill, Ended
<1>13. CASE StartResume
  BY <1>13 DEF StartResume
<1> QED
  BY <1>3, <1>4, <1>5, <1>6, <1>7, <1>8, <1>9, <1>10, <1>11, <1>12, <1>13
     DEF Next, CapturerStep

-----------------------------------------------------------------------------
IInv == TypeOK /\ ControlInv /\ InstantInv

\* The invariant holds in every reachable state.
THEOREM Invariance == Spec => []IInv
<1>1. Init => IInv
  BY InitType, InitControl, InitInstant DEF IInv
<1>2. IInv /\ [Next]_vars => IInv'
  BY TypeStep, ControlStep, FreshStep, InstantStep DEF IInv, InstantInv
<1> QED
  BY <1>1, <1>2, PTL DEF Spec

\* Every reachable state of a capture or a resume is type correct.
THEOREM TypeCorrect == Spec => []TypeOK
<1>1. IInv => TypeOK
  BY DEF IInv
<1> QED
  BY Invariance, <1>1, PTL

\* What capture() has gathered when it releases the lock is a state the source
\* process had at one instant, for any map, descriptor table, signal and timing.
THEOREM CaptureIsAtomic == Spec => []SnapshotOfOneInstant
<1>1. IInv => SnapshotOfOneInstant
  BY DEF IInv, InstantInv
<1> QED
  BY Invariance, <1>1, PTL

\* Only the death of a tracer or a signal of another party leaves the source in
\* a group stop; ProcessLock's detach and drop never do.
THEOREM StopNeedsKill == Spec => []StoppedOnlyByKill
<1>1. IInv => StoppedOnlyByKill
  BY DEF IInv, ControlInv, QuietInv, StoppedOnlyByKill
<1> QED
  BY Invariance, <1>1, PTL
-----------------------------------------------------------------------------
(***************************************************************************)
(* The capturer as the orchestrator sees it.                               *)
(***************************************************************************)

\* A step that changes neither the state of the capturer, nor that of the source,
\* nor the file, is no step for the orchestrator.
LEMMA Unseen ==
  ASSUME TeleporterCapt' = TeleporterCapt, TeleporterSrc' = TeleporterSrc, file' = file
  PROVE  UNCHANGED T!vars
BY DEF T!vars, T!orchVars, T!srcVars, T!captVars, T!netVars, T!dstVars

\* What the orchestrator may see of the source here.
SrcSeen == {"exited", "running", "traced", "stopped", "paused"}

\* What Teleporter allows the capturer, the source and the rollback.
TStep ==
    \/ T!CapturerStep
    \/ T!SourceExits
    \/ T!CapturerRunning /\ T!KillCapturer
    \/ TeleporterResumes

\* The abstract steps of a capture, in terms of what the orchestrator sees.
LEMMA SeenCapture ==
  /\ /\ TeleporterCapt = "spawned" /\ TeleporterCapt' = "attached"
     /\ TeleporterSrc = "running" /\ TeleporterSrc' = "traced"
     /\ file' = file
     => TStep
  /\ /\ TeleporterCapt = "spawned" /\ TeleporterCapt' = "error"
     /\ TeleporterSrc' = TeleporterSrc /\ file' = file
     => TStep
  /\ /\ TeleporterCapt = "attached" /\ TeleporterCapt' \in {"detached", "error"}
     /\ TeleporterSrc' \in IF TeleporterSrc = "traced" THEN {"running", "paused"}
                           ELSE {TeleporterSrc}
     /\ file' = file
     => TStep
  /\ /\ TeleporterCapt = "detached" /\ TeleporterCapt' = "ok"
     /\ TeleporterSrc' = TeleporterSrc /\ file' # NoFile
     => TStep
  /\ /\ TeleporterCapt = "detached" /\ TeleporterCapt' = "error"
     /\ TeleporterSrc' = TeleporterSrc /\ file' = file
     => TStep
BY DEF TStep, T!CapturerStep, T!CapturerAttach, T!CapturerDump, T!CapturerSave,
   T!AfterDetach, T!orchVars, T!srcVars, T!netVars, T!dstVars

\* Those of a resume, of a kill and of the source.
LEMMA SeenResume ==
  /\ /\ TeleporterCapt = "resuming" /\ TeleporterCapt' = "resume_attached"
     /\ TeleporterSrc \in {"running", "stopped", "paused"}
     /\ TeleporterSrc' \in IF TeleporterSrc = "running" THEN {"traced"}
                           ELSE {TeleporterSrc, "traced"}
     /\ file' = file
     => TStep
  /\ /\ TeleporterCapt = "resuming" /\ TeleporterCapt' = "error"
     /\ TeleporterSrc' = TeleporterSrc /\ file' = file
     => TStep
  /\ /\ TeleporterCapt = "resume_attached"
     /\ TeleporterCapt' = IF TeleporterSrc = "exited" THEN "error" ELSE "ok"
     /\ TeleporterSrc' \in IF TeleporterSrc = "traced" THEN {"running", "paused"}
                           ELSE {TeleporterSrc}
     /\ TeleporterSrc \in SrcSeen /\ file' = file
     => TStep
  /\ /\ T!CapturerRunning /\ TeleporterCapt' = "killed" /\ file' = file
     /\ TeleporterSrc' = IF TeleporterSrc = "traced" THEN "stopped" ELSE TeleporterSrc
     => TStep
  /\ /\ ~T!CapturerRunning /\ TeleporterCapt' = "resuming"
     /\ TeleporterSrc' = TeleporterSrc /\ file' = file
     => TStep
  /\ /\ TeleporterCapt' = TeleporterCapt /\ file' = file
     /\ TeleporterSrc \in {"running", "traced", "stopped", "paused"}
     /\ TeleporterSrc' = "exited"
     => TStep
<1>1. /\ TeleporterCapt = "resuming" /\ TeleporterCapt' = "resume_attached"
      /\ TeleporterSrc \in {"running", "stopped", "paused"}
      /\ TeleporterSrc' \in IF TeleporterSrc = "running" THEN {"traced"}
                            ELSE {TeleporterSrc, "traced"}
      /\ file' = file
      => T!ResumeAttach
  BY DEF T!ResumeAttach, T!orchVars, T!netVars, T!dstVars
<1>2. /\ TeleporterCapt = "resuming" /\ TeleporterCapt' = "error"
      /\ TeleporterSrc' = TeleporterSrc /\ file' = file
      => T!ResumeAttach
  BY DEF T!ResumeAttach, T!orchVars, T!netVars, T!dstVars
<1>3. /\ TeleporterCapt = "resume_attached"
      /\ TeleporterCapt' = IF TeleporterSrc = "exited" THEN "error" ELSE "ok"
      /\ TeleporterSrc' \in IF TeleporterSrc = "traced" THEN {"running", "paused"}
                            ELSE {TeleporterSrc}
      /\ TeleporterSrc \in SrcSeen /\ file' = file
      => T!ResumeDetach
  BY DEF SrcSeen, T!ResumeDetach, T!SrcAlive, T!AfterDetach, T!orchVars, T!netVars, T!dstVars
<1>4. /\ TeleporterCapt' = "killed" /\ file' = file
      /\ TeleporterSrc' = IF TeleporterSrc = "traced" THEN "stopped" ELSE TeleporterSrc
      => T!KillCapturer
  BY DEF T!KillCapturer
<1>5. /\ TeleporterCapt' = TeleporterCapt /\ file' = file
      /\ TeleporterSrc \in {"running", "traced", "stopped", "paused"}
      /\ TeleporterSrc' = "exited"
      => T!SourceExits
  BY DEF T!SourceExits, T!orchVars, T!captVars, T!netVars, T!dstVars
<1> QED
  BY <1>1, <1>2, <1>3, <1>4, <1>5 DEF TStep, T!CapturerStep, TeleporterResumes

\* The orchestrator sees the source exit when it is dead.
LEMMA SrcIs == TeleporterSrc \in SrcSeen /\ (run = "dead" <=> TeleporterSrc = "exited")
BY DEF TeleporterSrc, SrcSeen

\* The file is written by Save only.
LEMMA FileWritten ==
  ASSUME [Next]_vars
  PROVE  IF cpc = "save" /\ cpc' = "ok" THEN file' # NoFile ELSE file' = file
<1>1. CASE Save
  <2>1. Snapshot # NoFile
    BY DEF Snapshot, NoFile
  <2> QED
    BY <1>1, <2>1 DEF Save, ExitAs
<1>2. ASSUME Fail PROVE file' = file /\ cpc' = "err"
  BY <1>2 DEF Fail, ExitAs
<1>3. CASE ParseMaps \/ Attach \/ CaptureRegisters \/ RetainDumped
  BY <1>2, <1>3 DEF ParseMaps, Attach, CaptureRegisters, RetainDumped
<1>4. CASE ~Save /\ ~ParseMaps /\ ~Attach /\ ~CaptureRegisters /\ ~RetainDumped
  BY <1>4 DEF Next, CapturerStep, WaitPid, DumpRegion, EnumerateFd, Detach, Kill,
     StartResume, SendSignal, Deliver, SourceStep, SourceDies, vars, capVars, ExitAs
<1> QED
  BY <1>1, <1>3, <1>4

\* Each step of the capturer, the kernel and the source is one that Teleporter
\* allows, or none.
LEMMA StepIsSeen ==
  ASSUME TypeOK, LockInv, StopInv, [Next]_vars
  PROVE  [TStep]_(T!vars)
<1>1. /\ run \in {"running", "tstop", "gstop", "dead"}
      /\ traced \in BOOLEAN /\ gstop \in BOOLEAN /\ orphaned \in BOOLEAN
      /\ unsent \subseteq Signals /\ mode \in {"capture", "resume"}
      /\ cpc \in {"parse_maps", "attach", "waitpid", "registers", "dump", "fds", "detach",
                  "save", "ok", "err", "killed"}
  BY DEF TypeOK, Ended
<1>2. CASE MovesOn
  <2>1. TeleporterSrc' = TeleporterSrc
    BY <1>2 DEF MovesOn, kernelVars, TeleporterSrc
  <2>2. CASE cpc = "save" /\ cpc' = "ok"
    BY <2>1, <2>2, FileWritten, SeenCapture DEF TeleporterCapt
  <2>3. CASE ~(cpc = "save" /\ cpc' = "ok") /\ file' = file
    <3>1. CASE cpc' = cpc
      BY <1>2, <2>1, <2>3, <3>1, Unseen DEF MovesOn, TeleporterCapt
    <3>2. CASE cpc = "save" /\ cpc' = "err"
      BY <1>2, <2>1, <2>3, <3>2, SeenCapture DEF TeleporterCapt
    <3>3. CASE cpc \in {"parse_maps", "attach"} /\ cpc' = "err"
      <4>1. TeleporterCapt \in {"spawned", "resuming"} /\ TeleporterCapt' = "error"
        BY <3>3 DEF TeleporterCapt
      <4> QED
        BY <2>1, <2>3, <4>1, SeenCapture, SeenResume
    <3>4. CASE cpc \notin Ended /\ ~traced /\ cpc' = "killed"
      <4>1. T!CapturerRunning /\ TeleporterCapt' = "killed"
        BY <1>1, <3>4 DEF T!CapturerRunning, TeleporterCapt, Ended
      <4>2. TeleporterSrc # "traced"
        BY <3>4 DEF TeleporterSrc
      <4> QED
        BY <2>1, <2>3, <4>1, <4>2, SeenResume
    <3>5. CASE \/ cpc = "parse_maps" /\ cpc' = "attach"
               \/ cpc = "waitpid" /\ cpc' \in {"registers", "detach"}
               \/ cpc = "registers" /\ cpc' = "dump"
               \/ cpc = "dump" /\ cpc' = "fds"
      BY <1>2, <2>1, <2>3, <3>5, Unseen DEF MovesOn, TeleporterCapt
    <3> QED
      BY <1>2, <2>3, <3>1, <3>2, <3>3, <3>4, <3>5 DEF MovesOn
  <2> QED
    BY <2>2, <2>3, FileWritten
<1>3. CASE Attaches
  <2>1. /\ file' = file
        /\ TeleporterCapt = IF mode = "capture" THEN "spawned" ELSE "resuming"
        /\ TeleporterCapt' = IF mode = "capture" THEN "attached" ELSE "resume_attached"
    BY <1>3, FileWritten DEF Attaches, TeleporterCapt
  <2>2. run \in {"running", "gstop"} /\ ~traced
    BY <1>1, <1>3 DEF Attaches, LockInv, Attached
  <2>3. CASE mode = "capture"
    <3>1. TeleporterSrc = "running" /\ TeleporterSrc' = "traced"
      BY <1>3, <2>2, <2>3 DEF Attaches, KernelAttach, StopInv, TeleporterSrc
    <3> QED
      BY <2>1, <2>3, <3>1, SeenCapture
  <2>4. CASE mode = "resume"
    <3>1. TeleporterSrc \in {"running", "stopped", "paused"}
      BY <2>2 DEF TeleporterSrc
    <3>2. TeleporterSrc' \in IF TeleporterSrc = "running" THEN {"traced"}
                             ELSE {TeleporterSrc, "traced"}
      BY <1>1, <1>3, <2>2 DEF Attaches, KernelAttach, TeleporterSrc
    <3> QED
      BY <2>1, <2>4, <3>1, <3>2, SeenResume
  <2> QED
    BY <1>1, <2>3, <2>4
<1>4. CASE Releases
  <2>1. file' = file /\ traced /\ run \in {"tstop", "dead"}
    BY <1>4, FileWritten DEF Releases, Attached, LockInv
  <2>2. TeleporterSrc' \in IF TeleporterSrc = "traced" THEN {"running", "paused"}
                           ELSE {TeleporterSrc}
    BY <1>1, <1>4, <2>1 DEF Releases, KernelDetach, TeleporterSrc
  <2>3. CASE mode = "capture"
    <3>1. TeleporterCapt = "attached" /\ TeleporterCapt' \in {"detached", "error"}
      BY <1>4, <2>3 DEF Releases, Attached, StopInv, TeleporterCapt
    <3> QED
      BY <2>1, <2>2, <3>1, SeenCapture
  <2>4. CASE mode = "resume"
    <3>1. /\ TeleporterCapt = "resume_attached"
          /\ TeleporterCapt' = IF TeleporterSrc = "exited" THEN "error" ELSE "ok"
      BY <1>4, <2>4, SrcIs DEF Releases, Attached, StopInv, TeleporterCapt
    <3> QED
      BY <2>1, <2>2, <3>1, SrcIs, SeenResume
  <2> QED
    BY <1>1, <2>3, <2>4
<1>5. CASE IsKilled
  <2>1. file' = file /\ T!CapturerRunning /\ TeleporterCapt' = "killed"
    BY <1>1, <1>5, FileWritten DEF IsKilled, T!CapturerRunning, TeleporterCapt, Ended
  <2>2. TeleporterSrc' = IF TeleporterSrc = "traced" THEN "stopped" ELSE TeleporterSrc
    BY <1>1, <1>5 DEF IsKilled, KernelTracerExit, StopInv, TeleporterSrc
  <2> QED
    BY <2>1, <2>2, SeenResume
<1>6. CASE Resumes
  <2>1. file' = file /\ ~T!CapturerRunning /\ TeleporterCapt' = "resuming"
    BY <1>6, FileWritten DEF Resumes, T!CapturerRunning, TeleporterCapt, Ended
  <2>2. TeleporterSrc' = TeleporterSrc
    BY <1>6 DEF Resumes, kernelVars, TeleporterSrc
  <2> QED
    BY <2>1, <2>2, SeenResume
<1>7. ASSUME UNCHANGED capVars PROVE TeleporterCapt' = TeleporterCapt /\ file' = file
  BY <1>7 DEF capVars, TeleporterCapt
<1>8. CASE SendSignal
  <2>1. TeleporterSrc' = TeleporterSrc
    BY <1>1, <1>8, SignalsAssumption DEF SendSignal, TeleporterSrc
  <2> QED
    BY <1>7, <1>8, <2>1, Unseen DEF SendSignal
<1>9. CASE Deliver
  <2>1. TeleporterSrc' = TeleporterSrc
    BY <1>1, <1>9 DEF Deliver, StopInv, TeleporterSrc
  <2> QED
    BY <1>7, <1>9, <2>1, Unseen DEF Deliver
<1>10. CASE SourceDies
  <2>1. /\ TeleporterSrc \in {"running", "traced", "stopped", "paused"}
        /\ TeleporterSrc' = "exited"
    BY <1>10, SrcIs DEF SourceDies, SrcSeen, TeleporterSrc
  <2> QED
    BY <1>7, <1>10, <2>1, SeenResume DEF SourceDies
<1> QED
  BY <1>2, <1>3, <1>4, <1>5, <1>6, <1>8, <1>9, <1>10, ControlView

\* The capturer, its tracee and the signals, whatever races, do what Teleporter lets
\* a capturer and a source do: the theorems about the orchestrator hold with this
\* capturer under it.
THEOREM Refinement == Spec => ImplementsTeleporter
<1>1. Init => TeleporterCapt = "spawned" /\ TeleporterSrc = "running"
  BY DEF Init, TeleporterCapt, TeleporterSrc
<1>2. IInv /\ [Next]_vars => [TStep]_(T!vars)
  BY StepIsSeen DEF IInv, ControlInv
<1> QED
  BY <1>1, <1>2, Invariance, PTL DEF Spec, ImplementsTeleporter, TStep
=============================================================================
