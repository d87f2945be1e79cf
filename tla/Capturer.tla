------------------------------ MODULE Capturer ------------------------------
(***************************************************************************)
(* wraith-capturer (wraith-rust/src/capturer.rs, ptrace_ops.rs, memory.rs, *)
(* registers.rs, fd_enum.rs, snapshot.rs, main.rs) against the kernel's    *)
(* ptrace protocol and its /proc files: one `capture`, then possibly one   *)
(* `resume` (the rollback of the orchestrator), while the source process   *)
(* keeps running whenever nothing stops it.                                *)
(*                                                                         *)
(* The source process is a register set, an address space of pages and a   *)
(* table of descriptors; every step it makes changes the registers and one *)
(* other thing.  Contents are version numbers: equal numbers stand for     *)
(* equal bytes.  Memory regions are not part of its state: they are the    *)
(* runs of like pages that /proc/<pid>/maps shows.                         *)
(***************************************************************************)
EXTENDS AddressSpace, FiniteSetsExt

CONSTANTS
    Spaces,       \* the address spaces the source may have at first
    Tables,       \* the descriptor tables it may have at first
    Signals,      \* signals other parties may send to the source
    MayKill,      \* may the capturer be killed (subprocess timeout)?
    MaxSteps      \* bound on the steps of the source process

\* Pages of the source and what maps calls them.  The pages of "[vsyscall]" are
\* the ones above user space.
Page == 0 .. (Width - 2)
Perms == {"none", "r", "rw"}
Pathnames == {"[heap]", "[stack]", "[vdso]", "[vvar]", "[vsyscall]", "[vvar_vclock]",
              "/lib", ""}
Cell == [perm : Perms \cup {"unmapped"}, path : Pathnames, ver : 0 .. MaxSteps]

\* What the links in /proc/<pid>/fd resolve to.
Targets == {"/file", "/dir", "/dev/node", "pipe:", "socket:", "anon_inode:"}
Closed == "closed"
Descriptor == [target : Targets \cup {Closed}, pos : 0 .. MaxSteps]

ASSUME SpacesAssumption == Spaces \subseteq [Page -> Cell]
ASSUME VsyscallAssumption ==
    \A s \in Spaces : \A p \in Page :
        s[p].perm # "unmapped" => (s[p].path = "[vsyscall]" <=> p >= UserSpaceLimit)
ASSUME TablesAssumption == Tables \subseteq Seq(Descriptor)
ASSUME SignalsAssumption == "STOP" \notin Signals
ASSUME MayKillAssumption == MayKill \in BOOLEAN
ASSUME MaxStepsAssumption == MaxSteps \in Nat

VARIABLES
    \* the kernel's view of the source
    run,       \* "running", "tstop" (ptrace-stop), "gstop" (group stop), "dead"
    traced,    \* is a tracer attached?
    gstop,     \* was a group stop in effect when the tracer attached?
    pending,   \* pending signals
    stopsig,   \* the signal of the current ptrace-stop
    unsent,    \* signals that were not sent yet
    orphaned,  \* the last tracer that stopped the source was killed (history)
    \* the source process
    regs,
    space,     \* its pages
    fds,       \* its descriptors
    touched,   \* pages mapped, unmapped or protected since the start (history)
    \* wraith-capturer
    mode,      \* "capture" or "resume"
    cpc,       \* where it is
    cursor,    \* how far the maps file has been read
    regions,   \* the regions of the maps file, with the data dumped so far
    idx,       \* the region, or the descriptor, that is next
    cregs,     \* the captured registers
    cfds,      \* the captured descriptors
    file       \* the snapshot file

kernelVars == <<run, traced, gstop, pending, stopsig, unsent, orphaned>>
srcVars == <<regs, space, fds, touched>>
dataVars == <<cursor, regions, idx, cregs, cfds>>
capVars == <<mode, cpc, dataVars, file>>
vars == <<kernelVars, srcVars, capVars>>

NoSignal == "none"
AllSignals == Signals \cup {"STOP"}
Ended == {"ok", "err", "killed"}
NoFile == <<>>

Init ==
    /\ run = "running"
    /\ traced = FALSE
    /\ gstop = FALSE
    /\ pending = {}
    /\ stopsig = NoSignal
    /\ unsent = Signals
    /\ orphaned = FALSE
    /\ regs = 0
    /\ space \in Spaces
    /\ fds \in Tables
    /\ touched = {}
    /\ mode = "capture"
    /\ cpc = "parse_maps"
    /\ cursor = 0
    /\ regions = <<>>
    /\ idx = 1
    /\ cregs = 0
    /\ cfds = <<>>
    /\ file = NoFile

-----------------------------------------------------------------------------
(***************************************************************************)
(* The kernel (external: ptrace(2), signal(7)).                            *)
(***************************************************************************)

SendSignal ==
    /\ \E s \in unsent :
          /\ pending' = pending \cup {s}
          /\ unsent' = unsent \ {s}
    /\ UNCHANGED <<run, traced, gstop, stopsig, orphaned, srcVars, capVars>>

\* A traced process enters ptrace-stop for whichever signal is delivered
\* first; without a tracer SIGSTOP stops it and other signals are handled.
Deliver ==
    /\ run = "running"
    /\ \E s \in pending :
          /\ pending' = pending \ {s}
          /\ run' = IF traced THEN "tstop" ELSE IF s = "STOP" THEN "gstop" ELSE run
          /\ stopsig' = IF traced THEN s ELSE NoSignal
    /\ UNCHANGED <<traced, gstop, unsent, orphaned, srcVars, capVars>>

\* PTRACE_ATTACH queues a SIGSTOP; a process in group stop is trapped at once.
KernelAttach ==
    /\ traced' = TRUE
    /\ gstop' = (run = "gstop")
    /\ run' = IF run = "gstop" THEN "tstop" ELSE run
    /\ pending' = pending \cup {"STOP"}
    /\ UNCHANGED <<stopsig, unsent, orphaned>>

\* PTRACE_DETACH with signal 0: the signal of the ptrace-stop is discarded,
\* signals that are still pending are not; a group stop is reinstated.
KernelDetach ==
    /\ traced' = FALSE
    /\ run' = IF run = "tstop" THEN IF gstop THEN "gstop" ELSE "running" ELSE run
    /\ stopsig' = NoSignal
    /\ orphaned' = (orphaned /\ gstop)
    /\ UNCHANGED <<gstop, pending, unsent>>

\* Death of the tracer: the tracee continues with the signal it was stopped by.
\* (Whether somebody killed it is recorded by the caller.)
KernelTracerExit ==
    /\ traced' = FALSE
    /\ run' = IF run = "tstop"
              THEN IF gstop \/ stopsig = "STOP" THEN "gstop" ELSE "running"
              ELSE run
    /\ stopsig' = NoSignal
    /\ UNCHANGED <<gstop, pending, unsent>>

-----------------------------------------------------------------------------
(***************************************************************************)
(* The source process and its /proc files (external).                      *)
(***************************************************************************)

Mapped(p) == space[p].perm # "unmapped"
UserPage == {p \in Page : p < UserSpaceLimit}
KernelPaths == {"[vvar]", "[vsyscall]", "[vvar_vclock]"}

Remap(p, cell) ==
    /\ space' = [space EXCEPT ![p] = cell]
    /\ touched' = touched \cup {p}
    /\ UNCHANGED fds

SetDescriptor(d, value) ==
    /\ fds' = [fds EXCEPT ![d] = value]
    /\ UNCHANGED <<space, touched>>

\* A store, mmap, munmap, mprotect, open, close or a read that moves the offset.
SourceStep ==
    /\ run = "running"
    /\ regs < MaxSteps
    /\ regs' = regs + 1
    /\ \/ \E p \in Page :
             /\ space[p].perm = "rw"
             /\ space' = [space EXCEPT ![p].ver = regs + 1]
             /\ UNCHANGED <<fds, touched>>
       \/ \E p \in UserPage :
             ~Mapped(p) /\ Remap(p, [perm |-> "rw", path |-> "", ver |-> regs + 1])
       \/ \E p \in UserPage :
             Mapped(p) /\ Remap(p, [perm |-> "unmapped", path |-> "", ver |-> 0])
       \/ \E p \in UserPage, perm \in Perms :
             /\ Mapped(p) /\ space[p].perm # perm /\ space[p].path \notin KernelPaths
             /\ Remap(p, [space[p] EXCEPT !.perm = perm])
       \/ \E d \in DOMAIN fds, t \in {"/file", "socket:"} :
             fds[d].target = Closed /\ SetDescriptor(d, [target |-> t, pos |-> 0])
       \/ \E d \in DOMAIN fds :
             fds[d].target # Closed /\ SetDescriptor(d, [target |-> Closed, pos |-> 0])
       \/ \E d \in DOMAIN fds :
             fds[d].target = "/file" /\ SetDescriptor(d, [fds[d] EXCEPT !.pos = regs + 1])
    /\ UNCHANGED <<kernelVars, capVars>>

SourceDies ==
    /\ run # "dead"
    /\ run' = "dead"
    /\ UNCHANGED <<traced, gstop, pending, stopsig, unsent, orphaned, srcVars, capVars>>

\* The line of the maps file that starts at page p: up to the next page that is
\* not mapped or mapped differently.
Like(p, q) == space[p].perm = space[q].perm /\ space[p].path = space[q].path
MapsLine(p) ==
    [start |-> p,
     end   |-> Min({e \in (p + 1) .. (Width - 1) : e = Width - 1 \/ ~Like(p, e)}),
     perms |-> space[p].perm,
     path  |-> space[p].path]

\* What a read of /proc/<pid>/mem gives, all or nothing (read_exact).  It ignores
\* the protection, not the lack of a mapping, and it cannot see [vvar] pages.
InMem(p) == Mapped(p) /\ space[p].path \notin {"[vvar]", "[vvar_vclock]"}

-----------------------------------------------------------------------------
(***************************************************************************)
(* wraith-capturer: /proc/<pid>/maps, memory.rs.                           *)
(***************************************************************************)

\* The exit of the capturer: what it held in memory is gone.
ExitAs(how) ==
    /\ cpc' = how
    /\ cursor' = 0 /\ regions' = <<>> /\ idx' = 1 /\ cregs' = 0 /\ cfds' = <<>>

\* Mutant: no Drop implementation; the exit of the process ends the trace.
FailNoDrop ==
    /\ ExitAs("err")
    /\ IF traced THEN KernelTracerExit /\ UNCHANGED orphaned ELSE UNCHANGED kernelVars
    /\ UNCHANGED <<mode, file>>

\* An error return: ProcessLock::drop detaches if the lock is held.
Fail ==
    /\ ExitAs("err")
    /\ IF traced THEN KernelDetach ELSE UNCHANGED kernelVars
    /\ UNCHANGED <<mode, file>>

classify_region(pathname) ==
    CASE pathname = "[heap]"     -> "heap"
      [] pathname = "[stack]"    -> "stack"
      [] pathname = "[vdso]"     -> "vdso"
      [] pathname = "[vsyscall]" -> "vsyscall"
      [] pathname = "[vvar]"     -> "vvar"
      [] pathname = "/lib"       -> "file"
      [] pathname = ""           -> "anon"
      [] OTHER                   -> "other"

\* The region of a line; the data is dumped later.
parse_maps_line(line) ==
    [start |-> line.start, end |-> line.end, perms |-> line.perms,
     type |-> classify_region(line.path), data |-> <<>>]

\* Step 1 of capture(): /proc/<pid>/maps, before the attach.  read_to_string is
\* several reads, each of which goes on where the one before ended, and the
\* source runs between them; here a read returns one line.  The file of a
\* process that is gone is missing, or ends while it is a zombie.
ParseMaps ==
    /\ cpc = "parse_maps"
    /\ LET left == {p \in Page : p >= cursor /\ Mapped(p)}
       IN  \/ run = "dead" /\ Fail
           \/ /\ run # "dead" /\ left # {}
              /\ LET line == MapsLine(Min(left))
                 IN  regions' = Append(regions, parse_maps_line(line)) /\ cursor' = line.end
              /\ UNCHANGED <<mode, cpc, idx, cregs, cfds, file, kernelVars>>
           \/ /\ run = "dead" \/ left = {}
              /\ cpc' = "attach"
              /\ UNCHANGED <<mode, dataVars, file, kernelVars>>
    /\ UNCHANGED srcVars

region_size(r) == r.end - r.start

\* Mutant: the pages of the kernel are not looked for.
ShouldSkipReadable(r) == region_size(r) = 0 \/ r.perms = "none"

should_skip(r) ==
    \/ region_size(r) = 0
    \/ r.perms = "none"
    \/ r.type \in {"vsyscall", "vvar"}

-----------------------------------------------------------------------------
(***************************************************************************)
(* ProcessLock, registers and the dump loop.                               *)
(***************************************************************************)

\* ProcessLock::attach up to PTRACE_ATTACH; ESRCH or EPERM fail.
Attach ==
    /\ cpc = "attach"
    /\ \/ Fail
       \/ /\ run # "dead"
          /\ KernelAttach
          /\ cpc' = "waitpid"
          /\ UNCHANGED <<mode, dataVars, file>>
    /\ UNCHANGED srcVars

\* waitpid(pid, None): the status, which tells what stopped the process (or
\* that it died), is not looked at.  It has no error to return here: its argument
\* is a process this thread traces, and no handler is installed that could
\* interrupt it.
WaitPid ==
    /\ cpc = "waitpid"
    /\ run \in {"tstop", "dead"}
    /\ cpc' = IF mode = "capture" THEN "registers" ELSE "detach"
    /\ UNCHANGED <<mode, dataVars, file, kernelVars, srcVars>>

\* Mutant: the lock is dropped once the registers are read.
CaptureRegistersDrops ==
    /\ cpc = "registers"
    /\ run = "tstop"
    /\ cregs' = regs
    /\ cpc' = "dump"
    /\ KernelDetach
    /\ UNCHANGED <<mode, cursor, regions, idx, cfds, file, srcVars>>

\* Mutant: the result of PTRACE_GETREGS is not checked; the register set of a
\* process that is gone is whatever was there.
CaptureRegistersUnchecked ==
    /\ cpc = "registers"
    /\ cregs' = IF run = "tstop" THEN regs ELSE MaxSteps + 1
    /\ cpc' = "dump"
    /\ UNCHANGED <<mode, cursor, regions, idx, cfds, file, kernelVars, srcVars>>

\* capture_registers.  A register set that validate() refuses ends the capture.
CaptureRegisters ==
    /\ cpc = "registers"
    /\ \/ Fail
       \/ /\ run = "tstop"
          /\ cregs' = regs
          /\ cpc' = "dump"
          /\ UNCHANGED <<mode, cursor, regions, idx, cfds, file, kernelVars>>
    /\ UNCHANGED srcVars

\* read_exact of the whole region: one page that is gone fails all of it.
CanDump(r) == run # "dead" /\ \A p \in r.start .. (r.end - 1) : InMem(p)

dump_region(r) == [k \in 1 .. region_size(r) |-> space[r.start + k - 1].ver]

\* Mutant: a region that cannot be read is tried again.
DumpRegionRetries ==
    /\ cpc = "dump"
    /\ idx <= Len(regions)
    /\ should_skip(regions[idx]) \/ CanDump(regions[idx])
    /\ idx' = idx + 1
    /\ regions' = IF should_skip(regions[idx]) THEN regions
                  ELSE [regions EXCEPT ![idx].data = dump_region(regions[idx])]
    /\ UNCHANGED <<mode, cpc, cursor, cregs, cfds, file, kernelVars, srcVars>>

\* Mutant: the first region that cannot be read ends the loop.
DumpRegionBreaks ==
    /\ cpc = "dump"
    /\ idx <= Len(regions)
    /\ idx' = IF should_skip(regions[idx]) \/ CanDump(regions[idx])
              THEN idx + 1 ELSE Len(regions) + 1
    /\ regions' = IF should_skip(regions[idx]) \/ ~CanDump(regions[idx]) THEN regions
                  ELSE [regions EXCEPT ![idx].data = dump_region(regions[idx])]
    /\ UNCHANGED <<mode, cpc, cursor, cregs, cfds, file, kernelVars, srcVars>>

\* One round of the dump loop.  A region that cannot be read is skipped with a
\* warning.
DumpRegion ==
    /\ cpc = "dump"
    /\ idx <= Len(regions)
    /\ idx' = idx + 1
    /\ regions' = IF should_skip(regions[idx]) \/ ~CanDump(regions[idx]) THEN regions
                  ELSE [regions EXCEPT ![idx].data = dump_region(regions[idx])]
    /\ UNCHANGED <<mode, cpc, cursor, cregs, cfds, file, kernelVars, srcVars>>

Increasing(f) == \A i, j \in DOMAIN f : i < j => f[i] < f[j]

\* retain drops the regions without data and keeps the order of the others;
\* read_dir of /proc/<pid>/fd.
RetainDumped ==
    /\ cpc = "dump"
    /\ idx > Len(regions)
    /\ \/ run = "dead" /\ Fail
       \/ /\ LET kept == {k \in DOMAIN regions : regions[k].data # <<>>}
             IN  \E f \in [1 .. Cardinality(kept) -> kept] :
                    Increasing(f) /\ regions' = [k \in DOMAIN f |-> regions[f[k]]]
          /\ cpc' = "fds"
          /\ idx' = 1
          /\ UNCHANGED <<mode, cursor, cregs, cfds, file, kernelVars>>
    /\ UNCHANGED srcVars

-----------------------------------------------------------------------------
(***************************************************************************)
(* Descriptors (fd_enum.rs), the snapshot (snapshot.rs) and the end.       *)
(***************************************************************************)

classify_fd(target) ==
    CASE target = "socket:"   -> "socket"
      [] target = "pipe:"     -> "pipe"
      [] target = "/dev/node" -> "device"
      [] target = "/dir"      -> "directory"
      [] target = "/file"     -> "regular"
      [] OTHER                -> "other"

CapturedFd(d, pos) ==
    [fd |-> d, type |-> classify_fd(fds[d].target), path |-> fds[d].target, offset |-> pos]

\* One entry of enumerate_fds, in order (fds.sort_by_key).  The link of a process
\* that is dead by now cannot be read, and the entry is skipped; if only fdinfo
\* is gone the offset is 0.
EnumerateFd ==
    /\ cpc = "fds"
    /\ idx <= Len(fds)
    /\ idx' = idx + 1
    /\ IF fds[idx].target = Closed THEN UNCHANGED cfds
       ELSE \/ run # "dead" /\ cfds' = Append(cfds, CapturedFd(idx, fds[idx].pos))
            \/ run = "dead" /\ cfds' \in {cfds, Append(cfds, CapturedFd(idx, 0))}
    /\ UNCHANGED <<mode, cpc, cursor, regions, cregs, file, kernelVars, srcVars>>

\* drop(process) in capture(), lock.detach() in cmd_resume(): the source
\* runs again.  A failed detach is an error for `resume` only.
Detach ==
    /\ \/ cpc = "fds" /\ idx > Len(fds) /\ cpc' = "save" /\ UNCHANGED dataVars
       \/ cpc = "detach" /\ ExitAs(IF run = "dead" THEN "err" ELSE "ok")
    /\ KernelDetach
    /\ UNCHANGED <<mode, file, srcVars>>

region_to_proto(r) ==
    [start |-> r.start, size |-> region_size(r), perms |-> r.perms, data |-> r.data]

\* From /proc/<pid>/status, which is read after the process was let go.
vm_size_bytes == IF run = "dead" THEN 0 ELSE Cardinality({p \in Page : Mapped(p)})

\* SnapshotBuilder::build.
Snapshot ==
    [registers |-> cregs,
     regions   |-> [k \in DOMAIN regions |-> region_to_proto(regions[k])],
     fds       |-> cfds,
     vm_size   |-> vm_size_bytes]

\* Capturer::save and the end of cmd_capture.
Save ==
    /\ cpc = "save"
    /\ \/ file' = Snapshot /\ ExitAs("ok")
       \/ ExitAs("err") /\ UNCHANGED file
    /\ UNCHANGED <<mode, kernelVars, srcVars>>

\* The orchestrator's timeout.
Kill ==
    /\ MayKill
    /\ cpc \notin Ended
    /\ ExitAs("killed")
    /\ IF traced THEN KernelTracerExit /\ orphaned' = (orphaned \/ ~gstop)
       ELSE UNCHANGED kernelVars
    /\ UNCHANGED <<mode, file, srcVars>>

\* `wraith-capturer resume`, run by the rollback after a failed migration.  Its
\* pid_exists, which is true of a zombie, can only fail where Attach fails too.
StartResume ==
    /\ mode = "capture"
    /\ cpc \in Ended
    /\ mode' = "resume"
    /\ cpc' = "attach"
    /\ UNCHANGED <<dataVars, file, kernelVars, srcVars>>

-----------------------------------------------------------------------------
CapturerStep ==
    \/ ParseMaps
    \/ Attach
    \/ WaitPid
    \/ CaptureRegisters
    \/ DumpRegion
    \/ RetainDumped
    \/ EnumerateFd
    \/ Detach
    \/ Save

Next ==
    \/ CapturerStep
    \/ Kill
    \/ StartResume
    \/ SendSignal
    \/ Deliver
    \/ SourceStep
    \/ SourceDies

\* The capturer is scheduled and the kernel delivers signals.
Spec == Init /\ [][Next]_vars /\ WF_vars(CapturerStep) /\ WF_vars(Deliver)

-----------------------------------------------------------------------------
Versions == 0 .. MaxSteps
RegionTypes == {"heap", "stack", "vdso", "vsyscall", "vvar", "file", "anon", "other"}
Region == [start : Page, end : Address, perms : Perms, type : RegionTypes,
           data : Seq(Versions)]
FdTypes == {"socket", "pipe", "device", "directory", "regular", "other"}
OpenFd == [fd : Nat, type : FdTypes, path : Targets, offset : Versions]

TypeOK ==
    /\ run \in {"running", "tstop", "gstop", "dead"}
    /\ traced \in BOOLEAN
    /\ gstop \in BOOLEAN
    /\ pending \subseteq AllSignals
    /\ stopsig \in AllSignals \cup {NoSignal}
    /\ unsent \subseteq Signals
    /\ orphaned \in BOOLEAN
    /\ regs \in Versions
    /\ space \in [Page -> Cell]
    /\ fds \in Seq(Descriptor)
    /\ touched \subseteq Page
    /\ mode \in {"capture", "resume"}
    /\ cpc \in {"parse_maps", "attach", "waitpid", "registers", "dump", "fds", "detach",
                "save"} \cup Ended
    /\ cursor \in Address
    /\ regions \in Seq(Region)
    /\ \A k \in DOMAIN regions :
          /\ regions[k].start < regions[k].end
          /\ Len(regions[k].data) \in {0, region_size(regions[k])}
    /\ idx \in Nat \ {0}
    /\ cregs \in Versions
    /\ cfds \in Seq(OpenFd)

\* Has the region been dumped with what the source has in memory now?
DumpIsCurrent(r) ==
    r.data # <<>> =>
        \A p \in r.start .. (r.end - 1) : Mapped(p) /\ r.data[p - r.start + 1] = space[p].ver

\* No tearing: up to the moment the lock is released, everything captured so
\* far (registers, each page of each dumped region, the descriptors that were
\* enumerated with their offsets) is still what the process has.  The snapshot
\* is a state of one instant, even if another signal than SIGSTOP stopped the
\* process.
SnapshotOfOneInstant ==
    (mode = "capture" /\ run # "dead" /\ cpc \in {"dump", "fds"}) =>
        /\ cregs = regs
        /\ \A k \in DOMAIN regions : DumpIsCurrent(regions[k])
        /\ \A k \in DOMAIN cfds : cfds[k] = CapturedFd(cfds[k].fd, fds[cfds[k].fd].pos)

\* The source is left in a group stop only by the death of its tracer or by a
\* signal of another party that raced with an attach (waitpid takes the stop of
\* that signal for its own, and the SIGSTOP takes effect after the detach); a
\* capture or a resume that ends by itself, well or badly, leaves it running.
StoppedOnlyByKill ==
    (run = "gstop" /\ unsent = Signals) => orphaned

Covers(r, p) == r.start <= p /\ p < r.end

\* The map is read piecemeal while the process still runs, so the snapshot may be
\* wrong about the pages the process maps, unmaps or protects meanwhile, and one
\* page that went away takes its whole region along - but nothing else: a page
\* that was left alone, as were the pages it was listed with, is in the snapshot
\* with its protection and its bytes if it can be read at all, whatever became
\* of the other regions.  capturer.rs:42 says the order avoids the race.
OnlyTouchedIsWrong ==
    (mode = "capture" /\ cpc = "fds" /\ run # "dead") =>
        \A p \in Page \ touched :
            \/ space[p].perm \in {"unmapped", "none"} \/ ~InMem(p) \/ p \notin UserPage
            \/ \E k \in DOMAIN regions :
                  Covers(regions[k], p) /\ regions[k].perms = space[p].perm
            \/ \E q \in touched : \A r \in (p .. q) \cup (q .. p) :
                  r \in touched \/ Like(p, r)

\* Whatever the process did while its map was read, and whatever the map holds
\* (the [vsyscall] page lies above user space), the regions that reach the file
\* are a layout that AddressSpaceLayout::validate accepts.  (No region at all is
\* such a layout; the restorer refuses that snapshot by a check of its own.)
CapturedIsRestorable ==
    file # NoFile => \A layout \in Layouts(file.regions) : ValidLayout(layout)

\* What the orchestrator sees of the capturer, its file and the source.  A SIGSTOP
\* that is pending without a tracer stops the source before anything else happens.
TeleporterCapt ==
    IF cpc \in {"parse_maps", "attach"}
    THEN IF mode = "capture" THEN "spawned" ELSE "resuming"
    ELSE IF cpc \in {"waitpid", "registers", "dump", "fds", "detach"}
    THEN IF mode = "capture" THEN "attached" ELSE "resume_attached"
    ELSE IF cpc = "save" THEN "detached" ELSE IF cpc = "err" THEN "error" ELSE cpc

TeleporterSrc ==
    IF run = "dead" THEN "exited"
    ELSE IF traced /\ ~gstop THEN "traced"
    ELSE IF ~traced /\ run = "running" /\ "STOP" \notin pending THEN "running"
    ELSE IF orphaned THEN "stopped" ELSE "paused"

T == INSTANCE Teleporter WITH
        MaxWork <- 0, Faults <- {"capturer", "signal", "source"}, TimeoutFlagParses <- TRUE,
        pc <- "capture_wait", state <- "CAPTURING", exc <- "none", exit <- "none",
        opts <- [verify_only |-> FALSE, keep_snapshot |-> FALSE, strict_fds |-> FALSE],
        src <- TeleporterSrc, work <- 0, capt <- TeleporterCapt, image <- 0,
        local <- IF file = NoFile THEN "empty" ELSE "saved",
        xmit <- "none", rcv <- "none", remote <- "none", rst <- "none", dst <- "none"

\* The start of a resume, as far as the capturer is concerned.
TeleporterResumes ==
    /\ ~T!CapturerRunning
    /\ TeleporterCapt' = "resuming"
    /\ UNCHANGED <<TeleporterSrc, file>>

\* Every step of the capturer, the kernel and the source is one that Teleporter
\* allows the capturer and the source, or none at all: that a capture is three
\* steps there, and ptrace one state, hides no outcome of a race between signals,
\* attach, detach and the death of the tracer.
ImplementsTeleporter ==
    /\ TeleporterCapt = "spawned" /\ TeleporterSrc = "running"
    /\ [][\/ T!CapturerStep
          \/ T!SourceExits
          \/ T!CapturerRunning /\ T!KillCapturer
          \/ TeleporterResumes]_(T!vars)

\* The source does not stay in ptrace-stop.
TraceIsReleased == (run = "tstop") ~> (run # "tstop")

(***************************************************************************)
(* What a comment says and the code does not do.                           *)
(***************************************************************************)

\* capturer.rs: "getting the map before attaching avoids a race where a new
\* mapping appears mid-read": every page of the frozen process that can be read
\* is in the snapshot.
NoMappingMissed ==
    (mode = "capture" /\ cpc = "fds" /\ run # "dead") =>
        \A p \in UserPage :
            (space[p].perm \in {"r", "rw"} /\ InMem(p)) =>
                \E k \in DOMAIN regions : Covers(regions[k], p)
=============================================================================
