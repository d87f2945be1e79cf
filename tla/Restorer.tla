------------------------------ MODULE Restorer ------------------------------
(***************************************************************************)
(* wraith-restorer (wraith-rust/src/bin/restorer.rs, restorer.rs and       *)
(* fd_restore.rs): a stub child is forked, its address space is rebuilt    *)
(* region by region with injected system calls, registers and descriptors  *)
(* follow, and the child is let go.                                        *)
(*                                                                         *)
(* A page of the child holds nothing, the image of the stub, zeros, or the *)
(* bytes of one region of the snapshot.  The child may be killed from      *)
(* outside, stop by itself with an unexpected signal, and refuse whatever  *)
(* is asked of the kernel on its behalf.                                   *)
(***************************************************************************)
EXTENDS AddressSpace, FiniteSetsExt

CONSTANTS
    Snapshots,   \* the snapshot files: [regions, fds, registers]
    Faults       \* the kinds of fault the environment may produce

FaultKinds ==
    { "kernel",    \* fork, SETREGS, DETACH, an injected call or a write is refused
      "stub",      \* the stub stops with another signal, or exits
      "signal",    \* an injection is cut short: another signal than SIGTRAP ends
                   \* it, or a ptrace request fails halfway through
      "death",     \* the child is killed from outside
      "open",      \* a file cannot be opened on this machine
      "stdout" }   \* the SSH channel behind stdout is gone

Region == [start : Address, size : Address, writable : BOOLEAN, sound : BOOLEAN]
FdTypes == {"regular", "directory", "pipe", "socket", "device", "other"}
FdSpec == [num : Nat, type : FdTypes, path : BOOLEAN]
Snapshot == [regions : Seq(Region), fds : Seq(FdSpec), registers : BOOLEAN]

ASSUME SnapshotsAssumption == Snapshots \subseteq Snapshot
ASSUME FaultsAssumption == Faults \subseteq FaultKinds

VARIABLES
    snap,      \* the snapshot
    strict,    \* --strict-fds
    rpc,       \* where the restorer is
    reg,       \* the region being restored
    fd,        \* the descriptor being opened, or moved to the child
    opened,    \* descriptors the restorer opened: [num, os]
    failed,    \* descriptors that could not be opened
    exit,      \* exit status of the restorer
    child,     \* the child process
    stubPage,  \* the page the stub executes in
    mem,       \* what each page of the child holds
    prot,      \* its protection
    regs,      \* the registers of the child
    patched,   \* is the injected code still at the child's RIP?
    cut,       \* an injection was cut short (history)
    placed     \* descriptors put in place in the child

inputVars == <<snap, strict, stubPage>>
fdVars    == <<fd, opened, failed>>
memVars   == <<mem, prot>>
cpuVars   == <<regs, patched, cut>>
vars == <<inputVars, rpc, reg, fdVars, exit, child, memVars, cpuVars, placed>>

Pages == 0 .. (UserSpaceLimit - 1)

Unmapped  == 0
StubImage == 1
ZeroPage  == 2
Bytes(i)  == i + 2     \* the bytes of the i-th region

\* Descriptors the restorer has when it forks; the child inherits them.
Stdio == {0, 1, 2}

Init ==
    /\ snap \in Snapshots
    /\ strict \in BOOLEAN
    /\ rpc = "load"
    /\ reg = 1
    /\ fd = 1
    /\ opened = <<>>
    /\ failed = {}
    /\ exit = "none"
    /\ child = "none"
    /\ stubPage \in Pages
    /\ mem = [p \in Pages |-> IF p = stubPage THEN StubImage ELSE Unmapped]
    /\ prot = [p \in Pages |-> "ro"]
    /\ regs = "stub"
    /\ patched = FALSE
    /\ cut = FALSE
    /\ placed = {}

-----------------------------------------------------------------------------
(***************************************************************************)
(* Up to the fork.                                                         *)
(***************************************************************************)

Exit(code) == rpc' = "exited" /\ exit' = code

\* Capturer::load.
Load ==
    /\ rpc = "load"
    /\ \/ rpc' = "validate" /\ UNCHANGED exit
       \/ Exit("1")
    /\ UNCHANGED <<inputVars, reg, fdVars, child, memVars, cpuVars, placed>>

\* ProcessRestorer::validate.
Validate ==
    /\ rpc = "validate"
    /\ \E layout \in Layouts(snap.regions) :
          IF ValidLayout(layout) /\ snap.registers /\ snap.regions # <<>>
          THEN rpc' = "fork" /\ UNCHANGED exit
          ELSE Exit("1")
    /\ UNCHANGED <<inputVars, reg, fdVars, child, memVars, cpuVars, placed>>

ForkStub ==
    /\ rpc = "fork"
    /\ \/ child' = "starting" /\ rpc' = "wait_stub" /\ UNCHANGED exit
       \/ "kernel" \in Faults /\ Exit("1") /\ UNCHANGED child
    /\ UNCHANGED <<inputVars, reg, fdVars, memVars, cpuVars, placed>>

\* child_stub: PTRACE_TRACEME and raise(SIGSTOP).
StubStops ==
    /\ child = "starting"
    /\ \/ child' = "stopped"
       \/ "stub" \in Faults /\ child' \in {"stopped_other", "gone"}
    /\ UNCHANGED <<inputVars, rpc, reg, fdVars, exit, memVars, cpuVars, placed>>

\* Mutant: only the expected stop ends the wait.
WaitStubExpected ==
    /\ rpc = "wait_stub"
    /\ child = "stopped"
    /\ rpc' = "region"
    /\ UNCHANGED <<inputVars, reg, fdVars, exit, child, memVars, cpuVars, placed>>

\* The error path of fork_stub returns before restore() has a child to kill.
\* The exit of the restorer ends the trace: a stub that had stopped with
\* another signal dies of it, or goes on to its SIGSTOP and stays there.
WaitStub ==
    /\ rpc = "wait_stub"
    /\ child \in {"stopped", "stopped_other", "gone"}
    /\ IF child = "stopped"
       THEN rpc' = "region" /\ UNCHANGED <<exit, child>>
       ELSE /\ Exit("1")
            /\ child' \in IF child = "gone" THEN {"gone"} ELSE {"gone", "stray"}
    /\ UNCHANGED <<inputVars, reg, fdVars, memVars, cpuVars, placed>>

-----------------------------------------------------------------------------
(***************************************************************************)
(* restore_inner: the regions.                                             *)
(***************************************************************************)

\* Mutant: the error is returned without killing the child, which runs on from
\* where it is when the exit of the restorer ends the trace.
KillChildNot == Exit("1") /\ child' = IF child = "gone" THEN "gone" ELSE "running"

\* An error of restore_inner: restore() kills and reaps the child.
KillChild == Exit("1") /\ child' = "gone"

Alive == child = "stopped"

\* SyscallInjector::inject that is cut short returns at once: after the bytes at
\* RIP were overwritten, after the registers were too, or when only the bytes
\* have been put back.
InjectionLost ==
    /\ \/ regs' \in {regs, "call"} /\ patched' = TRUE
       \/ regs' = "call" /\ UNCHANGED patched
    /\ cut' = TRUE

CurrentRegion == snap.regions[reg]

PagesOf(region) == {p \in Pages : region.start <= p /\ p < RangeOf(region).end}

CheckRegion ==
    /\ rpc = "region"
    /\ reg <= Len(snap.regions)
    /\ IF CurrentRegion.sound
       THEN rpc' = "mmap" /\ UNCHANGED <<exit, child>>
       ELSE KillChild
    /\ UNCHANGED <<inputVars, reg, fdVars, memVars, cpuVars, placed>>

\* MAP_FIXED replaces whatever is mapped there.  When that is the page the stub
\* executes in, the int3 is gone and the child faults.
MmapRegion ==
    /\ rpc = "mmap"
    /\ \/ /\ Alive
          /\ mem' = [p \in Pages |-> IF p \in PagesOf(CurrentRegion) THEN ZeroPage ELSE mem[p]]
          /\ prot' = [p \in Pages |-> IF p \in PagesOf(CurrentRegion) THEN "rw" ELSE prot[p]]
          /\ \/ /\ stubPage \notin PagesOf(CurrentRegion)
                /\ rpc' = "write"
                /\ UNCHANGED <<exit, child, cpuVars>>
             \/ /\ stubPage \in PagesOf(CurrentRegion) \/ "signal" \in Faults
                /\ InjectionLost
                /\ KillChild
       \/ /\ ~Alive \/ "kernel" \in Faults
          /\ KillChild
          /\ UNCHANGED <<memVars, cpuVars>>
    /\ UNCHANGED <<inputVars, reg, fdVars, placed>>

\* write_to_child_mem.  The data of a region is as long as the region, which
\* nobody compares here: dump_region of the capturer writes it so.
WriteRegion ==
    /\ rpc = "write"
    /\ \/ /\ Alive
          /\ mem' = [p \in Pages |-> IF p \in PagesOf(CurrentRegion) THEN Bytes(reg) ELSE mem[p]]
          /\ rpc' = "protect"
          /\ UNCHANGED <<exit, child>>
       \/ /\ ~Alive \/ "kernel" \in Faults
          /\ KillChild
          /\ UNCHANGED mem
    /\ UNCHANGED <<inputVars, reg, fdVars, prot, cpuVars, placed>>

\* Mutant: the region counter is incremented twice.
NextRegionTwice == rpc' = "region" /\ reg' = reg + 2

NextRegion == rpc' = "region" /\ reg' = reg + 1

\* Mutant: the write permission is left in place.
ProtectRegionNot ==
    /\ rpc = "protect"
    /\ NextRegion
    /\ UNCHANGED <<exit, child, prot, cpuVars, inputVars, fdVars, mem, placed>>

\* mprotect is injected only when the write permission has to go.
ProtectRegion ==
    /\ rpc = "protect"
    /\ \/ /\ CurrentRegion.writable
          /\ NextRegion
          /\ UNCHANGED <<exit, child, prot, cpuVars>>
       \/ /\ ~CurrentRegion.writable
          /\ Alive
          /\ prot' = [p \in Pages |->
                         IF p \in PagesOf(CurrentRegion) THEN Prot(CurrentRegion) ELSE prot[p]]
          /\ \/ NextRegion /\ UNCHANGED <<exit, child, cpuVars>>
             \/ "signal" \in Faults /\ InjectionLost /\ KillChild /\ UNCHANGED reg
       \/ /\ ~CurrentRegion.writable
          /\ ~Alive \/ "kernel" \in Faults
          /\ KillChild
          /\ UNCHANGED <<reg, prot, cpuVars>>
    /\ UNCHANGED <<inputVars, fdVars, mem, placed>>

-----------------------------------------------------------------------------
(***************************************************************************)
(* Registers, descriptors, and the end.                                    *)
(***************************************************************************)

RestoreRegisters ==
    /\ rpc = "region"
    /\ reg > Len(snap.regions)
    /\ \/ /\ Alive
          /\ regs' = "snapshot"
          /\ rpc' = "fds"
          /\ UNCHANGED <<exit, child>>
       \/ /\ ~Alive \/ "kernel" \in Faults
          /\ regs' \in {regs, "snapshot"}     \* SETREGS or SETFPREGS fails
          /\ KillChild
    /\ UNCHANGED <<inputVars, reg, fdVars, memVars, patched, cut, placed>>

\* Mutant: the restorer has given its standard streams away before it opens files.
FreeFdNoStdio ==
    LET used == {opened[k].os : k \in DOMAIN opened}
    IN  Min({n \in 0 .. Cardinality(used) : n \notin used})

\* The lowest descriptor that is free in the restorer.
FreeFd ==
    LET used == Stdio \cup {opened[k].os : k \in DOMAIN opened}
    IN  Min({n \in 0 .. Cardinality(used) : n \notin used})

\* FdRestorer::restore_one: regular files and directories are opened, unless
\* their path is empty; pipes, sockets, devices and the rest are skipped.
Restorable(spec) == spec.type \in {"regular", "directory"} /\ spec.path

\* FdRestorer::restore_all.  The files are opened here, in the restorer.
RestoreFd ==
    /\ rpc = "fds"
    /\ IF fd > Len(snap.fds)
       THEN rpc' = "dup2" /\ fd' = 1 /\ UNCHANGED <<opened, failed>>
       ELSE /\ fd' = fd + 1
            /\ \/ /\ Restorable(snap.fds[fd])
                  /\ opened' = Append(opened, [num |-> snap.fds[fd].num, os |-> FreeFd])
                  /\ UNCHANGED failed
               \/ /\ Restorable(snap.fds[fd])
                  /\ "open" \in Faults
                  /\ failed' = failed \cup {snap.fds[fd].num}
                  /\ UNCHANGED opened
               \/ /\ ~Restorable(snap.fds[fd])
                  /\ UNCHANGED <<opened, failed>>
            /\ UNCHANGED rpc
    /\ UNCHANGED <<inputVars, reg, exit, child, memVars, cpuVars, placed>>

\* dup2(os, num) is executed by the child, whose descriptors are the ones the
\* restorer had when it forked: EBADF for every descriptor opened since.  An
\* error is logged and the loop goes on.
Dup2 ==
    /\ rpc = "dup2"
    /\ fd <= Len(opened)
    /\ fd' = fd + 1
    /\ \/ /\ Alive
          /\ placed' = IF opened[fd].os \in Stdio \cup placed
                       THEN placed \cup {opened[fd].num} ELSE placed
          /\ UNCHANGED cpuVars
       \/ /\ Alive
          /\ "signal" \in Faults
          /\ InjectionLost
          /\ UNCHANGED placed
       \/ /\ ~Alive \/ "kernel" \in Faults
          /\ UNCHANGED <<placed, cpuVars>>
    /\ UNCHANGED <<inputVars, rpc, reg, opened, failed, exit, child, memVars>>

Detach ==
    /\ rpc = "dup2"
    /\ fd > Len(opened)
    /\ \/ Alive /\ child' = "running" /\ rpc' = "report" /\ UNCHANGED exit
       \/ (~Alive \/ "kernel" \in Faults) /\ KillChild
    /\ UNCHANGED <<inputVars, reg, fdVars, memVars, cpuVars, placed>>

\* Mutant: failed descriptors are always fatal, the option is not consulted.
ReportAlwaysStrict ==
    /\ rpc = "report"
    /\ \/ IF failed # {}
          THEN Exit("2") /\ child' = IF child = "running" THEN "gone" ELSE child
          ELSE Exit("0") /\ UNCHANGED child
       \/ "stdout" \in Faults /\ Exit("101") /\ UNCHANGED child
    /\ UNCHANGED <<inputVars, reg, fdVars, memVars, cpuVars, placed>>

\* run() after restore(): with --strict-fds a failed descriptor kills the child,
\* which has been running since the detach and may have ended by itself.
\* println! panics (status 101) when stdout is gone.
Report ==
    /\ rpc = "report"
    /\ \/ IF failed # {} /\ strict
          THEN Exit("2") /\ child' = IF child = "running" THEN "gone" ELSE child
          ELSE Exit("0") /\ UNCHANGED child
       \/ "stdout" \in Faults /\ Exit("101") /\ UNCHANGED child
    /\ UNCHANGED <<inputVars, reg, fdVars, memVars, cpuVars, placed>>

ChildDies ==
    /\ "death" \in Faults
    /\ child \in {"stopped", "running"}
    /\ child' = IF child = "running" THEN "ended" ELSE "gone"
    /\ UNCHANGED <<inputVars, rpc, reg, fdVars, exit, memVars, cpuVars, placed>>

-----------------------------------------------------------------------------
RestorerStep ==
    \/ Load
    \/ Validate
    \/ ForkStub
    \/ WaitStub
    \/ CheckRegion
    \/ MmapRegion
    \/ WriteRegion
    \/ ProtectRegion
    \/ RestoreRegisters
    \/ RestoreFd
    \/ Dup2
    \/ Detach
    \/ Report

Next == RestorerStep \/ StubStops \/ ChildDies

\* The restorer and the stub are scheduled.
Spec == Init /\ [][Next]_vars /\ WF_vars(RestorerStep) /\ WF_vars(StubStops)

-----------------------------------------------------------------------------
ChildStates ==
    {"none", "starting", "stopped", "stopped_other", "running", "ended", "gone", "stray"}

TypeOK ==
    /\ snap \in Snapshots
    /\ strict \in BOOLEAN
    /\ rpc \in {"load", "validate", "fork", "wait_stub", "region", "mmap", "write",
                "protect", "fds", "dup2", "report", "exited"}
    /\ reg \in 1 .. (Len(snap.regions) + 1)
    /\ fd \in Nat \ {0}
    /\ opened \in Seq([num : Nat, os : Nat])
    /\ failed \subseteq Nat
    /\ exit \in {"none", "0", "1", "2", "101"}
    /\ child \in ChildStates
    /\ stubPage \in Pages
    /\ mem \in [Pages -> Nat]
    /\ prot \in [Pages -> {"ro", "rw"}]
    /\ regs \in {"stub", "call", "snapshot"}
    /\ patched \in BOOLEAN
    /\ cut \in BOOLEAN
    /\ placed \subseteq Nat

\* No child is forked for a snapshot with overlapping regions, wherever they
\* are in the file and however far apart: aslr.rs compares neighbours of the
\* sorted list only.  Regions whose end wraps around are refused as well.
AcceptedIsDisjoint ==
    child # "none" =>
        /\ PairwiseDisjoint(snap.regions)
        /\ \A i \in DOMAIN snap.regions :
              snap.regions[i].start + snap.regions[i].size <= UserSpaceLimit

\* The process that is let go has, in every region of the snapshot, the bytes
\* and the protection of that region, all of them with a valid checksum; it has
\* the registers of the snapshot and no injected code at its RIP, unless the
\* injection of a dup2, whose error is only logged, was cut short.
CopyIsExact ==
    child = "running" =>
        /\ \A i \in DOMAIN snap.regions :
              /\ snap.regions[i].sound
              /\ \A p \in PagesOf(snap.regions[i]) :
                    mem[p] = Bytes(i) /\ prot[p] = Prot(snap.regions[i])
        /\ ~cut => regs = "snapshot" /\ ~patched

\* The exit status can be acted upon: after 0 the copy was let go, and after 1
\* or 2, for which the orchestrator raises RestoreError and resumes the source,
\* no copy executes: a child in pieces is killed on the way to 1, the copy that
\* was let go on the way to 2.  Status 101, a panic, promises neither.
ExitTellsChild ==
    /\ exit = "0" => child \in {"running", "ended"}
    /\ exit \in {"1", "2"} => child # "running"

\* No descriptor of the copy is replaced.  The injected dup2 runs in the child
\* with a number that is a descriptor of the restorer: it never names one that
\* the child inherited, an end of the SSH channel, so the program does not find
\* the channel where it had a file open.  (Nor does it find the file: the finding
\* at restorer.rs:243.)
NoForeignDescriptor == placed = {}

\* What the orchestrator sees of the restorer and of the process it restores.
TeleporterRst ==
    IF rpc \in {"load", "validate", "fork", "wait_stub"} THEN "loading"
    ELSE IF rpc = "report" THEN "reporting"
    ELSE IF rpc # "exited" THEN "building"
    ELSE IF exit = "0" THEN "exit0" ELSE IF exit = "2" THEN "exit2" ELSE "exit1"

TeleporterDst ==
    IF child = "running" THEN "running"
    ELSE IF child = "ended" THEN "exited"
    ELSE IF child = "stray" \/ TeleporterRst = "building" THEN "stub"
    ELSE IF exit = "2" THEN "killed" ELSE "none"

\* The snapshot has arrived and nobody waits for the restorer any more, so that
\* stdout may be gone.
T == INSTANCE Teleporter WITH
        MaxWork <- 0, Faults <- {"restorer", "dest"}, TimeoutFlagParses <- TRUE,
        pc <- "done", state <- "RESTORING", exc <- "none", exit <- "none",
        opts <- [verify_only |-> FALSE, keep_snapshot |-> FALSE, strict_fds |-> strict],
        src <- "running", work <- 0, capt <- "ok", image <- 0, local <- "saved",
        xmit <- "ok", rcv <- "done", remote <- "written",
        rst <- TeleporterRst, dst <- TeleporterDst

\* Every step of the restorer is one that Teleporter allows the restorer and its
\* copy, or none at all: what is shown there of the orchestrator holds with this
\* restorer at the other end, whatever fails inside it.
ImplementsTeleporter ==
    /\ TeleporterRst = "loading" /\ TeleporterDst = "none"
    /\ [][T!RestorerStep \/ T!CopyExits]_(T!vars)

\* The restorer comes to an end, whatever the child does.
RestoreEnds == <>(rpc = "exited")

(***************************************************************************)
(* What a comment says and the code does not do.                           *)
(***************************************************************************)

\* bin/restorer.rs, exit codes: "1 - validation or I/O error (snapshot not
\* applied, no orphan process)"; ProcessRestorer::restore: "On error, any forked
\* child is killed before returning."
NoOrphan == exit = "1" => child \in {"none", "gone"}
=============================================================================
