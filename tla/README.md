# Wraith: a verification project

Wraith moves a running Linux process from one machine to another: it captures
the process with `ptrace`, sends the snapshot over TCP, rebuilds the process on
the destination with injected system calls, and then kills the original.  This
directory holds TLA+ specifications of that machinery, TLC configurations that
check them on small instances, and TLAPS proofs for every value of their
constants.

    tlc -workers 2 -config Teleporter_safety.cfg Teleporter
    tlapm TeleporterProofs.tla

`PROJECT.json` lists the runs, the mutants that show each property can fail, the
source lines behind every definition, the findings and the hazards.

## 1. Inventory

| Component | Source | State | Operations |
|---|---|---|---|
| Orchestrator | `wraith-control/wraith/teleporter.py` | `_state`, paths of the two snapshot files, destination PID | `migrate` = preflight, capture, transfer, restore, terminate; `_rollback`; `_cleanup_snapshot` |
| Command line | `cli.py` | none | `migrate` (exit status 0, 1, 3), `check`, `status` |
| SSH session | `remote.py` | the paramiko client | `connect`, `exec`, `exec_background`, `upload`, `download` |
| Pre-flight checks | `checks.py` | list of results | eight checks of the process and the destination |
| Capturer | `wraith-rust/src/capturer.rs`, `ptrace_ops.rs`, `main.rs` | the ptrace lock | `capture`, `resume`, `inspect` |
| Readers | `memory.rs`, `registers.rs`, `fd_enum.rs` | none | maps, page data, registers, descriptors |
| Snapshot | `snapshot.rs`, `proto/wraith.proto` | the file | `build`, `save`, `load` |
| Wire protocol | `wraith-go/pkg/transport/protocol.go` | a byte stream | frames, blocks, deadlines |
| Transmitter | `client.go`, `cmd/transmitter` | position in the snapshot, retry counter | `SendSnapshot`, `sendBlockWithRetry` |
| Receiver | `server.go`, `cmd/receiver` | receive buffer, `bytesWritten` | `AcceptSnapshot`, `WriteFile` |
| Delta detector | `pkg/delta/delta.go` | the previous manifest | `DirtyOffsets`, `HashPage`, `Analyze` |
| Layout check | `aslr.rs` | sorted ranges | `from_snapshot`, `validate` |
| Restorer | `restorer.rs`, `bin/restorer.rs`, `fd_restore.rs` | a traced child and its address space | validate, fork, mmap/write/mprotect per region, registers, descriptors, detach |

How they interact.  The orchestrator starts `wraith-capturer` and
`wraith-transmitter` as local children with `subprocess.run(timeout=...)`, and
`wraith-receiver` (in the background, forgotten at once) and `wraith-restorer`
(waited for) through SSH.  It learns an exit status, a timeout or an exception,
nothing else.  Capturer and source process meet in the kernel's ptrace protocol.
Transmitter and receiver share a TCP stream; receiver and restorer share a file
and nothing tells the restorer that the file is complete.

Migrations to one
destination share its transfer port, and nothing coordinates them.

What is hard.  Six processes and two copies of the migrated one run
concurrently; most waits have a deadline that kills one party and not the other,
the ones for the SSH server have none that bounds them;
the kill of a tracer changes the state of the tracee; a retry writes to a stream
that already holds part of the frame; the restored process runs before the
restorer has reported.  The hazards are listed one by one, at their lines, in
`PROJECT.json`.

What makes each part correct:

* orchestrator - the source is retired only after a copy came to life; every way
  out leaves no tracer and no transmitter behind, and tells the caller the truth;
* several orchestrators - a source is not killed for somebody else's copy, and no
  snapshot becomes two processes;
* capturer - a snapshot is the state of one instant and is right about whatever
  the source left alone; the source is let go; the restorer takes what is saved;
* transport - what is accepted is what was sent; an error means nothing was
  accepted; both ends come to an end;
* restorer - a process that is let go is the snapshot, page by page; no copy
  executes after an error; layouts that overlap are refused.

## 2. The modules

| Module | Models | Actions |
|---|---|---|
| `Handoff` | the promise of a migration, no mechanism | the source leaves or is retired, the copy appears or ends, the verdict |
| `Teleporter` | one `migrate()` with all its children | one per step of the orchestrator (`Orchestrate`), of each child (`CapturerStep`, `TransmitterStep`, `ReceiverStep`, `RestorerStep`), and of the environment |
| `TeleporterProofs` | proofs about `Teleporter` | |
| `Fleet` | several migrations that share a destination and a port | one per phase of an orchestrator, the end of a transmitter, bind / accept / receive / write of a receiver |
| `FleetProofs` | proofs about `Fleet` | |
| `Capturer` | `capture` and `resume` against the kernel, with the readers of `/proc` and the snapshot builder | one read of the maps file, attach, wait, registers, one dump per region, one descriptor at a time, detach, save; the kernel's signal delivery; the source process |
| `MCCapturer` | address spaces and descriptor tables for TLC | |
| `CapturerProofs` | proofs about `Capturer`: types, atomicity, the lock and the signals, the refinement of `Teleporter` | |
| `CapturerMapProofs` | proofs about `Capturer`: the walk over the maps file and the snapshot | |
| `Transport` | `SendSnapshot` and `receiveOne` over one stream | dial, handshake, block, failed block, complete; one per kind of frame received |
| `MCTransport` | snapshots for TLC | |
| `TransportProofs` | proofs about `Transport` | |
| `AddressSpace` | `aslr.rs` | operators only |
| `Restorer` | `wraith-restorer` | one per step of `restore_inner` and per region; the stub; the report |
| `MCRestorer` | snapshots for TLC | |
| `RestorerProofs` | proofs about `AddressSpace` and `Restorer` | |

`Teleporter` INSTANCEs `Handoff` (refinement mapping `HandoffSource`,
`HandoffCopy`, `HandoffVerdict`).  The children appear in it by what others can
see of them; `Capturer`, `Transport` and `Restorer` open them up.  The
three in turn INSTANCE `Teleporter`, with the orchestrator held still and the
other children absent: `ImplementsTeleporter` says that each of their steps is one
that `Teleporter` allows that child (and the source, or the copy), or none.  So
what is shown of the orchestrator is shown with the detailed children under it.

### Teleporter

`pc` is the place in `migrate()`, `state` is `_state`, `exc` the exception in
flight, `src` the source process as the kernel sees it (`stopped` is a group
stop, `terminating` has got its SIGTERM), `work` what it has done and `image` the
value of `work` in the snapshot.  `capt`, `xmit`, `rcv`, `rst` are the children,
`local` and `remote` the two files, `dst` the restored process.  `Faults` names
the kinds of fault the environment may produce (SSH, deadlines, network, OSError,
Ctrl-C, stray signals, deaths, blocks sent again); the configurations choose among
them.

An exception of the Wraith family goes through `_rollback`
(`RaiseToRollback`), any other one meets only the `finally` clause
(`RaiseUncaught`).  Ctrl-C may strike at every place, also in the rollback, in the
`finally` clause, in the close of the session and while the verdict is printed
(`Interrupt`).  `KillCapturer` is what `subprocess.run` does at its timeout:
SIGKILL, after which the kernel leaves a tracee that was stopped by SIGSTOP in a
group stop.  `ResumeAttach`/`ResumeDetach` is `wraith-capturer resume`, which
sends no SIGCONT.

### Fleet

`Teleporter` has one receiver, its own.  `Fleet` takes the opposite view: of a
migration it keeps the phase (`mpc`), the source and what was restored (`copy`),
and it has one receiver per migration, any of which may hold the port.  A
snapshot is named by the migration it was taken from, so `from[r] = m` says that
the receiver started by `r` is taking the snapshot of `m`.  `exec_background`
closes its channel behind the command, so a receiver may never start, may bind
long after the 1.5 s, and is never told to stop; `RunTransmitter` connects to
whoever listens.  `met` records which migrations were under way at the same time.

A receiver returns there what a transmitter has completed; the early return behind
a block that was sent again is in `Transport` and `Teleporter`.  Remote paths are
told apart by `migration_id[:8]`; two migrations whose ids agree
in those characters are assumed not to occur.

### Capturer

The source is a register set, pages and descriptors with version numbers as
contents, and it changes them whenever it runs: it writes, maps, unmaps and
protects pages, moves a file offset, opens and closes.  Regions are not part of
its state.  They are the runs of like pages that `/proc/<pid>/maps` shows, and
`parse_maps` reads that file in several reads while the process still runs.  What
is assumed of the kernel is only that addresses never go backwards between the
reads and that whatever is mapped during the whole walk is listed (`proc(5)`).
The classification of a region by its path and permissions, the ones that are
skipped, the read of `/proc/<pid>/mem` that fails for a page that is gone (its
region is dropped, `RetainDumped`), the descriptors with their types, and what
`SnapshotBuilder` makes of them are translated line by line; the bytes and the
encoding are not there.  Errors on the way (a dead process, an unreadable
directory) end the capture, or shorten it where the code ignores them.

The kernel part (`KernelAttach`, `Deliver`, `KernelDetach`, `KernelTracerExit`)
follows ptrace(2) and is external to the repository: a traced process stops for
whichever signal is delivered first, a detach discards that signal and keeps the
pending ones, and the death of the tracer resumes the tracee with the signal it
was stopped by.  `orphaned` is a history variable of this part: the tracer that
stopped the source was killed, and no detach has released the source since.

Seen by the orchestrator (`TeleporterCapt`, `TeleporterSrc`), parsing and attaching
are one state, everything under the lock another, and a source is `traced` while a
tracer holds it outside of a group stop.  A SIGSTOP that is pending without a
tracer counts as the stop it is about to cause, so that its delivery is no step.
Two details of `Teleporter` come from this refinement: a `resume` whose attach
comes before such a SIGSTOP is delivered does release the source, and a kill
stops the source also when another signal was the one that trapped it.

### Transport

The stream is a sequence of units: a byte is a digit in base `Base`, an integer
of the frame header two digits.  A failed write leaves any proper prefix of the
frame on the stream and the retry starts over behind it, as
`sendBlockWithRetry` does.  Frames are decoded from the units, so a receiver that
is out of step reads data as headers.  The checksum (xxhash of a page) is an
ordinary unit, given by a constant operator of which only the type is assumed
(`HashAssumption`): pages may collide, and the data of a page may hold a whole
valid block.  The handshake, which is not retried, is a variable of its own.  The
history variable `resent` tells whether some block was written again; two
properties hold only if it is FALSE, and `Transport_truncated` shows why.
Teleporter knows such retries as the fault `retry`, under which a receiver may
return early or not the whole snapshot (`buffered_cut`); `ImplementsTeleporter` is
stated with that fault from the moment a block was sent again, without it before.

### AddressSpace and Restorer

Addresses are pages, `start + size` wraps around at `Width`.  A page of the child
holds nothing, the stub, zeros or the bytes of a region.  `stubPage` is where the
stub executes: mapping over it makes the injected call fault.  An injection that
is cut short (`InjectionLost`) leaves the injected code, the registers of the
call, or both.  Descriptors are opened in the restorer and moved with `dup2` in
the child, whose descriptor table is the one at the fork.  `stray` is a stub that
`fork_stub` gave up: the end of the restorer ends its trace, and the signal that
stopped it kills it or lets it go on to its own SIGSTOP.  `FdRestorer` is modelled
from `fd_restore.rs`; the `FdType` enumeration and the `open_flags` field it uses
are not declared in `proto/wraith.proto`.

## 3. The runs

All runs set `CHECK_DEADLOCK FALSE`: the programs end.

| Run | Shows |
|---|---|
| `Teleporter_safety` | all fault kinds at once: type invariant, the commit comes after a successful restore, COMPLETE is exact, nothing is left behind, the transmitter has its file, a source left stopped by the death of its tracer is visible in the exception, exit statuses are honest, `_state` follows the diagram, no rollback after the commit, refinement of `Handoff`; even if every child hangs the trace ends, and nothing but a wait for the SSH server keeps `migrate()` from returning |
| `Fleet_safety` | three migrations to one port: a source is killed for its own copy unless the migrations overlapped in time, a snapshot is restored at most once, no image appears at a path after its restore, a migration is held up by its SSH calls only |
| `Capturer_safety` | a kill at any step and a stray signal: the snapshot is of one instant, no stop without a kill (if no stray signal came), the capturer and the source do what `Teleporter` allows them, a page that was left alone is wrong only if a neighbour it was listed with was touched, the restorer accepts the layout of whatever is saved, no endless trace |
| `Transport_safety` | a link that breaks anywhere, one retry per block on the same stream, snapshots of zero to three pages with contents that look like frames, one above the size limit: both sides end; if no block was sent again, the receiver stays in step, what is returned is what was sent and an error means nothing was accepted; both programs do what `Teleporter` allows them |
| `Restorer_all` | all faults, all lists of up to three regions over four starts and sizes 0, 1, 2 and one that wraps, and snapshots with descriptors: no child for an overlapping layout, a process let go is the snapshot unless a descriptor injection was cut short, after exit status 0 the copy was let go and after 1 or 2 no copy executes, no `dup2` replaces a descriptor of the copy, restorer and child do what `Teleporter` allows them, and the restorer ends |

Runs that refute what a comment or the documentation says (each is a finding in
`PROJECT.json`):

| Run | What is refuted |
|---|---|
| `Teleporter_lost_work` | "No data loss is possible before the commit point": the source runs on after the capture |
| `Teleporter_unfrozen` | "resumed automatically if anything fails": a source stopped by the kill of its tracer stays stopped in ROLLED_BACK |
| `Teleporter_split_brain` | RestoreError: "The restored process did not start": the restorer outlives the exec |
| `Teleporter_flag` | a fault-free migration completes: `--timeout 300` is not a Go duration |
| `Transport_truncated` | `AcceptSnapshot` "receives the full snapshot": not after a retry |
| `Capturer_stale_map` | "getting the map before attaching avoids a race where a new mapping appears mid-read": it is the reason the mapping is missed |
| `Restorer_orphan` | exit status 1: "no orphan process": an error of `fork_stub` after the fork leaves the stub behind |

Two further findings come out of `Restorer_all`, where the property that holds is
not what the documentation says:

* `NoForeignDescriptor` - no injected `dup2` ever puts anything in place
  (`restorer.rs:243`).  It runs in the child with a descriptor the restorer opened
  after the fork, fails with EBADF, and the failure is only logged.  That keeps
  the SSH channel out of the place of a file; it also means that no file is
  restored, and that `--strict-fds` ("Fail if any file descriptor cannot be
  restored") still exits 0.
* `ExitTellsChild` - after status 2 no copy executes, because `run()` has killed
  it; `bin/restorer.rs:16` says "process was started but may be degraded".  The
  rollback of the orchestrator needs the former.

### Further observations

The models also contain these behaviours, which the properties above exclude by
a premise:

* `client.go:126` - the transmitter is done once `MsgComplete` is written, and no
  acknowledgement tells that the file exists; the restorer may start before the
  receiver has written it (`bin/restorer.rs:3-4` says "after").
* `teleporter.py:272` - a receiver that nobody connected to keeps the port.  The
  next migration's receiver fails to bind, its snapshot goes to the path of the
  old one, its own path stays empty, and it fails at the restore, with an image
  left on the destination.  Two migrations under way at once can get each other's
  receiver: each restores the other's process and kills its own source, or one
  kills its source although its snapshot was never restored.  That is what the
  second alternative of `CommitIsOwn` allows.
* `capturer.rs:44` - the map is read before the attach and in pieces; a page that
  went away takes the whole region it was listed in out of the snapshot.
* `memory.rs`, `fd_enum.rs` - if the source is killed during the capture, reads of
  its memory fail region by region and its descriptor directory comes up short;
  both are skipped, and the capture can end with exit status 0 and part of a
  process in the file.
* `ptrace_ops.rs:47` - the status of `waitpid` is not looked at.  If another
  signal stops the source first, the SIGSTOP of the attach is still pending at
  the detach and stops the source afterwards.
* `server.go:159` with `teleporter.py:342` - a snapshot that arrived damaged behind
  a block sent again may still decode: the restorer reports success for what is
  left of the process, and the source is killed (fault `retry`).
* `restorer.rs:243` with `457-463` - an injection cut short does not put back the
  code and the registers; for `dup2` the error is only logged and the child is
  let go as it is (fault `signal`).
* `remote.py:140` - the timeout of `exec` bounds the silence between two receives
  and `recv_exit_status()` has none; the restored process inherits the descriptors
  of the channel.  A copy that keeps printing keeps `migrate()` waiting, and the
  source is then never retired (`HeldBySshOnly` allows it, see Fairness).
* `teleporter.py:172`, `remote.py:101` - Ctrl-C in the `finally` clause or in the
  close of the session gives exit status 1 for a migration that is COMPLETE or
  FAILED.  `ExitStatusIsHonest` says that only an interrupt does that.
* `server.go:120-137` - out of step, the receiver may find a whole block with the
  checksum it should have inside the data of a page, and copy it to the offset it
  names.  Nothing is claimed of the buffer once a block was sent again.

Seen while reading, and outside the models: the top-level checksum of the
snapshot is written as 0 and never compared; a read-only descriptor with
`O_APPEND` is reopened for reading and writing.

### Bounds

* `MaxWork` (Teleporter) bounds the work of the source: 1 in the passing run, so
  that it works before the capture or between capture and commit, and 2 where
  both matter.  No guard of the program depends on `work`.
* Fleet: three migrations, so that a receiver left behind by a migration that is
  over can meet two that are under way at the same time.  The migrations are not
  declared symmetric because liveness is checked in the same run.
* Capturer: `Width = 6` is four pages of user space and the page of `[vsyscall]`;
  `MaxSteps = 2` steps of the source, at most one stray signal.  Two steps are
  enough for a line that is split or merged between two reads of the map and then
  changed again before the attach.  The two address spaces of `MCCapturer` hold
  lines that can be split, gaps, the special mappings, and a page no read reaches.
* Transport: `Base = 8`, pages of two units, up to three pages, `MaxRetries = 1`
  and a size limit of 4.  The headers can be read out of step at every offset; a
  page can look like a header.
* Restorer: `Width = 16`, five user pages.  Three regions are the smallest number
  for which comparing neighbours could differ from comparing all pairs.

### Fairness

* `Teleporter.FairSpec`: weak fairness of the orchestrator outside of `SshWaits`.
  Python is scheduled, and every `subprocess.run` has a timeout after which it
  kills its child; nothing is assumed of the children.  The waits for the SSH
  server are left without fairness: the timeout of `exec` is one of inactivity,
  `recv_exit_status`, `exec_background` and `close` have none.  So the property is
  `HeldBySshOnly` and not that `migrate()` returns, which the code does not
  guarantee.  `TraceEnds` needs no SSH: capture and resume are local.
  `FairChildrenSpec`, used only to refute `FaultFreeCompletes`, adds the SSH calls
  and the children.
* `Fleet.FairSpec`: weak fairness of each orchestrator outside of its SSH calls,
  for the same reason; nothing is assumed of transmitters, receivers and
  interrupts.
* `Capturer`: the capturer is scheduled and the kernel delivers pending signals.
* `Transport`: both programs run; their deadlines are steps of theirs (a read or
  write that waits ends in an error).  `protocol.go:160` and `166` set a deadline
  only for a positive timeout, which the defaults of both programs are.
* `Restorer`: the restorer and the freshly forked stub are scheduled.

## 4. The proofs

`TeleporterProofs` proves, for every `MaxWork`, every set of faults and either
value of `TimeoutFlagParses`, every invariant of the run `Teleporter_safety`, the action properties and the refinement of `Handoff`.  The
properties are not inductive by themselves.  The invariant `IndInv` adds to them:

* `ControlInv` - which child can be alive at which `pc`;
* `StateInv` - the value of `_state` at each `pc`, also after an exception;
* `RestorerInv` - which states of restorer and restored process go together, and
  that a restorer exists only from `restore` on;
* `TracerInv` - a traced source has exactly one live capturer;
* `CommitInv` - what holds from the commit on: exit status 0 of the restorer, a
  process it set running;
* `SnapshotInv` - the local file is complete from a successful capture until the
  `finally` clause.

There is one step per action, and under it one per conjunct the action can
disturb.  The refinement proof maps each action to an action of `Handoff` or to a
stutter, using the invariant for `Retire`, `Succeed` and `Fail`.

`RestorerProofs` proves for every width and any number of regions that what
`AddressSpaceLayout::validate` accepts is pairwise disjoint, free of wrap-around
and inside user space (`ValidatedIsDisjoint`; the lemma `NeighboursSuffice` is
the point: neighbours of a list sorted by start are enough because no accepted
range is empty or wraps), and from it that the restorer forks no child for any
other snapshot (`NoForkForOverlap`).

`CopyExact` proves `CopyIsExact` for any number of regions and any faults.
`CopyInv` says how far the current region has come after each of mmap, write and
mprotect, and that the earlier regions are as they have to be; that a later
MAP_FIXED does not destroy an earlier region (`EarlierAreKept`) is where the
disjointness proved before is needed.  `ExitIsTruthful` proves `ExitTellsChild`:
`ExitInv` relates the child to the place where the restorer is.  `DescriptorsUntouched`
proves `NoForeignDescriptor`: what is opened is never a descriptor that was open at
the fork (`OpenedAfterFork`).  `TypeCorrect` adds
that the region counter stays within the snapshot (`ProgressInv`) and that the
lowest free descriptor always exists, because finitely many are in use.
`Refinement` proves `ImplementsTeleporter` from `ExitInv`: the place of the
restorer and the state of the child determine what the orchestrator sees
(`SeenInv`), and each step changes that as one abstract step does, or not at all.

`CapturerProofs` proves for every address space, descriptor table, set of signals
and number of steps that the capture is type correct (the lemmas about
`RetainDumped` and the lines of the maps file are needed for that), that it is
atomic (`CaptureIsAtomic`), that without a foreign signal the source is stopped
only while it is orphaned (`StopNeedsKill`), and `ImplementsTeleporter`
(`Refinement`).  The inductive invariant adds

* `LockInv` - from the registers to the detach the capturer is the tracer, and
  the source is in a ptrace-stop or dead, so none of its steps can happen;
* `QuietInv` - without foreign signals the only pending signal is the SIGSTOP of
  an attach, which is pending exactly until it has trapped the source, and a
  source that is not orphaned has none left;
* `StopInv` - with any signals, only a `resume` attaches to a process in a group
  stop, and the SIGSTOP of an attach is pending or has trapped the source for as
  long as the tracer lives: this is why the death of the tracer always stops it;
* `FreshInv` - nothing is in the buffers before the lock is held.

Each step is reduced to what it does to the kernel's view and to the place of the
capturer (`ControlView`); the invariants and the refinement are proved of those
few kinds of step.

`CapturerMapProofs` proves `OnlyTouchedIsWrong` (`RaceIsContained`) and
`CapturedIsRestorable` (`SnapshotIsRestorable`), for any number of pages and any
number of steps of the source between two reads of the map.  `MapInv` consists of

* `OrderInv` - the regions are ordered and disjoint, because each read starts at
  or behind the end of the last line, and what lies above user space is of the
  type that is never dumped;
* `LinesInv` - a page that was left alone has, in the region that covers it, the
  protection and the type it has now, and so do the other untouched pages there;
* `ListedInv` - every untouched mapped page below the cursor is covered;
* `DumpInv` - a region behind the dump loop has data, or is one to skip, or cannot
  be read;
* `VsyscallInv` - the pages above user space are those of `[vsyscall]`, which the
  initial spaces are assumed to satisfy (`VsyscallAssumption`, a fact about x86-64
  Linux).

A region that could not be read holds a page that went away, and the walk from
an untouched page to the nearest such page stays in one line (the second
alternative of `OnlyTouchedIsWrong`).

`TransportProofs` proves all four invariants of the run `Transport_safety` and its
refinement, for any snapshots, page size, base, number of retries and place where
the link breaks.
One argument carries it.  As long as no block was sent again, `SyncInv` says where
the two sides are relative to each other: the receiver has taken the first `r`
blocks, the blocks `r` to `blk - 1` stand whole at the front of the stream at
known positions, then at most a prefix of the next frame, and the buffer holds
the first `r` pages.

* `StaysInStep` - so whatever frame can be read at the front is block `r`, with its
  own offset and checksum, or the MsgComplete behind the last one; a prefix is
  never taken for a frame.  This holds for any checksum function and any contents
  of the pages.
* `ReceivedIsWhole`, `FailureIsUncommitted` - a MsgComplete is therefore read only
  behind the last block (`DoneInv`), which is also what `Refinement` rests on: the
  receiver returns only after the transmitter has completed.

Of a stream on which a block was sent again only the types, the end of both sides
and the steps of `Teleporter` under the fault `retry` are shown.

`FleetProofs` proves, for any number of migrations, type correctness,
`CommitIsOwn`, `RestoredOnce` and `NoImageAfterRestore`.  A snapshot can be in a
backlog, in a receiver, in a file or in a restored process.  `Held` says on which
migration's side of the port it is; the invariant says that it is on at most one
side (`OnceInv`), on none before its transmitter was started (`UnsentInv`), that
whoever holds another migration's snapshot has met it, or had ended before and
will not restore it (`HeldInv`, `MetInv`), and that a receiver is gone once its
file exists (`WrittenInv`).  The properties alone are not
inductive: a second copy could come from a connection that is still queued.

Only model-checked: liveness under fairness (`HeldBySshOnly`, `TraceEnds`,
`TraceIsReleased`, `TransferEnds`, `RestoreEnds`, `MigrationsMoveOn`), which is out
of the prover's reach.  The refinements are of steps: none of them shows that a
child gets anywhere.

Assumptions: the named ASSUMEs of the modules on their constants, which TLC
evaluates in the runs.  Taken from the code around the models: the data of a region
is as long as its `size_bytes` (`dump_region` writes it so, `restorer.rs:218` does
not compare), the timeouts of the transport are positive, and `waitpid` on a
process that the caller traces does not fail (`ptrace_ops.rs:47`).

## 5. What is not modelled

Message texts, logging, configuration parsing, the Protobuf and JSON encodings,
`wraith check`, `status` and `inspect` (they print), `upload`/`download`,
`find_safe_base` and `Analyze` (no migration calls them), `DirtyOffsets` after its
first call (a process makes one), FPU state, multi-threaded sources (the capturer
stops one thread only and says v1 is single-threaded), flags and offsets of the
reopened files.

The pre-flight checks appear by their outcome: every one of them looks at the
process or the destination once, nothing is reserved, and `migrate()` behaves the
same whichever of them failed.

PID reuse is listed as a hazard (`teleporter.py:377`) and has no property: with
it, SIGKILL goes to a stranger, and no model of this code could say otherwise.

## 6. Plan

Done: `Handoff`, `Teleporter`, `Fleet`, `Capturer`, `Transport`, `AddressSpace`,
`Restorer`, with the proofs above.

Every invariant and action property that a run checks is also proved.  Next, in
this order:

1. `Fleet` and `Teleporter` agree on one migration that is alone at its port, and
   `Fleet` with receivers that return early behind a block sent again.
2. `Delta` - `DirtyOffsets` over successive snapshots, once live migration calls
   it more than once.
