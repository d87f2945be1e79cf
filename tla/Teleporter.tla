----------------------------- MODULE Teleporter -----------------------------
(***************************************************************************)
(* One call of Teleporter.migrate() (wraith-control/wraith/teleporter.py)  *)
(* end to end: the Python orchestrator and the processes it drives, which  *)
(* run concurrently with it and with each other -                          *)
(*                                                                         *)
(*   source machine       wraith-capturer (capture, resume)                *)
(*                        wraith-transmitter                               *)
(*                        the source process                               *)
(*   destination machine  wraith-receiver (started in the background)      *)
(*                        wraith-restorer (run through SSH)                *)
(*                        the restored process                             *)
(*                                                                         *)
(* The orchestrator only learns what subprocess.run and session.exec tell  *)
(* it: an exit status, a timeout, an exception.  What the children do is   *)
(* reduced to the steps that change something another party can see; the   *)
(* ptrace protocol and the wire protocol have modules of their own         *)
(* (Capturer, Transport).                                                  *)
(***************************************************************************)
EXTENDS Naturals

CONSTANTS
    MaxWork,            \* bound on the units of work the source performs
    Faults,             \* the kinds of fault the environment may produce
    TimeoutFlagParses   \* does the transmitter binary accept the argument
                        \* "--timeout 300" (a number without a unit)?

FaultKinds ==
    { "ssh",        \* SSH connect, exec or channel failure
      "capturer",   \* wraith-capturer exits non-zero
      "deadline",   \* a child is still running when its timeout expires
      "bind",       \* receiver not bound 1.5 s after it was started, or never
      "network",    \* the transfer connection breaks
      "retry",      \* a block is sent again behind a part of itself
      "restorer",   \* wraith-restorer rejects the snapshot or fails midway
      "os",         \* OSError / PermissionError on the source machine
      "interrupt",  \* KeyboardInterrupt in the orchestrator
      "signal",     \* another signal reaches the source while it is attached
      "source",     \* the source process ends by itself
      "dest" }      \* the restored process ends by itself

ASSUME MaxWorkAssumption == MaxWork \in Nat
ASSUME FaultsAssumption == Faults \subseteq FaultKinds
ASSUME FlagAssumption == TimeoutFlagParses \in BOOLEAN

VARIABLES
    pc,      \* where migrate() is
    state,   \* Teleporter._state
    exc,     \* the exception in flight or raised, "none" if there is none
    opts,    \* verify_only, RestoreConfig.keep_snapshot, .strict_fds
    exit,    \* exit status of the `wraith migrate` command
    src,     \* the source process, as the kernel sees it
    work,    \* units of work the source process has done
    capt,    \* the wraith-capturer child
    image,   \* the value of work that the snapshot holds
    local,   \* the local snapshot file
    xmit,    \* the wraith-transmitter child
    rcv,     \* the wraith-receiver process on the destination
    remote,  \* the remote snapshot file
    rst,     \* the wraith-restorer process on the destination
    dst      \* the restored process

orchVars == <<pc, state, exc, opts, exit>>
srcVars  == <<src, work>>
captVars == <<capt, image, local>>
netVars  == <<xmit, rcv, remote>>
dstVars  == <<rst, dst>>
vars == <<orchVars, srcVars, captVars, netVars, dstVars>>

Locations ==
    { "connect", "preflight", "checks", "capture", "capture_wait",
      "transfer", "transfer_spawn", "transfer_wait", "restore",
      "restore_wait", "remove", "commit", "sigkill", "complete",
      "rollback", "resume", "rollback_wait", "cleanup", "close", "report",
      "done" }

MigrationState ==
    { "INIT", "PREFLIGHT", "CAPTURING", "TRANSFERRING", "RESTORING",
      "COMPLETE", "ROLLING_BACK", "ROLLED_BACK", "FAILED" }

\* ReceiverStartError is a TransferError; both are raised as "TransferError".
WraithErrors ==
    { "WraithError", "PreflightError", "CaptureError", "TransferError",
      "RestoreError", "RollbackError" }

\* Exceptions that no except clause of migrate() names.
OtherExceptions == { "OSError", "KeyboardInterrupt" }

Exceptions == {"none"} \cup WraithErrors \cup OtherExceptions

Options == [verify_only : BOOLEAN, keep_snapshot : BOOLEAN, strict_fds : BOOLEAN]

SrcStates ==
    { "running", "traced",
      "stopped", "paused",  \* group stop: its tracer died; a SIGSTOP came late
      "terminating",        \* SIGTERM delivered, still executing
      "exited", "killed" }  \* by itself; by _terminate_source
CaptStates ==
    { "none", "spawned", "attached", "detached",
      "resuming", "resume_attached", "ok", "error", "killed" }
XmitStates == {"none", "dialing", "sending", "ok", "error", "killed"}
RcvStates ==
    { "none", "starting", "listening", "receiving",
      "buffered", "buffered_cut",   \* all of the snapshot; cut short or damaged
      "writing", "writing_cut", "done", "failed" }
RstStates ==
    { "none", "loading",
      "building", "building_cut",   \* from a whole, from a truncated snapshot
      "reporting", "exit0", "exit1", "exit2" }
DstStates == {"none", "stub", "running", "exited", "killed"}

TypeOK ==
    /\ pc \in Locations
    /\ state \in MigrationState
    /\ exc \in Exceptions
    /\ opts \in Options
    /\ exit \in {"none", "0", "1", "3"}
    /\ src \in SrcStates
    /\ work \in 0..MaxWork
    /\ capt \in CaptStates
    /\ image \in 0..MaxWork
    /\ local \in {"none", "empty", "saved"}
    /\ xmit \in XmitStates
    /\ rcv \in RcvStates
    /\ remote \in {"none", "partial", "written"}
    /\ rst \in RstStates
    /\ dst \in DstStates

Init ==
    /\ pc = "connect"
    /\ state = "INIT"
    /\ exc = "none"
    /\ opts \in Options
    /\ exit = "none"
    /\ src = "running"
    /\ work = 0
    /\ capt = "none"
    /\ image = 0
    /\ local = "none"
    /\ xmit = "none"
    /\ rcv = "none"
    /\ remote = "none"
    /\ rst = "none"
    /\ dst = "none"

-----------------------------------------------------------------------------
(***************************************************************************)
(* Control of migrate().  A WraithError other than PreflightError reaches  *)
(* the handler that calls _rollback; an exception outside the Wraith       *)
(* family meets only the finally clause.                                   *)
(***************************************************************************)

Goto(l) == pc' = l /\ UNCHANGED <<state, exc, opts, exit>>

RaiseToRollback(e) ==
    /\ exc' = e
    /\ pc' = "rollback"
    /\ UNCHANGED <<state, opts, exit>>

RaiseUncaught(e) ==
    /\ exc' = e
    /\ pc' = "cleanup"
    /\ UNCHANGED <<state, opts, exit>>

\* `with RemoteSession(...)`: a failure in __enter__ is raised before the try.
Connect ==
    /\ pc = "connect"
    /\ \/ Goto("preflight")
       \/ /\ "ssh" \in Faults
          /\ exc' = "WraithError"
          /\ pc' = "report"
          /\ UNCHANGED <<state, opts, exit>>
    /\ UNCHANGED <<srcVars, captVars, netVars, dstVars>>

SrcAlive == src \in {"running", "traced", "stopped", "paused", "terminating"}

StartPreflight ==
    /\ pc = "preflight"
    /\ state' = "PREFLIGHT"
    /\ pc' = "checks"
    /\ UNCHANGED <<exc, opts, exit, srcVars, captVars, netVars, dstVars>>

\* run_all() reads /proc/<pid> and asks the destination; a pass describes the
\* process as it was during the checks.
PreflightPasses ==
    /\ pc = "checks"
    /\ SrcAlive
    /\ Goto("capture")
    /\ UNCHANGED <<srcVars, captVars, netVars, dstVars>>

PreflightFails ==
    /\ pc = "checks"
    /\ ~SrcAlive \/ "ssh" \in Faults \/ "os" \in Faults
    /\ state' = "ROLLED_BACK"
    /\ exc' = "PreflightError"
    /\ pc' = "cleanup"
    /\ UNCHANGED <<opts, exit, srcVars, captVars, netVars, dstVars>>

\* The permission check handles two kinds of OSError only.
PreflightRaises ==
    /\ pc = "checks"
    /\ "os" \in Faults
    /\ RaiseUncaught("OSError")
    /\ UNCHANGED <<srcVars, captVars, netVars, dstVars>>

-----------------------------------------------------------------------------
(***************************************************************************)
(* _run_capture.                                                           *)
(***************************************************************************)

RunCapture ==
    /\ pc = "capture"
    /\ state' = "CAPTURING"
    /\ local' = "empty"
    /\ capt' = "spawned"
    /\ pc' = "capture_wait"
    /\ UNCHANGED <<exc, opts, exit, image, srcVars, netVars, dstVars>>

\* mkstemp or the spawn raises an OSError that is not handled, or the capturer
\* binary is missing (CaptureError, the temporary file exists already).
RunCaptureFails ==
    /\ pc = "capture"
    /\ "os" \in Faults
    /\ state' = "CAPTURING"
    /\ \/ exc' = "OSError"      /\ pc' = "cleanup"  /\ local' \in {local, "empty"}
       \/ exc' = "CaptureError" /\ pc' = "rollback" /\ local' = "empty"
    /\ UNCHANGED <<opts, exit, capt, image, srcVars, netVars, dstVars>>

\* os.path.getsize follows a successful capture.
CaptureReturns ==
    /\ pc = "capture_wait"
    /\ \/ capt = "ok" /\ Goto("transfer")
       \/ capt = "ok" /\ "os" \in Faults /\ RaiseUncaught("OSError")
       \/ capt = "error" /\ RaiseToRollback("CaptureError")
    /\ UNCHANGED <<srcVars, captVars, netVars, dstVars>>

CapturerRunning ==
    capt \in {"spawned", "attached", "detached", "resuming", "resume_attached"}

\* subprocess.run kills the child with SIGKILL when it gives up.  The kernel
\* then restarts the tracee with the SIGSTOP it was stopped by: a process that
\* was traced ends up in a group stop (ptrace(2), "death under ptrace").
KillCapturer ==
    /\ capt' = "killed"
    /\ src' = IF src = "traced" THEN "stopped" ELSE src
    /\ UNCHANGED <<image, local, work>>

\* Mutant: gives up on the capturer without killing it.
CaptureTimeoutNoKill ==
    /\ pc = "capture_wait"
    /\ "deadline" \in Faults
    /\ CapturerRunning
    /\ RaiseToRollback("CaptureError")
    /\ UNCHANGED <<srcVars, captVars, netVars, dstVars>>

\* Mutant: subprocess.run without a timeout.
NoTimeout == FALSE

CaptureTimeout ==
    /\ pc = "capture_wait"
    /\ "deadline" \in Faults
    /\ CapturerRunning
    /\ KillCapturer
    /\ RaiseToRollback("CaptureError")
    /\ UNCHANGED <<netVars, dstVars>>

-----------------------------------------------------------------------------
(***************************************************************************)
(* wraith-capturer, the parts the rest of the system can observe.          *)
(***************************************************************************)

\* parse_maps and ProcessLock::attach.
CapturerAttach ==
    /\ capt = "spawned"
    /\ \/ /\ src = "running"
          /\ src' = "traced"
          /\ capt' = "attached"
       \/ /\ src # "running" \/ "capturer" \in Faults
          /\ capt' = "error"
          /\ UNCHANGED src
    /\ UNCHANGED <<work, image, local, orchVars, netVars, dstVars>>

\* PTRACE_DETACH without a signal.  When another signal stopped the process
\* first, the SIGSTOP of the attach is still pending and takes effect now (see
\* module Capturer).
AfterDetach ==
    IF src = "traced"
    THEN {"running"} \cup {s \in {"paused"} : "signal" \in Faults}
    ELSE {src}

\* Registers, memory and descriptors are read while the process is stopped;
\* dropping the lock detaches, on success and on error alike.
CapturerDump ==
    /\ capt = "attached"
    /\ src' \in AfterDetach
    /\ \/ /\ capt' = "detached"
          /\ image' = work
       \/ /\ src # "traced" \/ "capturer" \in Faults
          /\ capt' = "error"
          /\ UNCHANGED image
    /\ UNCHANGED <<work, local, orchVars, netVars, dstVars>>

\* Capturer::save.
CapturerSave ==
    /\ capt = "detached"
    /\ \/ capt' = "ok" /\ local' = "saved"
       \/ "capturer" \in Faults /\ capt' = "error" /\ UNCHANGED local
    /\ UNCHANGED <<image, srcVars, orchVars, netVars, dstVars>>

\* `wraith-capturer resume` is attach followed by detach.  Attaching to a
\* process in a group stop leaves the group stop in effect; a SIGSTOP that has
\* not been delivered yet is taken for the one of this attach.
ResumeAttach ==
    /\ capt = "resuming"
    /\ \/ /\ src \in {"running", "stopped", "paused"}
          /\ src' \in IF src = "running" THEN {"traced"} ELSE {src, "traced"}
          /\ capt' = "resume_attached"
       \/ /\ src \notin {"running", "stopped", "paused"} \/ "capturer" \in Faults
          /\ capt' = "error"
          /\ UNCHANGED src
    /\ UNCHANGED <<work, image, local, orchVars, netVars, dstVars>>

\* detach(None): no signal is injected and no SIGCONT is sent.
ResumeDetach ==
    /\ capt = "resume_attached"
    /\ src' \in AfterDetach
    /\ \/ SrcAlive /\ capt' = "ok"
       \/ ~SrcAlive /\ capt' = "error"
    /\ UNCHANGED <<work, image, local, orchVars, netVars, dstVars>>

-----------------------------------------------------------------------------
(***************************************************************************)
(* _run_transfer, the transmitter and the receiver.                        *)
(***************************************************************************)

StartReceiver ==
    /\ pc = "transfer"
    /\ state' = "TRANSFERRING"
    /\ \/ /\ rcv' = "starting"
          /\ pc' = "transfer_spawn"
          /\ UNCHANGED exc
       \/ /\ "ssh" \in Faults           \* exec_background raises: the command
          /\ rcv' \in {rcv, "starting"} \* may have reached the destination
          /\ exc' = "TransferError"
          /\ pc' = "rollback"
    /\ UNCHANGED <<opts, exit, xmit, remote, srcVars, captVars, dstVars>>

\* After time.sleep(1.5).  Go's flag package exits with status 2 when it
\* cannot parse an argument.
RunTransmitter ==
    /\ pc = "transfer_spawn"
    /\ rcv # "starting" \/ "bind" \in Faults
    /\ xmit' = IF TimeoutFlagParses THEN "dialing" ELSE "error"
    /\ Goto("transfer_wait")
    /\ UNCHANGED <<rcv, remote, srcVars, captVars, dstVars>>

RunTransmitterFails ==
    /\ pc = "transfer_spawn"
    /\ "os" \in Faults
    /\ \/ RaiseToRollback("TransferError")   \* FileNotFoundError
       \/ RaiseUncaught("OSError")           \* any other OSError
    /\ UNCHANGED <<srcVars, captVars, netVars, dstVars>>

\* Mutant: commits as soon as the transmitter has exited.
TransferReturnsCommits ==
    /\ pc = "transfer_wait"
    /\ \/ xmit = "ok" /\ Goto("commit")
       \/ xmit = "error" /\ RaiseToRollback("TransferError")
    /\ UNCHANGED <<srcVars, captVars, netVars, dstVars>>

TransferReturns ==
    /\ pc = "transfer_wait"
    /\ \/ xmit = "ok" /\ Goto("restore")
       \/ xmit = "error" /\ RaiseToRollback("TransferError")
    /\ UNCHANGED <<srcVars, captVars, netVars, dstVars>>

TransmitterRunning == xmit \in {"dialing", "sending"}

\* Mutant: gives up on the transmitter without killing it.
TransferTimeoutNoKill ==
    /\ pc = "transfer_wait"
    /\ "deadline" \in Faults
    /\ TransmitterRunning
    /\ RaiseToRollback("TransferError")
    /\ UNCHANGED <<srcVars, captVars, netVars, dstVars>>

TransferTimeout ==
    /\ pc = "transfer_wait"
    /\ "deadline" \in Faults
    /\ TransmitterRunning
    /\ xmit' = "killed"
    /\ RaiseToRollback("TransferError")
    /\ UNCHANGED <<rcv, remote, srcVars, captVars, dstVars>>

\* NewTransmitter and the Handshake/ReadyAck exchange.
TransmitterConnects ==
    /\ xmit = "dialing"
    /\ rcv = "listening"
    /\ xmit' = "sending"
    /\ rcv' = "receiving"
    /\ UNCHANGED <<remote, orchVars, srcVars, captVars, dstVars>>

TransmitterFails ==
    /\ \/ xmit = "dialing" /\ (rcv # "listening" \/ "network" \in Faults)
       \/ xmit = "sending" /\ (rcv = "failed" \/ "network" \in Faults)
    /\ xmit' = "error"
    /\ UNCHANGED <<rcv, remote, orchVars, srcVars, captVars, dstVars>>

\* SendSnapshot returns once MsgComplete is handed to the socket; no
\* acknowledgement is awaited.
TransmitterCompletes ==
    /\ xmit = "sending"
    /\ xmit' = "ok"
    /\ UNCHANGED <<rcv, remote, orchVars, srcVars, captVars, dstVars>>

ReceiverBinds ==
    /\ rcv = "starting"
    /\ \/ rcv' = "listening"
       \/ "bind" \in Faults /\ rcv' = "failed"
    /\ UNCHANGED <<xmit, remote, orchVars, srcVars, captVars, dstVars>>

\* AcceptSnapshot returns the buffer after MsgComplete.  Behind a block that was
\* sent again it may take page data for MsgComplete, or may have skipped blocks,
\* and does not notice (see module Transport).
ReceiverReturns ==
    /\ rcv = "receiving"
    /\ \/ xmit = "ok" /\ rcv' = "buffered"
       \/ "retry" \in Faults /\ rcv' \in {"buffered", "buffered_cut"}
    /\ UNCHANGED <<xmit, remote, orchVars, srcVars, captVars, dstVars>>

\* os.WriteFile creates the file, then fills it.  The file may have been
\* unlinked in between.
ReceiverWrites ==
    /\ \/ rcv = "buffered" /\ rcv' = "writing" /\ remote' = "partial"
       \/ rcv = "buffered_cut" /\ rcv' = "writing_cut" /\ remote' = "partial"
       \/ rcv = "writing_cut" /\ rcv' = "done" /\ UNCHANGED remote
       \/ /\ rcv = "writing"
          /\ rcv' = "done"
          /\ remote' = IF remote = "none" THEN "none" ELSE "written"
    /\ UNCHANGED <<xmit, orchVars, srcVars, captVars, dstVars>>

\* A broken stream, the end of it before MsgComplete, or a failed write.
ReceiverFails ==
    /\ \/ rcv = "receiving" /\ (xmit \in {"error", "killed"} \/ "network" \in Faults)
       \/ /\ rcv \in {"buffered", "buffered_cut", "writing", "writing_cut"}
          /\ "os" \in Faults
    /\ rcv' = "failed"
    /\ UNCHANGED <<xmit, remote, orchVars, srcVars, captVars, dstVars>>

-----------------------------------------------------------------------------
(***************************************************************************)
(* _run_restore and wraith-restorer.                                       *)
(***************************************************************************)

\* Mutant: forgets _transition(RESTORING).
RunRestoreNoTransition ==
    /\ pc = "restore"
    /\ rst' = "loading"
    /\ Goto("restore_wait")
    /\ UNCHANGED <<dst, srcVars, captVars, netVars>>

RunRestore ==
    /\ pc = "restore"
    /\ state' = "RESTORING"
    /\ rst' = "loading"
    /\ pc' = "restore_wait"
    /\ UNCHANGED <<exc, opts, exit, dst, srcVars, captVars, netVars>>

\* Capturer::load, ProcessRestorer::validate and fork_stub.  A file that is
\* still being written may decode, with the tail missing.
RestorerLoads ==
    /\ rst = "loading"
    /\ remote # "none"
    /\ rst' = IF remote = "written" THEN "building" ELSE "building_cut"
    /\ dst' = "stub"
    /\ UNCHANGED <<orchVars, srcVars, captVars, netVars>>

\* The error path of fork_stub does not reach the kill in restore().
RestorerRejects ==
    /\ rst = "loading"
    /\ remote # "written" \/ "restorer" \in Faults
    /\ rst' = "exit1"
    /\ \/ UNCHANGED dst
       \/ remote # "none" /\ "restorer" \in Faults /\ dst' = "stub"
    /\ UNCHANGED <<orchVars, srcVars, captVars, netVars>>

\* restore_inner ends with the detach that sets the process running.
RestorerDetaches ==
    /\ rst \in {"building", "building_cut"}
    /\ rst' = "reporting"
    /\ dst' = "running"
    /\ UNCHANGED <<orchVars, srcVars, captVars, netVars>>

RestorerAborts ==
    /\ \/ rst = "building_cut"
       \/ rst = "building" /\ "restorer" \in Faults
    /\ rst' = "exit1"
    /\ dst' = "none"
    /\ UNCHANGED <<orchVars, srcVars, captVars, netVars>>

\* run() after restore(): with --strict-fds and failed descriptors the process,
\* which already runs, is killed.
RestorerReports ==
    /\ rst = "reporting"
    /\ \/ rst' = "exit0" /\ UNCHANGED dst
       \/ /\ opts.strict_fds
          /\ "restorer" \in Faults
          /\ rst' = "exit2"
          /\ dst' = IF dst = "running" THEN "killed" ELSE dst
    /\ UNCHANGED <<orchVars, srcVars, captVars, netVars>>

\* println! panics when the SSH channel behind stdout is gone.
RestorerPanics ==
    /\ rst = "reporting"
    /\ pc # "restore_wait"
    /\ rst' = "exit1"
    /\ UNCHANGED <<dst, orchVars, srcVars, captVars, netVars>>

\* Mutant: the exit status of the restorer is not looked at.
ExecReturnsUnchecked ==
    /\ pc = "restore_wait"
    /\ rst \in {"exit0", "exit1", "exit2"}
    /\ Goto("commit")
    /\ UNCHANGED <<srcVars, captVars, netVars, dstVars>>

ExecReturns ==
    /\ pc = "restore_wait"
    /\ \/ rst = "exit0" /\ Goto(IF opts.keep_snapshot THEN "commit" ELSE "remove")
       \/ rst \in {"exit1", "exit2"} /\ RaiseToRollback("RestoreError")
    /\ UNCHANGED <<srcVars, captVars, netVars, dstVars>>

\* The read times out or the channel breaks.  The restorer is not told.
ExecFails ==
    /\ pc = "restore_wait"
    /\ "ssh" \in Faults \/ "deadline" \in Faults
    /\ RaiseToRollback("RestoreError")
    /\ UNCHANGED <<srcVars, captVars, netVars, dstVars>>

RemoveRemoteSnapshot ==
    /\ pc = "remove"
    /\ \/ remote' = "none"
       \/ "ssh" \in Faults /\ UNCHANGED remote
    /\ Goto("commit")
    /\ UNCHANGED <<xmit, rcv, srcVars, captVars, dstVars>>

-----------------------------------------------------------------------------
(***************************************************************************)
(* _terminate_source: the commit point.                                    *)
(***************************************************************************)

\* Mutant: verify_only is ignored.
TerminateSourceAlways ==
    /\ pc = "commit"
    /\ IF ~SrcAlive
       THEN Goto("complete") /\ UNCHANGED src
       ELSE /\ Goto("sigkill")
            /\ src' = IF src = "running" THEN "terminating" ELSE src
    /\ UNCHANGED <<work, captVars, netVars, dstVars>>

\* SIGTERM, or nothing when verify_only is set or the process is gone.
TerminateSource ==
    /\ pc = "commit"
    /\ IF opts.verify_only \/ ~SrcAlive
       THEN Goto("complete") /\ UNCHANGED src
       ELSE /\ Goto("sigkill")
            /\ src' = IF src = "running" THEN "terminating" ELSE src
    /\ UNCHANGED <<work, captVars, netVars, dstVars>>

\* os.kill raises PermissionError, which nothing on the way catches.
TerminateDenied ==
    /\ pc = "commit"
    /\ "os" \in Faults
    /\ ~opts.verify_only
    /\ SrcAlive
    /\ RaiseUncaught("OSError")
    /\ UNCHANGED <<srcVars, captVars, netVars, dstVars>>

\* Mutant: an error of the second os.kill is raised as a WraithError.
KillSourceRaises ==
    /\ pc = "sigkill"
    /\ src' = IF SrcAlive THEN "killed" ELSE src
    /\ Goto("complete") \/ RaiseToRollback("WraithError")
    /\ UNCHANGED <<work, captVars, netVars, dstVars>>

\* SIGKILL after half a second.  A ProcessLookupError is ignored, any other
\* OSError is not.
KillSource ==
    /\ pc = "sigkill"
    /\ \/ /\ src' = (IF SrcAlive THEN "killed" ELSE src)
          /\ Goto("complete")
       \/ /\ SrcAlive
          /\ "os" \in Faults
          /\ RaiseUncaught("OSError")
          /\ UNCHANGED src
    /\ UNCHANGED <<work, captVars, netVars, dstVars>>

Complete ==
    /\ pc = "complete"
    /\ state' = "COMPLETE"
    /\ pc' = "cleanup"
    /\ UNCHANGED <<exc, opts, exit, srcVars, captVars, netVars, dstVars>>

-----------------------------------------------------------------------------
(***************************************************************************)
(* _rollback, the finally clause, and the exit status of the CLI.          *)
(***************************************************************************)

Rollback ==
    /\ pc = "rollback"
    /\ state' = "ROLLING_BACK"
    /\ pc' = "resume"
    /\ UNCHANGED <<exc, opts, exit, srcVars, captVars, netVars, dstVars>>

\* Mutant: the original exception is raised instead of RollbackError.
RollbackFailedReraises ==
    /\ state' = "FAILED"
    /\ pc' = "cleanup"
    /\ UNCHANGED <<exc, opts, exit>>

RollbackFailed ==
    /\ state' = "FAILED"
    /\ exc' = "RollbackError"
    /\ pc' = "cleanup"
    /\ UNCHANGED <<opts, exit>>

RunResume ==
    /\ pc = "resume"
    /\ \/ capt' = "resuming" /\ Goto("rollback_wait")
       \/ "os" \in Faults /\ RollbackFailed /\ UNCHANGED capt
    /\ UNCHANGED <<image, local, srcVars, netVars, dstVars>>

RollbackReturns ==
    /\ pc = "rollback_wait"
    /\ \/ /\ capt = "ok"
          /\ state' = "ROLLED_BACK"
          /\ pc' = "cleanup"
          /\ UNCHANGED <<exc, opts, exit>>
       \/ capt = "error" /\ RollbackFailed
    /\ UNCHANGED <<srcVars, captVars, netVars, dstVars>>

\* Mutant: a resume that timed out counts as done.
RollbackTimeoutIgnored ==
    /\ pc = "rollback_wait"
    /\ "deadline" \in Faults
    /\ CapturerRunning
    /\ KillCapturer
    /\ state' = "ROLLED_BACK"
    /\ pc' = "cleanup"
    /\ UNCHANGED <<exc, opts, exit, netVars, dstVars>>

RollbackTimeout ==
    /\ pc = "rollback_wait"
    /\ "deadline" \in Faults
    /\ CapturerRunning
    /\ KillCapturer
    /\ RollbackFailed
    /\ UNCHANGED <<netVars, dstVars>>

\* _cleanup_snapshot, in the finally clause.
CleanupSnapshot ==
    /\ pc = "cleanup"
    /\ \/ local' = "none"
       \/ "os" \in Faults /\ UNCHANGED local
    /\ Goto("close")
    /\ UNCHANGED <<capt, image, srcVars, netVars, dstVars>>

\* __exit__ of the session closes the SSH connection and swallows every
\* Exception of the close.
CloseSession ==
    /\ pc = "close"
    /\ Goto("report")
    /\ UNCHANGED <<srcVars, captVars, netVars, dstVars>>

\* Mutant: only Wraith's own exceptions are given an exit status.
ExitStatusPartial(e) ==
    IF e = "none" THEN "0" ELSE IF e \in WraithErrors THEN "1" ELSE "traceback"

ExitStatus(e) ==
    IF e = "none" THEN "0" ELSE IF e = "RollbackError" THEN "3" ELSE "1"

\* `wraith migrate` prints its verdict and exits.
CliReports ==
    /\ pc = "report"
    /\ exit' = ExitStatus(exc)
    /\ pc' = "done"
    /\ UNCHANGED <<state, exc, opts, srcVars, captVars, netVars, dstVars>>

\* KeyboardInterrupt, at any point of the command: subprocess.run kills the
\* child it waits for and no except clause on the way matches (they name
\* Exception at most), in _rollback, in the finally clause, in the close of
\* the session and while the verdict is printed as elsewhere.
Interrupt ==
    /\ "interrupt" \in Faults
    /\ pc # "done"
    /\ exc' = "KeyboardInterrupt"
    /\ pc' = CASE pc \in {"connect", "close", "report"} -> "report"
                [] pc = "cleanup" -> "close"
                [] OTHER -> "cleanup"
    /\ IF CapturerRunning THEN KillCapturer ELSE UNCHANGED <<srcVars, captVars>>
    /\ xmit' = IF TransmitterRunning THEN "killed" ELSE xmit
    /\ UNCHANGED <<state, opts, exit, rcv, remote, dstVars>>

-----------------------------------------------------------------------------
(***************************************************************************)
(* The two copies of the process.                                          *)
(***************************************************************************)

SourceWorks ==
    /\ src \in {"running", "terminating"}
    /\ work < MaxWork
    /\ work' = work + 1
    /\ UNCHANGED <<src, orchVars, captVars, netVars, dstVars>>

SourceExits ==
    /\ "source" \in Faults
    /\ src \in {"running", "traced", "stopped", "paused"}
    /\ src' = "exited"
    /\ UNCHANGED <<work, orchVars, captVars, netVars, dstVars>>

SourceObeysTerm ==
    /\ src = "terminating"
    /\ src' = "killed"
    /\ UNCHANGED <<work, orchVars, captVars, netVars, dstVars>>

CopyExits ==
    /\ "dest" \in Faults
    /\ dst = "running"
    /\ dst' = "exited"
    /\ UNCHANGED <<rst, orchVars, srcVars, captVars, netVars>>

-----------------------------------------------------------------------------
\* The steps the orchestrator takes by itself, its timeouts among them.
Orchestrate ==
    \/ Connect
    \/ StartPreflight
    \/ PreflightPasses
    \/ PreflightFails
    \/ PreflightRaises
    \/ RunCapture
    \/ RunCaptureFails
    \/ CaptureReturns
    \/ CaptureTimeout
    \/ StartReceiver
    \/ RunTransmitter
    \/ RunTransmitterFails
    \/ TransferReturns
    \/ TransferTimeout
    \/ RunRestore
    \/ ExecReturns
    \/ ExecFails
    \/ RemoveRemoteSnapshot
    \/ TerminateSource
    \/ TerminateDenied
    \/ KillSource
    \/ Complete
    \/ Rollback
    \/ RunResume
    \/ RollbackReturns
    \/ RollbackTimeout
    \/ CleanupSnapshot
    \/ CloseSession
    \/ CliReports

CapturerStep ==
    \/ CapturerAttach
    \/ CapturerDump
    \/ CapturerSave
    \/ ResumeAttach
    \/ ResumeDetach

TransmitterStep ==
    \/ TransmitterConnects
    \/ TransmitterFails
    \/ TransmitterCompletes

ReceiverStep ==
    \/ ReceiverBinds
    \/ ReceiverReturns
    \/ ReceiverWrites
    \/ ReceiverFails

RestorerStep ==
    \/ RestorerLoads
    \/ RestorerRejects
    \/ RestorerDetaches
    \/ RestorerAborts
    \/ RestorerReports
    \/ RestorerPanics

Environment ==
    \/ Interrupt
    \/ SourceWorks
    \/ SourceExits
    \/ SourceObeysTerm
    \/ CopyExits

Next ==
    \/ Orchestrate
    \/ CapturerStep
    \/ TransmitterStep
    \/ ReceiverStep
    \/ RestorerStep
    \/ Environment

Spec == Init /\ [][Next]_vars

\* Where migrate() waits for the other end of the SSH connection with nothing
\* that bounds the whole wait: the timeout of exec() limits the silence between
\* two receives, recv_exit_status(), exec_background() and close() have none,
\* and the restored process inherits the descriptors of the channel.
SshWaits == {"checks", "transfer", "restore_wait", "remove", "close"}

\* The Python interpreter is scheduled and the timeouts of subprocess.run fire;
\* nothing is assumed of the children or of the waits in SSH.
FairSpec == Spec /\ WF_vars(pc \notin SshWaits /\ Orchestrate)

\* A kinder environment: calls through SSH return and every child that can make
\* a step makes it.
FairChildrenSpec ==
    /\ Spec
    /\ WF_vars(Orchestrate)
    /\ WF_vars(CapturerStep)
    /\ WF_vars(TransmitterStep)
    /\ WF_vars(ReceiverStep)
    /\ WF_vars(RestorerStep)
-----------------------------------------------------------------------------
(***************************************************************************)
(* Safety.                                                                 *)
(***************************************************************************)

\* Whoever holds a copy: once Wraith has sent the source a signal, a restorer
\* has reported exit status 0 for a process it set running, the caller did not
\* ask for verify_only, and no Wraith error is (or will be) reported: the error
\* path never meets a source that _terminate_source has touched.
CommitAfterRestore ==
    src \in {"terminating", "killed"} =>
        /\ rst = "exit0"
        /\ dst \in {"running", "exited"}
        /\ ~opts.verify_only
        /\ exc \notin WraithErrors

\* A COMPLETE migration moved the process (or, with verify_only, duplicated
\* it): the copy was started, the source is gone when the caller asked for
\* that, and it was neither signalled nor left traced when it is kept.  An
\* interrupt after the transition changes the exit status and nothing of this.
CompleteIsExact ==
    state = "COMPLETE" =>
        /\ dst \in {"running", "exited"}
        /\ IF opts.verify_only
           THEN src \in {"running", "stopped", "paused", "exited"}
           ELSE src \in {"killed", "exited"}

\* When the command has ended no tracer is left behind: the source is not in
\* ptrace-stop and no wraith-capturer or wraith-transmitter is running, on any
\* path through timeouts, interrupts and failed rollbacks.
NoChildLeftBehind ==
    pc \in {"close", "report", "done"} =>
        /\ src # "traced"
        /\ ~CapturerRunning
        /\ ~TransmitterRunning

\* A source left in a group stop because its tracer was killed is visible to
\* the caller as a failed capture, a failed rollback or an interrupt; it never
\* hides behind a transfer or restore error or a successful migration.  (A
\* signal that races with the attach can pause it silently: module Capturer.)
StoppedIsReported ==
    src = "stopped" =>
        exc \in {"CaptureError", "RollbackError", "KeyboardInterrupt"}

\* The local snapshot is there, complete, for as long as a transmitter may
\* read it: no path unlinks the temporary file under a running transmitter and
\* none starts a transmitter on a file the capturer has not finished.
TransmitterHasSnapshot ==
    TransmitterRunning => local = "saved"

\* What the exit status of `wraith migrate` tells an operator: 0 only after
\* COMPLETE, 3 only after FAILED; a finished or failed migration hides behind
\* status 1 only when it was interrupted; and a Wraith error with status 1 is
\* never one whose rollback failed ("has been unfrozen (rolled back)").
ExitStatusIsHonest ==
    pc = "done" =>
        /\ exit = "0" => state = "COMPLETE"
        /\ exit = "3" => state = "FAILED"
        /\ exit = "1" /\ state \in {"COMPLETE", "FAILED"} =>
               exc = "KeyboardInterrupt"
        /\ exit = "1" /\ exc \in WraithErrors => state \in {"INIT", "ROLLED_BACK"}

\* The states are left along the diagram at the head of teleporter.py only
\* (PREFLIGHT -> ROLLED_BACK is the handler of PreflightError), and the three
\* final states are never left.
StateEdges ==
    { <<"INIT", "PREFLIGHT">>, <<"PREFLIGHT", "CAPTURING">>,
      <<"CAPTURING", "TRANSFERRING">>, <<"TRANSFERRING", "RESTORING">>,
      <<"RESTORING", "COMPLETE">>, <<"PREFLIGHT", "ROLLED_BACK">>,
      <<"CAPTURING", "ROLLING_BACK">>, <<"TRANSFERRING", "ROLLING_BACK">>,
      <<"RESTORING", "ROLLING_BACK">>, <<"ROLLING_BACK", "ROLLED_BACK">>,
      <<"ROLLING_BACK", "FAILED">> }

StateMachine == [][state' # state => <<state, state'>> \in StateEdges]_vars

\* Once Wraith has retired the source or completed, rollback is over: no step
\* of a `resume` (attach, detach) ever touches a process after the commit.
NoResumeAfterCommit ==
    [][(src \in {"terminating", "killed"}) => capt' = capt]_vars

(***************************************************************************)
(* Liveness, under FairSpec: fairness of the orchestrator alone.           *)
(***************************************************************************)

\* Only the SSH connection can hold the command up: however its local children
\* hang and whatever was interrupted or rolled back, it ends or stays for ever
\* in one of SshWaits.
HeldBySshOnly == <>[](pc \in SshWaits \cup {"done"})

\* The source does not stay in ptrace-stop.
TraceEnds == (src = "traced") ~> (src # "traced")

(***************************************************************************)
(* Refinement of Handoff.                                                  *)
(***************************************************************************)

HandoffSource ==
    IF src = "exited" THEN "left" ELSE IF src = "killed" THEN "retired" ELSE "present"

HandoffCopy ==
    IF dst \in {"none", "stub"} THEN "absent" ELSE IF dst = "running" THEN "live" ELSE "ended"

\* The verdict is the exit of the command: an interrupt can overtake the
\* exception or the result of migrate() until then.
HandoffVerdict ==
    IF pc # "done" THEN "open"
    ELSE IF exc = "none" THEN "success"
    ELSE IF exc \in WraithErrors THEN "failure" ELSE "aborted"

H == INSTANCE Handoff WITH
        source <- HandoffSource, copy <- HandoffCopy, verdict <- HandoffVerdict

\* migrate() with all its children implements the hand-over promise.
ImplementsHandoff == H!Spec

(***************************************************************************)
(* What the documentation says of the program and the code does not do.    *)
(***************************************************************************)

\* README.md: the source "stays in `ptrace` STOP state" until the destination
\* reports success and "No data loss is possible before the commit": what the
\* source had done when it was killed is what the snapshot holds.
NoWorkLost == src = "killed" => work = image

\* cli.py: "resumed automatically if anything fails (rollback is guaranteed)":
\* a migration that ends ROLLED_BACK leaves the source neither traced nor
\* stopped.
RolledBackIsUnfrozen ==
    state = "ROLLED_BACK" => src \notin {"traced", "stopped", "paused"}

\* exceptions.py, RestoreError: "The restored process did not start."
RestoreErrorMeansNoCopy ==
    (pc = "done" /\ exc = "RestoreError") => dst # "running"

\* With no fault in the environment a migration ends in COMPLETE.
FaultFreeCompletes == <>(state = "COMPLETE")
=============================================================================
