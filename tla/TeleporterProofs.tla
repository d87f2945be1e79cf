-------------------------- MODULE TeleporterProofs --------------------------
(***************************************************************************)
(* Proofs about Teleporter, for every MaxWork, every set of faults and     *)
(* either transmitter.  IndInv is the inductive invariant; the properties  *)
(* that the model checker also checks follow from it.                      *)
(***************************************************************************)
EXTENDS Teleporter, TLAPS

\* Locations of migrate() before the restorer is started, after it reported
\* success, in _rollback, and from the finally clause on.
Early == { "connect", "preflight", "checks", "capture", "capture_wait",
           "transfer", "transfer_spawn", "transfer_wait", "restore" }
Post  == {"remove", "commit", "sigkill", "complete"}
Undo  == {"rollback", "resume", "rollback_wait"}
Final == {"cleanup", "close", "report", "done"}

\* Where the control is tells which exceptions can be in flight, and from the
\* finally clause on the exception tells the state, unless an interrupt took
\* its place.
ControlInv ==
    /\ pc \in Early \cup {"restore_wait"} \cup Post => exc = "none"
    /\ pc \in Undo => exc \in WraithErrors \ {"RollbackError"}
    /\ pc \in Final =>
          /\ exc = "none" => state = "COMPLETE"
          /\ exc = "RollbackError" => state = "FAILED"
          /\ exc \in WraithErrors \ {"RollbackError"} =>
                state \in {"INIT", "ROLLED_BACK"}
          /\ exc = "OSError" => state \notin {"COMPLETE", "FAILED"}
    /\ pc \notin Final => state \notin {"COMPLETE", "FAILED", "ROLLED_BACK"}
    /\ pc = "done" => exit = ExitStatus(exc)

\* The value of _state at each location.
StateInv ==
    /\ pc \in {"connect", "preflight"} => state = "INIT"
    /\ pc \in {"checks", "capture"} => state = "PREFLIGHT"
    /\ pc \in {"capture_wait", "transfer"} => state = "CAPTURING"
    /\ pc \in {"transfer_spawn", "transfer_wait", "restore"} => state = "TRANSFERRING"
    /\ pc \in {"restore_wait"} \cup Post => state = "RESTORING"
    /\ pc = "rollback" => state \in {"CAPTURING", "TRANSFERRING", "RESTORING"}
    /\ pc \in {"resume", "rollback_wait"} => state = "ROLLING_BACK"

\* A copy exists only on the far side of a restorer, and an exit status of 0
\* stands for a copy that was set running.
RestorerInv ==
    /\ pc \in Early => rst = "none"
    /\ pc \in Post => rst = "exit0"
    /\ rst \in {"none", "loading"} => dst = "none"
    /\ rst \in {"building", "building_cut"} => dst = "stub"
    /\ rst \in {"reporting", "exit0"} => dst \in {"running", "exited"}

\* The source is traced only under a live capturer, which lives only while
\* migrate() waits for it; a stopped source has an error to its name.
TracerInv ==
    /\ src = "traced" => capt \in {"attached", "resume_attached"}
    /\ capt \in {"spawned", "attached", "detached"} => pc = "capture_wait"
    /\ capt \in {"resuming", "resume_attached"} => pc = "rollback_wait"
    /\ src = "stopped" =>
          exc \in {"CaptureError", "RollbackError", "KeyboardInterrupt"}

\* Signals reach the source from "commit" on only, and what they did is
\* settled when "complete" is reached.
CommitInv ==
    /\ src \in {"terminating", "killed"} =>
          /\ pc \in {"sigkill", "complete"} \cup Final
          /\ rst = "exit0"
          /\ ~opts.verify_only
          /\ exc \in {"none"} \cup OtherExceptions
    /\ pc = "sigkill" => ~opts.verify_only
    /\ pc = "complete" \/ state = "COMPLETE" =>
          /\ rst = "exit0"
          /\ IF opts.verify_only THEN src \in {"running", "stopped", "paused", "exited"}
                                 ELSE src \in {"killed", "exited"}

\* The snapshot is complete from the capturer's success to the cleanup.
SnapshotInv ==
    /\ pc = "capture_wait" /\ capt = "ok" => local = "saved"
    /\ pc \in {"transfer", "transfer_spawn", "transfer_wait"} => local = "saved"
    /\ TransmitterRunning => pc = "transfer_wait"

IndInv ==
    /\ TypeOK
    /\ ControlInv
    /\ StateInv
    /\ RestorerInv
    /\ TracerInv
    /\ CommitInv
    /\ SnapshotInv

\* IndInv survives a step of the orchestrator.
LEMMA OrchestratePreserves == IndInv /\ Orchestrate => IndInv'
<1> SUFFICES ASSUME IndInv, Orchestrate PROVE IndInv'
    OBVIOUS
<1> USE MaxWorkAssumption DEF IndInv, TypeOK, ControlInv, StateInv, RestorerInv,
        ExitStatus, TracerInv, CommitInv, SnapshotInv, Early, Post, Undo, Final, Locations,
        MigrationState, WraithErrors, OtherExceptions, Exceptions, Options,
        SrcStates, CaptStates, XmitStates, RcvStates, RstStates, DstStates,
        TransmitterRunning, srcVars, captVars, netVars, dstVars, orchVars
<1>1. CASE Connect
    BY <1>1 DEF Connect, Goto
<1>2. CASE StartPreflight
    BY <1>2 DEF StartPreflight
<1>3. CASE PreflightPasses
    BY <1>3 DEF PreflightPasses, Goto
<1>4. CASE PreflightFails
    BY <1>4 DEF PreflightFails
<1>5. CASE RunCapture
    BY <1>5 DEF RunCapture
<1>6. CASE RunCaptureFails
    BY <1>6 DEF RunCaptureFails
<1>7. CASE CaptureReturns
    BY <1>7 DEF CaptureReturns, Goto, RaiseToRollback, RaiseUncaught
<1>8. CASE CaptureTimeout
    BY <1>8 DEF CaptureTimeout, KillCapturer, RaiseToRollback, CapturerRunning
<1>9. CASE StartReceiver
    BY <1>9 DEF StartReceiver
<1>10. CASE RunTransmitter
    BY <1>10 DEF RunTransmitter, Goto
<1>11. CASE RunTransmitterFails
    BY <1>11 DEF RunTransmitterFails, RaiseToRollback, RaiseUncaught
<1>12. CASE TransferReturns
    BY <1>12 DEF TransferReturns, Goto, RaiseToRollback
<1>13. CASE TransferTimeout
    BY <1>13 DEF TransferTimeout, RaiseToRollback
<1>14. CASE RunRestore
    BY <1>14 DEF RunRestore
<1>15. CASE ExecReturns
    BY <1>15 DEF ExecReturns, Goto, RaiseToRollback
<1>16. CASE ExecFails
    BY <1>16 DEF ExecFails, RaiseToRollback
<1>17. CASE RemoveRemoteSnapshot
    BY <1>17 DEF RemoveRemoteSnapshot, Goto
<1>18. CASE TerminateSource
    BY <1>18 DEF TerminateSource, Goto, SrcAlive
<1>19. CASE TerminateDenied
    BY <1>19 DEF TerminateDenied, RaiseUncaught
<1>20. CASE KillSource
    BY <1>20 DEF KillSource, Goto, RaiseUncaught, SrcAlive
<1>21. CASE Complete
    BY <1>21 DEF Complete
<1>22. CASE Rollback
    BY <1>22 DEF Rollback
<1>23. CASE RunResume
    BY <1>23 DEF RunResume, Goto, RollbackFailed
<1>24. CASE RollbackReturns
    BY <1>24 DEF RollbackReturns, RollbackFailed
<1>25. CASE RollbackTimeout
    BY <1>25 DEF RollbackTimeout, KillCapturer, CapturerRunning, RollbackFailed
<1>26. CASE CleanupSnapshot
    BY <1>26 DEF CleanupSnapshot, Goto
<1>27. CASE CliReports
    BY <1>27 DEF CliReports
<1>28. CASE PreflightRaises
    BY <1>28 DEF PreflightRaises, RaiseUncaught
<1>29. CASE CloseSession
    BY <1>29 DEF CloseSession, Goto
<1> QED
    BY <1>1, <1>2, <1>3, <1>4, <1>5, <1>6, <1>7, <1>8, <1>9, <1>10, <1>11,
       <1>12, <1>13, <1>14, <1>15, <1>16, <1>17, <1>18, <1>19, <1>20, <1>21,
       <1>22, <1>23, <1>24, <1>25, <1>26, <1>27, <1>28, <1>29 DEF Orchestrate

\* IndInv survives a step of wraith-capturer.
LEMMA CapturerStepPreserves == IndInv /\ CapturerStep => IndInv'
<1> SUFFICES ASSUME IndInv, CapturerStep PROVE IndInv'
    OBVIOUS
<1> USE MaxWorkAssumption DEF IndInv, TypeOK, ControlInv, StateInv, RestorerInv,
        ExitStatus, TracerInv, CommitInv, SnapshotInv, Early, Post, Undo, Final, Locations,
        MigrationState, WraithErrors, OtherExceptions, Exceptions, Options,
        SrcStates, CaptStates, XmitStates, RcvStates, RstStates, DstStates,
        TransmitterRunning, srcVars, captVars, netVars, dstVars, orchVars
<1>1. CASE CapturerAttach
    BY <1>1 DEF CapturerAttach
<1>2. CASE CapturerDump
    BY <1>2 DEF CapturerDump, AfterDetach
<1>3. CASE CapturerSave
    BY <1>3 DEF CapturerSave
<1>4. CASE ResumeAttach
    BY <1>4 DEF ResumeAttach
<1>5. CASE ResumeDetach
    BY <1>5 DEF ResumeDetach, AfterDetach, SrcAlive
<1> QED
    BY <1>1, <1>2, <1>3, <1>4, <1>5 DEF CapturerStep

\* IndInv survives a step of wraith-transmitter.
LEMMA TransmitterStepPreserves == IndInv /\ TransmitterStep => IndInv'
<1> SUFFICES ASSUME IndInv, TransmitterStep PROVE IndInv'
    OBVIOUS
<1> USE MaxWorkAssumption DEF IndInv, TypeOK, ControlInv, StateInv, RestorerInv,
        ExitStatus, TracerInv, CommitInv, SnapshotInv, Early, Post, Undo, Final, Locations,
        MigrationState, WraithErrors, OtherExceptions, Exceptions, Options,
        SrcStates, CaptStates, XmitStates, RcvStates, RstStates, DstStates,
        TransmitterRunning, srcVars, captVars, netVars, dstVars, orchVars
<1>1. CASE TransmitterConnects
    BY <1>1 DEF TransmitterConnects
<1>2. CASE TransmitterFails
    BY <1>2 DEF TransmitterFails
<1>3. CASE TransmitterCompletes
    BY <1>3 DEF TransmitterCompletes
<1> QED
    BY <1>1, <1>2, <1>3 DEF TransmitterStep

\* IndInv survives a step of wraith-receiver.
LEMMA ReceiverStepPreserves == IndInv /\ ReceiverStep => IndInv'
<1> SUFFICES ASSUME IndInv, ReceiverStep PROVE IndInv'
    OBVIOUS
<1> USE MaxWorkAssumption DEF IndInv, TypeOK, ControlInv, StateInv, RestorerInv,
        ExitStatus, TracerInv, CommitInv, SnapshotInv, Early, Post, Undo, Final, Locations,
        MigrationState, WraithErrors, OtherExceptions, Exceptions, Options,
        SrcStates, CaptStates, XmitStates, RcvStates, RstStates, DstStates,
        TransmitterRunning, srcVars, captVars, netVars, dstVars, orchVars
<1>1. CASE ReceiverBinds
    BY <1>1 DEF ReceiverBinds
<1>2. CASE ReceiverReturns
    BY <1>2 DEF ReceiverReturns
<1>3. CASE ReceiverWrites
    BY <1>3 DEF ReceiverWrites
<1>4. CASE ReceiverFails
    BY <1>4 DEF ReceiverFails
<1> QED
    BY <1>1, <1>2, <1>3, <1>4 DEF ReceiverStep

\* IndInv survives a step of wraith-restorer.
LEMMA RestorerStepPreserves == IndInv /\ RestorerStep => IndInv'
<1> SUFFICES ASSUME IndInv, RestorerStep PROVE IndInv'
    OBVIOUS
<1> USE MaxWorkAssumption DEF IndInv, TypeOK, ControlInv, StateInv, RestorerInv,
        ExitStatus, TracerInv, CommitInv, SnapshotInv, Early, Post, Undo, Final, Locations,
        MigrationState, WraithErrors, OtherExceptions, Exceptions, Options,
        SrcStates, CaptStates, XmitStates, RcvStates, RstStates, DstStates,
        TransmitterRunning, srcVars, captVars, netVars, dstVars, orchVars
<1>1. CASE RestorerLoads
    BY <1>1 DEF RestorerLoads
<1>2. CASE RestorerRejects
    BY <1>2 DEF RestorerRejects
<1>3. CASE RestorerDetaches
    BY <1>3 DEF RestorerDetaches
<1>4. CASE RestorerAborts
    BY <1>4 DEF RestorerAborts
<1>5. CASE RestorerReports
    BY <1>5 DEF RestorerReports
<1>6. CASE RestorerPanics
    BY <1>6 DEF RestorerPanics
<1> QED
    BY <1>1, <1>2, <1>3, <1>4, <1>5, <1>6 DEF RestorerStep

\* IndInv survives a step of the environment or of one of the two processes.
LEMMA EnvironmentPreserves == IndInv /\ Environment => IndInv'
<1> SUFFICES ASSUME IndInv, Environment PROVE IndInv'
    OBVIOUS
<1> USE MaxWorkAssumption DEF IndInv, TypeOK, ControlInv, StateInv, RestorerInv,
        ExitStatus, TracerInv, CommitInv, SnapshotInv, Early, Post, Undo, Final, Locations,
        MigrationState, WraithErrors, OtherExceptions, Exceptions, Options,
        SrcStates, CaptStates, XmitStates, RcvStates, RstStates, DstStates,
        TransmitterRunning, srcVars, captVars, netVars, dstVars, orchVars
<1>1. CASE Interrupt
    BY <1>1 DEF Interrupt, CapturerRunning, KillCapturer
<1>2. CASE SourceWorks
    BY <1>2 DEF SourceWorks
<1>3. CASE SourceExits
    BY <1>3 DEF SourceExits
<1>4. CASE SourceObeysTerm
    BY <1>4 DEF SourceObeysTerm
<1>5. CASE CopyExits
    BY <1>5 DEF CopyExits
<1> QED
    BY <1>1, <1>2, <1>3, <1>4, <1>5 DEF Environment

\* The invariant holds at the start.
LEMMA InitIndInv == Init => IndInv
BY MaxWorkAssumption
   DEF Init, IndInv, TypeOK, ControlInv, StateInv, RestorerInv, TracerInv,
       CommitInv, SnapshotInv, Early, Post, Undo, Final, Locations,
       MigrationState, WraithErrors, OtherExceptions, Exceptions, SrcStates,
       CaptStates, XmitStates, RcvStates, RstStates, DstStates,
       TransmitterRunning

\* Every step of the system, and a stutter, preserves the invariant.
LEMMA NextIndInv == IndInv /\ [Next]_vars => IndInv'
<1> SUFFICES ASSUME IndInv, [Next]_vars PROVE IndInv'
    OBVIOUS
<1>1. CASE Next
    BY <1>1, OrchestratePreserves, CapturerStepPreserves,
       TransmitterStepPreserves, ReceiverStepPreserves, RestorerStepPreserves,
       EnvironmentPreserves DEF Next
<1>2. CASE UNCHANGED vars
    BY <1>2 DEF vars, orchVars, srcVars, captVars, netVars, dstVars, IndInv,
       TypeOK, ControlInv, StateInv, RestorerInv, TracerInv, CommitInv,
       SnapshotInv, TransmitterRunning, ExitStatus
<1> QED
    BY <1>1, <1>2

\* The inductive invariant is an invariant of migrate() and its children.
THEOREM Invariance == Spec => []IndInv
BY InitIndInv, NextIndInv, PTL DEF Spec

\* Every variable of the orchestration keeps its type.
THEOREM TypeCorrect == Spec => []TypeOK
<1>1. IndInv => TypeOK
    BY DEF IndInv
<1> QED
    BY <1>1, Invariance, PTL

\* _terminate_source signals the source only after the restorer's exit status 0
\* for a copy that runs, never under verify_only, never on an error path.
THEOREM CommitIsSafe == Spec => []CommitAfterRestore
<1>1. IndInv => CommitAfterRestore
    BY DEF IndInv, RestorerInv, CommitInv, CommitAfterRestore, WraithErrors,
       OtherExceptions
<1> QED
    BY <1>1, Invariance, PTL

\* COMPLETE means: copy started, source gone exactly when it should be.
THEOREM CompletionIsExact == Spec => []CompleteIsExact
<1>1. IndInv => CompleteIsExact
    BY DEF IndInv, TypeOK, ControlInv, RestorerInv, CommitInv,
       CompleteIsExact, Final
<1> QED
    BY <1>1, Invariance, PTL

\* No tracer, capturer or transmitter outlives the command.
THEOREM NothingLeftBehind == Spec => []NoChildLeftBehind
<1>1. IndInv => NoChildLeftBehind
    BY DEF IndInv, TracerInv, SnapshotInv, NoChildLeftBehind, CapturerRunning
<1> QED
    BY <1>1, Invariance, PTL

\* A source in a group stop is reported by CaptureError, RollbackError or an
\* interrupt.
THEOREM StopIsReported == Spec => []StoppedIsReported
<1>1. IndInv => StoppedIsReported
    BY DEF IndInv, TracerInv, StoppedIsReported
<1> QED
    BY <1>1, Invariance, PTL

\* A running transmitter always has a finished snapshot file to read.
THEOREM SnapshotIsThere == Spec => []TransmitterHasSnapshot
<1>1. IndInv => TransmitterHasSnapshot
    BY DEF IndInv, SnapshotInv, TransmitterHasSnapshot
<1> QED
    BY <1>1, Invariance, PTL

\* Exit status 0 only after COMPLETE, 3 only after FAILED, and only an interrupt
\* hides either of them behind status 1.
THEOREM ExitIsHonest == Spec => []ExitStatusIsHonest
<1>1. IndInv => ExitStatusIsHonest
    BY DEF IndInv, TypeOK, ControlInv, Final, ExitStatus, ExitStatusIsHonest,
       Exceptions, WraithErrors, OtherExceptions
<1> QED
    BY <1>1, Invariance, PTL

\* _state only moves along the diagram of teleporter.py.
THEOREM StatesFollowDiagram == Spec => StateMachine
<1> DEFINE Step == (state' # state => <<state, state'>> \in StateEdges)
<1>1. IndInv /\ [Next]_vars => [Step]_vars
  <2> SUFFICES ASSUME IndInv, Next PROVE Step
      OBVIOUS
  <2> USE DEF StateEdges, orchVars, srcVars, captVars, netVars, dstVars
  <2>1. CASE Orchestrate
    <3>1. CASE Connect
        BY <3>1 DEF Connect, Goto, IndInv, StateInv, Post
    <3>2. CASE StartPreflight
        BY <3>2 DEF StartPreflight, IndInv, StateInv, Post
    <3>3. CASE PreflightPasses
        BY <3>3 DEF PreflightPasses, Goto, IndInv, StateInv, Post
    <3>4. CASE PreflightFails
        BY <3>4 DEF PreflightFails, IndInv, StateInv, Post
    <3>5. CASE RunCapture
        BY <3>5 DEF RunCapture, IndInv, StateInv, Post
    <3>6. CASE RunCaptureFails
        BY <3>6 DEF RunCaptureFails, IndInv, StateInv, Post
    <3>7. CASE CaptureReturns
        BY <3>7 DEF CaptureReturns, Goto, RaiseToRollback, RaiseUncaught,
           IndInv, StateInv, Post
    <3>8. CASE CaptureTimeout
        BY <3>8 DEF CaptureTimeout, KillCapturer, RaiseToRollback,
           CapturerRunning, IndInv, StateInv, Post
    <3>9. CASE StartReceiver
        BY <3>9 DEF StartReceiver, IndInv, StateInv, Post
    <3>10. CASE RunTransmitter
        BY <3>10 DEF RunTransmitter, Goto, IndInv, StateInv, Post
    <3>11. CASE RunTransmitterFails
        BY <3>11 DEF RunTransmitterFails, RaiseToRollback, RaiseUncaught,
           IndInv, StateInv, Post
    <3>12. CASE TransferReturns
        BY <3>12 DEF TransferReturns, Goto, RaiseToRollback, IndInv,
           StateInv, Post
    <3>13. CASE TransferTimeout
        BY <3>13 DEF TransferTimeout, RaiseToRollback, IndInv, StateInv, Post
    <3>14. CASE RunRestore
        BY <3>14 DEF RunRestore, IndInv, StateInv, Post
    <3>15. CASE ExecReturns
        BY <3>15 DEF ExecReturns, Goto, RaiseToRollback, IndInv, StateInv, Post
    <3>16. CASE ExecFails
        BY <3>16 DEF ExecFails, RaiseToRollback, IndInv, StateInv, Post
    <3>17. CASE RemoveRemoteSnapshot
        BY <3>17 DEF RemoveRemoteSnapshot, Goto, IndInv, StateInv, Post
    <3>18. CASE TerminateSource
        BY <3>18 DEF TerminateSource, Goto, SrcAlive, IndInv, StateInv, Post
    <3>19. CASE TerminateDenied
        BY <3>19 DEF TerminateDenied, RaiseUncaught, IndInv, StateInv, Post
    <3>20. CASE KillSource
        BY <3>20 DEF KillSource, Goto, RaiseUncaught, SrcAlive, IndInv, StateInv, Post
    <3>21. CASE Complete
        BY <3>21 DEF Complete, IndInv, StateInv, Post
    <3>22. CASE Rollback
        BY <3>22 DEF Rollback, IndInv, StateInv, Post
    <3>23. CASE RunResume
        BY <3>23 DEF RunResume, Goto, RollbackFailed, IndInv, StateInv, Post
    <3>24. CASE RollbackReturns
        BY <3>24 DEF RollbackReturns, RollbackFailed, IndInv, StateInv, Post
    <3>25. CASE RollbackTimeout
        BY <3>25 DEF RollbackTimeout, KillCapturer, CapturerRunning,
           RollbackFailed, IndInv, StateInv, Post
    <3>26. CASE CleanupSnapshot
        BY <3>26 DEF CleanupSnapshot, Goto, IndInv, StateInv, Post
    <3>27. CASE CliReports
        BY <3>27 DEF CliReports, ExitStatus, IndInv, StateInv, Post
    <3>28. CASE PreflightRaises
        BY <3>28 DEF PreflightRaises, RaiseUncaught, IndInv, StateInv, Post
    <3>29. CASE CloseSession
        BY <3>29 DEF CloseSession, Goto, IndInv, StateInv, Post
    <3> QED
        BY <2>1, <3>1, <3>2, <3>3, <3>4, <3>5, <3>6, <3>7, <3>8, <3>9,
           <3>10, <3>11, <3>12, <3>13, <3>14, <3>15, <3>16, <3>17, <3>18,
           <3>19, <3>20, <3>21, <3>22, <3>23, <3>24, <3>25, <3>26, <3>27,
           <3>28, <3>29 DEF Orchestrate
  <2>2. CASE CapturerStep
      BY <2>2 DEF CapturerStep, CapturerAttach, CapturerDump, AfterDetach, CapturerSave,
         ResumeAttach, ResumeDetach, SrcAlive
  <2>3. CASE TransmitterStep
      BY <2>3 DEF TransmitterStep, TransmitterConnects, TransmitterFails,
         TransmitterCompletes
  <2>4. CASE ReceiverStep
      BY <2>4 DEF ReceiverStep, ReceiverBinds, ReceiverReturns,
         ReceiverWrites, ReceiverFails
  <2>5. CASE RestorerStep
      BY <2>5 DEF RestorerStep, RestorerLoads, RestorerRejects,
         RestorerDetaches, RestorerAborts, RestorerReports, RestorerPanics
  <2>6. CASE Environment
      BY <2>6 DEF Environment, Interrupt, CapturerRunning,
         KillCapturer, SourceWorks, SourceExits, SourceObeysTerm, CopyExits
  <2> QED
      BY <2>1, <2>2, <2>3, <2>4, <2>5, <2>6 DEF Next
<1> QED
    BY <1>1, Invariance, PTL DEF Spec, StateMachine

\* No `wraith-capturer resume` runs on a process Wraith has signalled.
THEOREM CommitEndsRollback == Spec => NoResumeAfterCommit
<1> DEFINE Step == (src \in {"terminating", "killed"} => capt' = capt)
<1>1. IndInv /\ [Next]_vars => [Step]_vars
  <2> SUFFICES ASSUME IndInv, Next PROVE Step
      OBVIOUS
  <2> USE DEF IndInv, TypeOK, CommitInv, TracerInv, Final, SrcStates, CaptStates, orchVars,
         srcVars, captVars, netVars, dstVars
  <2>1. CASE Orchestrate
    <3>1. CASE Connect
        BY <3>1 DEF Connect, Goto
    <3>2. CASE StartPreflight
        BY <3>2 DEF StartPreflight
    <3>3. CASE PreflightPasses
        BY <3>3 DEF PreflightPasses, Goto
    <3>4. CASE PreflightFails
        BY <3>4 DEF PreflightFails
    <3>5. CASE RunCapture
        BY <3>5 DEF RunCapture
    <3>6. CASE RunCaptureFails
        BY <3>6 DEF RunCaptureFails
    <3>7. CASE CaptureReturns
        BY <3>7 DEF CaptureReturns, Goto, RaiseToRollback, RaiseUncaught
    <3>8. CASE CaptureTimeout
        BY <3>8 DEF CaptureTimeout, KillCapturer, RaiseToRollback,
           CapturerRunning
    <3>9. CASE StartReceiver
        BY <3>9 DEF StartReceiver
    <3>10. CASE RunTransmitter
        BY <3>10 DEF RunTransmitter, Goto
    <3>11. CASE RunTransmitterFails
        BY <3>11 DEF RunTransmitterFails, RaiseToRollback, RaiseUncaught
    <3>12. CASE TransferReturns
        BY <3>12 DEF TransferReturns, Goto, RaiseToRollback
    <3>13. CASE TransferTimeout
        BY <3>13 DEF TransferTimeout, RaiseToRollback
    <3>14. CASE RunRestore
        BY <3>14 DEF RunRestore
    <3>15. CASE ExecReturns
        BY <3>15 DEF ExecReturns, Goto, RaiseToRollback
    <3>16. CASE ExecFails
        BY <3>16 DEF ExecFails, RaiseToRollback
    <3>17. CASE RemoveRemoteSnapshot
        BY <3>17 DEF RemoveRemoteSnapshot, Goto
    <3>18. CASE TerminateSource
        BY <3>18 DEF TerminateSource, Goto, SrcAlive
    <3>19. CASE TerminateDenied
        BY <3>19 DEF TerminateDenied, RaiseUncaught
    <3>20. CASE KillSource
        BY <3>20 DEF KillSource, Goto, RaiseUncaught, SrcAlive
    <3>21. CASE Complete
        BY <3>21 DEF Complete
    <3>22. CASE Rollback
        BY <3>22 DEF Rollback
    <3>23. CASE RunResume
        BY <3>23 DEF RunResume, Goto, RollbackFailed
    <3>24. CASE RollbackReturns
        BY <3>24 DEF RollbackReturns, RollbackFailed
    <3>25. CASE RollbackTimeout
        BY <3>25 DEF RollbackTimeout, KillCapturer, CapturerRunning,
           RollbackFailed
    <3>26. CASE CleanupSnapshot
        BY <3>26 DEF CleanupSnapshot, Goto
    <3>27. CASE CliReports
        BY <3>27 DEF CliReports, ExitStatus
    <3>28. CASE PreflightRaises
        BY <3>28 DEF PreflightRaises, RaiseUncaught
    <3>29. CASE CloseSession
        BY <3>29 DEF CloseSession, Goto
    <3> QED
        BY <2>1, <3>1, <3>2, <3>3, <3>4, <3>5, <3>6, <3>7, <3>8, <3>9,
           <3>10, <3>11, <3>12, <3>13, <3>14, <3>15, <3>16, <3>17, <3>18,
           <3>19, <3>20, <3>21, <3>22, <3>23, <3>24, <3>25, <3>26, <3>27,
           <3>28, <3>29 DEF Orchestrate
  <2>2. CASE CapturerStep
      BY <2>2 DEF CapturerStep, CapturerAttach, CapturerDump, AfterDetach, CapturerSave,
         ResumeAttach, ResumeDetach, SrcAlive
  <2>3. CASE TransmitterStep
      BY <2>3 DEF TransmitterStep, TransmitterConnects, TransmitterFails,
         TransmitterCompletes
  <2>4. CASE ReceiverStep
      BY <2>4 DEF ReceiverStep, ReceiverBinds, ReceiverReturns,
         ReceiverWrites, ReceiverFails
  <2>5. CASE RestorerStep
      BY <2>5 DEF RestorerStep, RestorerLoads, RestorerRejects,
         RestorerDetaches, RestorerAborts, RestorerReports, RestorerPanics
  <2>6. CASE Environment
      BY <2>6 DEF Environment, Interrupt, CapturerRunning,
         KillCapturer, SourceWorks, SourceExits, SourceObeysTerm, CopyExits
  <2> QED
      BY <2>1, <2>2, <2>3, <2>4, <2>5, <2>6 DEF Next
<1> QED
    BY <1>1, Invariance, PTL DEF Spec, NoResumeAfterCommit

\* A step of the orchestrator is a step of Handoff or changes nothing there.
LEMMA OrchestrateRefines == IndInv /\ Orchestrate => [H!Next]_(H!vars)
<1> SUFFICES ASSUME IndInv, Orchestrate PROVE [H!Next]_(H!vars)
    OBVIOUS
<1> USE DEF H!vars, HandoffSource, HandoffCopy, HandoffVerdict,
        srcVars, captVars, netVars, dstVars, orchVars
<1>1. CASE Connect
    BY <1>1 DEF Connect, Goto
<1>2. CASE StartPreflight
    BY <1>2 DEF StartPreflight
<1>3. CASE PreflightPasses
    BY <1>3 DEF PreflightPasses, Goto
<1>4. CASE PreflightFails
    BY <1>4 DEF PreflightFails
<1>5. CASE RunCapture
    BY <1>5 DEF RunCapture
<1>6. CASE RunCaptureFails
    BY <1>6 DEF RunCaptureFails
<1>7. CASE CaptureReturns
    BY <1>7 DEF CaptureReturns, Goto, RaiseToRollback, RaiseUncaught
<1>8. CASE CaptureTimeout
    BY <1>8 DEF CaptureTimeout, KillCapturer, RaiseToRollback, CapturerRunning
<1>9. CASE StartReceiver
    BY <1>9 DEF StartReceiver
<1>10. CASE RunTransmitter
    BY <1>10 DEF RunTransmitter, Goto
<1>11. CASE RunTransmitterFails
    BY <1>11 DEF RunTransmitterFails, RaiseToRollback, RaiseUncaught
<1>12. CASE TransferReturns
    BY <1>12 DEF TransferReturns, Goto, RaiseToRollback
<1>13. CASE TransferTimeout
    BY <1>13 DEF TransferTimeout, RaiseToRollback
<1>14. CASE RunRestore
    BY <1>14 DEF RunRestore
<1>15. CASE ExecReturns
    BY <1>15 DEF ExecReturns, Goto, RaiseToRollback
<1>16. CASE ExecFails
    BY <1>16 DEF ExecFails, RaiseToRollback
<1>17. CASE RemoveRemoteSnapshot
    BY <1>17 DEF RemoveRemoteSnapshot, Goto
<1>18. CASE TerminateSource
    BY <1>18 DEF TerminateSource, Goto, SrcAlive
<1>19. CASE TerminateDenied
    BY <1>19 DEF TerminateDenied, RaiseUncaught
<1>20. CASE KillSource
  <2>1. H!Retire \/ UNCHANGED H!vars
      BY <1>20 DEF KillSource, Goto, RaiseUncaught, SrcAlive, H!Retire, IndInv,
         TypeOK, RestorerInv, CommitInv, Post
  <2> QED
      BY <2>1 DEF H!Next
<1>21. CASE Complete
    BY <1>21 DEF Complete
<1>22. CASE Rollback
    BY <1>22 DEF Rollback
<1>23. CASE RunResume
    BY <1>23 DEF RunResume, Goto, RollbackFailed
<1>24. CASE RollbackReturns
    BY <1>24 DEF RollbackReturns, RollbackFailed
<1>25. CASE RollbackTimeout
    BY <1>25 DEF RollbackTimeout, KillCapturer, CapturerRunning, RollbackFailed
<1>26. CASE CleanupSnapshot
    BY <1>26 DEF CleanupSnapshot, Goto
<1>27. CASE CliReports
  <2>1. CASE exc = "none"
    <3>1. H!Succeed
        BY <1>27, <2>1 DEF CliReports, H!Succeed, IndInv, ControlInv, CommitInv,
           RestorerInv, Final
    <3> QED
        BY <3>1 DEF H!Next
  <2>2. CASE exc \in WraithErrors
    <3>1. H!Fail
        BY <1>27, <2>2 DEF CliReports, H!Fail, IndInv, CommitInv, WraithErrors,
           OtherExceptions
    <3> QED
        BY <3>1 DEF H!Next
  <2>3. CASE exc \in OtherExceptions
    <3>1. H!Abort
        BY <1>27, <2>3 DEF CliReports, H!Abort, WraithErrors, OtherExceptions
    <3> QED
        BY <3>1 DEF H!Next
  <2> QED
      BY <2>1, <2>2, <2>3 DEF IndInv, TypeOK, Exceptions
<1>28. CASE PreflightRaises
    BY <1>28 DEF PreflightRaises, RaiseUncaught
<1>29. CASE CloseSession
    BY <1>29 DEF CloseSession, Goto
<1> QED
    BY <1>1, <1>2, <1>3, <1>4, <1>5, <1>6, <1>7, <1>8, <1>9, <1>10, <1>11,
       <1>12, <1>13, <1>14, <1>15, <1>16, <1>17, <1>18, <1>19, <1>20, <1>21,
       <1>22, <1>23, <1>24, <1>25, <1>26, <1>27, <1>28, <1>29 DEF Orchestrate

\* A step of wraith-capturer is a step of Handoff or changes nothing there.
LEMMA CapturerStepRefines == IndInv /\ CapturerStep => [H!Next]_(H!vars)
<1> SUFFICES ASSUME IndInv, CapturerStep PROVE [H!Next]_(H!vars)
    OBVIOUS
<1> USE DEF H!vars, HandoffSource, HandoffCopy, HandoffVerdict,
        srcVars, captVars, netVars, dstVars, orchVars
<1>1. CASE CapturerAttach
    BY <1>1 DEF CapturerAttach
<1>2. CASE CapturerDump
    BY <1>2 DEF CapturerDump, AfterDetach
<1>3. CASE CapturerSave
    BY <1>3 DEF CapturerSave
<1>4. CASE ResumeAttach
    BY <1>4 DEF ResumeAttach
<1>5. CASE ResumeDetach
    BY <1>5 DEF ResumeDetach, AfterDetach, SrcAlive
<1> QED
    BY <1>1, <1>2, <1>3, <1>4, <1>5 DEF CapturerStep

\* A step of wraith-transmitter is a step of Handoff or changes nothing there.
LEMMA TransmitterStepRefines == IndInv /\ TransmitterStep => [H!Next]_(H!vars)
<1> SUFFICES ASSUME IndInv, TransmitterStep PROVE [H!Next]_(H!vars)
    OBVIOUS
<1> USE DEF H!vars, HandoffSource, HandoffCopy, HandoffVerdict,
        srcVars, captVars, netVars, dstVars, orchVars
<1>1. CASE TransmitterConnects
    BY <1>1 DEF TransmitterConnects
<1>2. CASE TransmitterFails
    BY <1>2 DEF TransmitterFails
<1>3. CASE TransmitterCompletes
    BY <1>3 DEF TransmitterCompletes
<1> QED
    BY <1>1, <1>2, <1>3 DEF TransmitterStep

\* A step of wraith-receiver is a step of Handoff or changes nothing there.
LEMMA ReceiverStepRefines == IndInv /\ ReceiverStep => [H!Next]_(H!vars)
<1> SUFFICES ASSUME IndInv, ReceiverStep PROVE [H!Next]_(H!vars)
    OBVIOUS
<1> USE DEF H!vars, HandoffSource, HandoffCopy, HandoffVerdict,
        srcVars, captVars, netVars, dstVars, orchVars
<1>1. CASE ReceiverBinds
    BY <1>1 DEF ReceiverBinds
<1>2. CASE ReceiverReturns
    BY <1>2 DEF ReceiverReturns
<1>3. CASE ReceiverWrites
    BY <1>3 DEF ReceiverWrites
<1>4. CASE ReceiverFails
    BY <1>4 DEF ReceiverFails
<1> QED
    BY <1>1, <1>2, <1>3, <1>4 DEF ReceiverStep

\* A step of wraith-restorer is a step of Handoff or changes nothing there.
LEMMA RestorerStepRefines == IndInv /\ RestorerStep => [H!Next]_(H!vars)
<1> SUFFICES ASSUME IndInv, RestorerStep PROVE [H!Next]_(H!vars)
    OBVIOUS
<1> USE DEF H!vars, HandoffSource, HandoffCopy, HandoffVerdict,
        srcVars, captVars, netVars, dstVars, orchVars
<1>1. CASE RestorerLoads
    BY <1>1 DEF RestorerLoads, IndInv, RestorerInv
<1>2. CASE RestorerRejects
    BY <1>2 DEF RestorerRejects, IndInv, RestorerInv
<1>3. CASE RestorerDetaches
  <2>1. H!CopyAppears \/ UNCHANGED H!vars
      BY <1>3 DEF RestorerDetaches, H!CopyAppears, IndInv, TypeOK,
         ControlInv, RestorerInv, TracerInv, CommitInv, Early, Post, Undo,
         Final, WraithErrors
  <2> QED
      BY <2>1 DEF H!Next
<1>4. CASE RestorerAborts
    BY <1>4 DEF RestorerAborts, IndInv, RestorerInv
<1>5. CASE RestorerReports
  <2>1. H!CopyEnds \/ UNCHANGED H!vars
      BY <1>5 DEF RestorerReports, H!CopyEnds, IndInv, TypeOK, ControlInv,
         RestorerInv, TracerInv, CommitInv, Early, Post, Undo, Final,
         WraithErrors
  <2> QED
      BY <2>1 DEF H!Next
<1>6. CASE RestorerPanics
    BY <1>6 DEF RestorerPanics
<1> QED
    BY <1>1, <1>2, <1>3, <1>4, <1>5, <1>6 DEF RestorerStep

\* A step of the environment or of one of the two processes is a step of Handoff or changes nothing there.
LEMMA EnvironmentRefines == IndInv /\ Environment => [H!Next]_(H!vars)
<1> SUFFICES ASSUME IndInv, Environment PROVE [H!Next]_(H!vars)
    OBVIOUS
<1> USE DEF H!vars, HandoffSource, HandoffCopy, HandoffVerdict,
        srcVars, captVars, netVars, dstVars, orchVars
<1>1. CASE Interrupt
    BY <1>1 DEF Interrupt, CapturerRunning, KillCapturer
<1>2. CASE SourceWorks
    BY <1>2 DEF SourceWorks
<1>3. CASE SourceExits
  <2>1. H!SourceLeaves \/ UNCHANGED H!vars
      BY <1>3 DEF SourceExits, H!SourceLeaves, IndInv, TypeOK, ControlInv,
         RestorerInv, TracerInv, CommitInv, Early, Post, Undo, Final,
         WraithErrors
  <2> QED
      BY <2>1 DEF H!Next
<1>4. CASE SourceObeysTerm
  <2>1. H!Retire \/ UNCHANGED H!vars
      BY <1>4 DEF SourceObeysTerm, H!Retire, IndInv, TypeOK, ControlInv,
         RestorerInv, TracerInv, CommitInv, Early, Post, Undo, Final,
         WraithErrors, OtherExceptions
  <2> QED
      BY <2>1 DEF H!Next
<1>5. CASE CopyExits
  <2>1. H!CopyEnds \/ UNCHANGED H!vars
      BY <1>5 DEF CopyExits, H!CopyEnds, IndInv, TypeOK, ControlInv,
         RestorerInv, TracerInv, CommitInv, Early, Post, Undo, Final,
         WraithErrors
  <2> QED
      BY <2>1 DEF H!Next
<1> QED
    BY <1>1, <1>2, <1>3, <1>4, <1>5 DEF Environment

\* migrate() implements the hand-over promise of Handoff.
THEOREM Refinement == Spec => ImplementsHandoff
<1>1. Init => H!Init
    BY DEF Init, H!Init, HandoffSource, HandoffCopy, HandoffVerdict
<1>2. IndInv /\ [Next]_vars => [H!Next]_(H!vars)
  <2> SUFFICES ASSUME IndInv, [Next]_vars PROVE [H!Next]_(H!vars)
      OBVIOUS
  <2>1. CASE Next
      BY <2>1, OrchestrateRefines, CapturerStepRefines, TransmitterStepRefines,
         ReceiverStepRefines, RestorerStepRefines, EnvironmentRefines DEF Next
  <2>2. CASE UNCHANGED vars
      BY <2>2 DEF vars, orchVars, srcVars, dstVars, H!vars, HandoffSource,
         HandoffCopy, HandoffVerdict
  <2> QED
      BY <2>1, <2>2
<1> QED
    BY <1>1, <1>2, Invariance, PTL DEF Spec, ImplementsHandoff, H!Spec

=============================================================================
