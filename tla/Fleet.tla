-------------------------------- MODULE Fleet -------------------------------
(***************************************************************************)
(* Several migrations that share one destination and one transfer port.    *)
(* Nothing in the code coordinates them: DestinationConfig.transfer_port   *)
(* has one default, every migration starts a wraith-receiver on it in the  *)
(* background (RemoteSession.exec_background), never looks at it again,    *)
(* and sends its snapshot to whoever listens there.  The handshake carries *)
(* the source PID; the receiver only prints it.  A receiver accepts one    *)
(* connection, writes what it got to the path it was started with, and     *)
(* exits; one that nobody connects to listens for ever.                    *)
(*                                                                         *)
(* A snapshot, wherever it is, is named by the migration whose source it   *)
(* was taken from.  What happens inside one migration (its rollback, its   *)
(* capture) is the subject of Teleporter, what happens inside a connection *)
(* of Transport; here a transfer or a restore may fail at any point.       *)
(***************************************************************************)
EXTENDS Naturals, FiniteSets

CONSTANTS
    Migrations,   \* the migrations, named by their migration_id[:8]
    None          \* no migration

ASSUME NoneAssumption == None \notin Migrations

VARIABLES
    mpc,      \* [migration -> where its migrate() is]
    source,   \* [migration -> its source process]
    tx,       \* [migration -> its wraith-transmitter]
    rcv,      \* [migration -> the wraith-receiver it started]
    backlog,  \* [migration -> connections its receiver has not accepted]
    from,     \* [migration -> whose snapshot its receiver is taking or holds]
    file,     \* [path -> the snapshot in that file on the destination]
    copy,     \* [migration -> the snapshot its restorer set running]
    met       \* pairs of migrations that were under way at the same time

orchVars == <<mpc, source, copy, met>>
netVars  == <<tx, rcv, backlog, from, file>>
vars == <<orchVars, netVars>>

Locations ==
    { "new", "transfer", "spawn", "wait", "restore", "remove", "commit",
      "complete", "failed" }
Over == {"complete", "failed"}
TxStates  == {"none", "connected", "ok", "error"}   \* failed or killed
RcvStates == {"none", "starting", "listening", "busy", "buffered", "exited"}

\* Mutant: one fixed remote path for all migrations.
RemotePathShared(m) == CHOOSE p \in Migrations : TRUE

\* --output of the receiver and --snapshot of the restorer:
\* remote_snapshot_dir/wraith_<migration_id[:8]>.pb.
RemotePath(m) == m

Underway(m) == mpc[m] \notin {"new"} \cup Over

\* The listener is open from NewReceiver until the process exits.
HoldsPort(r) == rcv[r] \in {"listening", "busy", "buffered"}

TypeOK ==
    /\ mpc \in [Migrations -> Locations]
    /\ source \in [Migrations -> {"alive", "killed"}]
    /\ tx \in [Migrations -> TxStates]
    /\ rcv \in [Migrations -> RcvStates]
    /\ backlog \in [Migrations -> SUBSET Migrations]
    /\ from \in [Migrations -> Migrations \cup {None}]
    /\ file \in [Migrations -> Migrations \cup {None}]
    /\ copy \in [Migrations -> Migrations \cup {None}]
    /\ met \subseteq SUBSET Migrations

Init ==
    /\ mpc = [m \in Migrations |-> "new"]
    /\ source = [m \in Migrations |-> "alive"]
    /\ tx = [m \in Migrations |-> "none"]
    /\ rcv = [m \in Migrations |-> "none"]
    /\ backlog = [m \in Migrations |-> {}]
    /\ from = [m \in Migrations |-> None]
    /\ file = [m \in Migrations |-> None]
    /\ copy = [m \in Migrations |-> None]
    /\ met = {}

-----------------------------------------------------------------------------
(***************************************************************************)
(* The orchestrator of migration m.                                        *)
(***************************************************************************)

\* migrate() up to the end of _run_capture.
Start(m) ==
    /\ mpc[m] = "new"
    /\ mpc' = [mpc EXCEPT ![m] = "transfer"]
    /\ met' = met \cup {{m, n} : n \in {k \in Migrations : Underway(k)}}
    /\ UNCHANGED <<source, copy, netVars>>

\* exec_background: the channel is closed behind the command, which may or
\* may not have been started by then, whether or not it raises.
StartReceiver(m) ==
    /\ mpc[m] = "transfer"
    /\ \E s \in {"starting", "exited"} : rcv' = [rcv EXCEPT ![m] = s]
    /\ \E next \in {"spawn", "failed"} : mpc' = [mpc EXCEPT ![m] = next]
    /\ UNCHANGED <<source, copy, met, tx, backlog, from, file>>

\* After time.sleep(1.5), over or not for the receiver: NewTransmitter dials
\* once.  The connection is with whoever holds the port; if nobody does, the
\* dial is refused.  --retries is for blocks, not for this.
RunTransmitter(m) ==
    /\ mpc[m] = "spawn"
    /\ mpc' = [mpc EXCEPT ![m] = "wait"]
    /\ \/ \E r \in Migrations :
            /\ HoldsPort(r)
            /\ tx' = [tx EXCEPT ![m] = "connected"]
            /\ backlog' = [backlog EXCEPT ![r] = @ \cup {m}]
       \/ /\ tx' = [tx EXCEPT ![m] = "error"]
          /\ UNCHANGED backlog
    /\ UNCHANGED <<source, copy, met, rcv, from, file>>

\* Mutant: the result is passed on without a look at it.
TransferReturnsUnchecked(m) ==
    /\ mpc[m] = "wait"
    /\ tx[m] \in {"ok", "error"}
    /\ mpc' = [mpc EXCEPT ![m] = IF tx[m] = "ok" THEN "restore" ELSE tx[m]]
    /\ UNCHANGED <<source, copy, met, netVars>>

\* subprocess.run returns: the next phase or TransferError.
TransferReturns(m) ==
    /\ mpc[m] = "wait"
    /\ tx[m] \in {"ok", "error"}
    /\ mpc' = [mpc EXCEPT ![m] = IF tx[m] = "ok" THEN "restore" ELSE "failed"]
    /\ UNCHANGED <<source, copy, met, netVars>>

Killed(m) == [tx EXCEPT ![m] = IF @ = "connected" THEN "error" ELSE @]

\* Mutant: a transfer that timed out is tried again.
TransferTimeoutRetries(m) ==
    /\ mpc[m] = "wait"
    /\ mpc' = [mpc EXCEPT ![m] = "spawn"]
    /\ tx' = Killed(m)
    /\ UNCHANGED <<source, copy, met, rcv, backlog, from, file>>

\* Mutant: subprocess.run without a timeout.
TransferTimeoutNever(m) ==
    /\ mpc[m] = "wait"
    /\ tx[m] \in {"ok", "error"}
    /\ mpc' = [mpc EXCEPT ![m] = "failed"]
    /\ UNCHANGED <<source, copy, met, netVars>>

\* TimeoutExpired: the child is killed, even one that is just ending.
TransferTimeout(m) ==
    /\ mpc[m] = "wait"
    /\ mpc' = [mpc EXCEPT ![m] = "failed"]
    /\ tx' = Killed(m)
    /\ UNCHANGED <<source, copy, met, rcv, backlog, from, file>>

\* A user interrupt before the outcome is settled; subprocess.run kills its child.
Interrupt(m) ==
    /\ Underway(m)
    /\ mpc' = [mpc EXCEPT ![m] = "failed"]
    /\ tx' = Killed(m)
    /\ UNCHANGED <<source, copy, met, rcv, backlog, from, file>>

\* The restorer reads the migration's own path.  It may reject what it finds
\* there; session.exec may also fail or time out while the restorer goes on.
RunRestore(m) ==
    /\ mpc[m] = "restore"
    /\ \/ mpc' = [mpc EXCEPT ![m] = "failed"] /\ UNCHANGED copy
       \/ /\ file[RemotePath(m)] # None
          /\ copy' = [copy EXCEPT ![m] = file[RemotePath(m)]]
          /\ \E next \in {"remove", "failed"} : mpc' = [mpc EXCEPT ![m] = next]
    /\ UNCHANGED <<source, met, netVars>>

\* rm -f of the remote snapshot, unless keep_snapshot; a failure is ignored.
RemoveSnapshot(m) ==
    /\ mpc[m] = "remove"
    /\ mpc' = [mpc EXCEPT ![m] = "commit"]
    /\ \E gone \in BOOLEAN :
         file' = [file EXCEPT ![RemotePath(m)] = IF gone THEN None ELSE @]
    /\ UNCHANGED <<source, copy, met, tx, rcv, backlog, from>>

\* _terminate_source, without verify_only.
TerminateSource(m) ==
    /\ mpc[m] = "commit"
    /\ mpc' = [mpc EXCEPT ![m] = "complete"]
    /\ source' = [source EXCEPT ![m] = "killed"]
    /\ UNCHANGED <<copy, met, netVars>>

-----------------------------------------------------------------------------
(***************************************************************************)
(* The transmitters and the receivers.                                     *)
(***************************************************************************)

\* net.Listen on the shared port: EADDRINUSE if another receiver has it.
Bind(r) ==
    /\ rcv[r] = "starting"
    /\ rcv' = [rcv EXCEPT ![r] =
                 IF \E s \in Migrations : HoldsPort(s) THEN "exited"
                                                       ELSE "listening"]
    /\ UNCHANGED <<orchVars, tx, backlog, from, file>>

\* listener.Accept: any connection of the backlog, also one whose
\* transmitter is already dead.
Accept(r) ==
    /\ rcv[r] = "listening"
    /\ \E m \in backlog[r] :
         /\ from' = [from EXCEPT ![r] = m]
         /\ backlog' = [backlog EXCEPT ![r] = @ \ {m}]
    /\ rcv' = [rcv EXCEPT ![r] = "busy"]
    /\ UNCHANGED <<orchVars, tx, file>>

\* SendSnapshot returns after MsgComplete was written: the peer has answered
\* the handshake, and need not have read the rest.
TransmitterCompletes(m) ==
    /\ tx[m] = "connected"
    /\ \E r \in Migrations : rcv[r] = "busy" /\ from[r] = m
    /\ tx' = [tx EXCEPT ![m] = "ok"]
    /\ UNCHANGED <<orchVars, rcv, backlog, from, file>>

\* Reset by a receiver that exited, no answer to the handshake, or a
\* connection that breaks.
TransmitterFails(m) ==
    /\ tx[m] = "connected"
    /\ tx' = [tx EXCEPT ![m] = "error"]
    /\ UNCHANGED <<orchVars, rcv, backlog, from, file>>

\* receiveOne returns at MsgComplete.
ReceiverGetsAll(r) ==
    /\ rcv[r] = "busy"
    /\ tx[from[r]] = "ok"
    /\ rcv' = [rcv EXCEPT ![r] = "buffered"]
    /\ UNCHANGED <<orchVars, tx, backlog, from, file>>

ReceiverExits(r) ==
    /\ rcv' = [rcv EXCEPT ![r] = "exited"]
    /\ from' = [from EXCEPT ![r] = None]
    /\ backlog' = [backlog EXCEPT ![r] = {}]

\* log.Fatalf: a broken or silent connection, a write error.
ReceiverFails(r) ==
    /\ rcv[r] \in {"busy", "buffered"}
    /\ ReceiverExits(r)
    /\ UNCHANGED <<orchVars, tx, file>>

\* Mutant: the receiver serves the next connection.
ReceiverWritesServes(r) ==
    /\ rcv[r] = "buffered"
    /\ file' = [file EXCEPT ![RemotePath(r)] = from[r]]
    /\ rcv' = [rcv EXCEPT ![r] = "listening"]
    /\ from' = [from EXCEPT ![r] = None]
    /\ UNCHANGED <<orchVars, tx, backlog>>

\* os.WriteFile to the path of the command line, then the end of main.
ReceiverWrites(r) ==
    /\ rcv[r] = "buffered"
    /\ file' = [file EXCEPT ![RemotePath(r)] = from[r]]
    /\ ReceiverExits(r)
    /\ UNCHANGED <<orchVars, tx>>

-----------------------------------------------------------------------------
\* What migrate() does by itself; no child and no interrupt is needed for it.
Orchestrator(m) ==
    \/ StartReceiver(m)
    \/ RunTransmitter(m)
    \/ TransferReturns(m)
    \/ TransferTimeout(m)
    \/ RunRestore(m)
    \/ RemoveSnapshot(m)
    \/ TerminateSource(m)

Transmitter(m) == TransmitterCompletes(m) \/ TransmitterFails(m)

Receiver(r) ==
    \/ Bind(r)
    \/ Accept(r)
    \/ ReceiverGetsAll(r)
    \/ ReceiverFails(r)
    \/ ReceiverWrites(r)

Next ==
    \E m \in Migrations :
        \/ Start(m)
        \/ Interrupt(m)
        \/ Orchestrator(m)
        \/ Transmitter(m)
        \/ Receiver(m)

Spec == Init /\ [][Next]_vars

\* Phases that wait for a call through SSH, which nothing bounds as a whole
\* (see SshWaits in module Teleporter).
SshCalls == {"transfer", "restore", "remove"}

\* An orchestrator goes on between its SSH calls, where subprocess.run has a
\* timeout.  Nothing is assumed of those calls, of the transmitters, of the
\* receivers or of the other migrations.
FairSpec ==
    /\ Spec
    /\ \A m \in Migrations : WF_vars(mpc[m] \notin SshCalls /\ Orchestrator(m))

-----------------------------------------------------------------------------
(***************************************************************************)
(* Properties.                                                             *)
(***************************************************************************)

\* When _terminate_source has run (teleporter.py:373), a process was restored
\* for this migration, and from its own snapshot unless another migration to
\* the same port was under way at the same time: a receiver, a file or a
\* connection left behind by migrations that ended before never makes a
\* migration kill its source for somebody else's copy.
CommitIsOwn ==
    \A m \in Migrations :
        source[m] = "killed" =>
            copy[m] = m \/ \E n \in Migrations : copy[m] = n /\ {m, n} \in met

\* A snapshot is restored at most once, by whichever migration: migrations
\* that get each other's connection (server.go:46) may swap their processes
\* but never double one.
RestoredOnce ==
    \A m, n \in Migrations :
        m # n /\ copy[m] # None => copy[m] # copy[n]

\* Once a migration's snapshot was restored, no image appears at its remote
\* path any more (teleporter.py:353): the rm that follows is not undone by a
\* receiver that comes late.
NoImageAfterRestore ==
    [][\A m \in Migrations :
          copy[m] # None =>
              file'[RemotePath(m)] \in {file[RemotePath(m)], None}]_vars

\* Migrations do not hold each other up on the shared port: whatever the other
\* migrations, their receivers and a silent backlog do (server.go:46), a
\* migration that has started ends, or waits for a reply of SSH for ever.
MigrationsMoveOn ==
    \A m \in Migrations : <>[](mpc[m] \in {"new"} \cup SshCalls \cup Over)
=============================================================================
