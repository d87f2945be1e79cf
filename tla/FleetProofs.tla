----------------------------- MODULE FleetProofs ----------------------------
(***************************************************************************)
(* Proofs about Fleet, for any set of migrations.  A snapshot can be in a  *)
(* connection, in a receiver, in a file or in a restored process; the      *)
(* invariant says on which migration's side of the port it is (Held), that *)
(* it is on one side only, and that the two migrations have met unless the *)
(* holder had ended before it got hold of it.                              *)
(***************************************************************************)
EXTENDS Fleet, TLAPS

\* Migration n's snapshot is somewhere on the side of migration r.
Held(n, r) ==
    \/ n \in backlog[r]
    \/ from[r] = n
    \/ file[r] = n
    \/ copy[r] = n

\* No receiver before the migration starts one.
StartedInv ==
    \A r \in Migrations : mpc[r] \in {"new", "transfer"} => rcv[r] = "none"

\* Migrations that are under way together are recorded.
MetInv ==
    \A m, n \in Migrations :
        m # n /\ Underway(m) /\ Underway(n) => {m, n} \in met

\* Nothing of a migration is on anybody's side before it has dialled.
UnsentInv ==
    \A n, r \in Migrations :
        mpc[n] \in {"new", "transfer", "spawn"} => ~Held(n, r)

\* A snapshot is on one side only.
OnceInv ==
    \A n, r, s \in Migrations : Held(n, r) /\ Held(n, s) => r = s

\* Whoever holds another migration's snapshot has met it, or had ended and
\* will not restore it.
HeldInv ==
    \A n, r \in Migrations :
        Held(n, r) =>
            \/ n = r
            \/ {r, n} \in met
            \/ mpc[r] \in Over /\ copy[r] # n

\* A receiver whose file exists, or was restored, is gone.
WrittenInv ==
    \A r \in Migrations :
        file[r] # None \/ copy[r] # None => rcv[r] = "exited"

\* The source is killed after a restore only.
CommitInv ==
    \A m \in Migrations :
        /\ mpc[m] \in {"remove", "commit", "complete"} => copy[m] # None
        /\ source[m] = "killed" => mpc[m] = "complete"

IInv ==
    /\ TypeOK
    /\ StartedInv
    /\ MetInv
    /\ UnsentInv
    /\ OnceInv
    /\ HeldInv
    /\ WrittenInv
    /\ CommitInv

\* Nothing is under way and nothing was sent at first.
LEMMA InitIInv == Init => IInv
BY NoneAssumption DEF Init, IInv, TypeOK, StartedInv, MetInv, UnsentInv, OnceInv,
   HeldInv, WrittenInv, CommitInv, Held, Underway, Locations, Over, TxStates,
   RcvStates

\* Type correctness is inductive by itself.
LEMMA TypeStep == TypeOK /\ [Next]_vars => TypeOK'
<1> SUFFICES ASSUME TypeOK, [Next]_vars PROVE TypeOK'
  OBVIOUS
<1> USE DEF TypeOK, Locations, Over, TxStates, RcvStates, orchVars, netVars
<1>1. CASE UNCHANGED vars
  BY <1>1 DEF vars
<1>2. ASSUME NEW m \in Migrations, Start(m) PROVE TypeOK'
  BY <1>2 DEF Start
<1>3. ASSUME NEW m \in Migrations, Interrupt(m) PROVE TypeOK'
  BY <1>3 DEF Interrupt, Killed
<1>4. ASSUME NEW m \in Migrations, StartReceiver(m) PROVE TypeOK'
  BY <1>4 DEF StartReceiver
<1>5. ASSUME NEW m \in Migrations, RunTransmitter(m) PROVE TypeOK'
  BY <1>5 DEF RunTransmitter
<1>6. ASSUME NEW m \in Migrations, TransferReturns(m) PROVE TypeOK'
  BY <1>6 DEF TransferReturns
<1>7. ASSUME NEW m \in Migrations, TransferTimeout(m) PROVE TypeOK'
  BY <1>7 DEF TransferTimeout, Killed
<1>8. ASSUME NEW m \in Migrations, RunRestore(m) PROVE TypeOK'
  BY <1>8 DEF RunRestore, RemotePath
<1>9. ASSUME NEW m \in Migrations, RemoveSnapshot(m) PROVE TypeOK'
  BY <1>9 DEF RemoveSnapshot, RemotePath
<1>10. ASSUME NEW m \in Migrations, TerminateSource(m) PROVE TypeOK'
  BY <1>10 DEF TerminateSource
<1>11. ASSUME NEW m \in Migrations, Transmitter(m) PROVE TypeOK'
  BY <1>11 DEF Transmitter, TransmitterCompletes, TransmitterFails
<1>12. ASSUME NEW r \in Migrations, Bind(r) PROVE TypeOK'
  BY <1>12 DEF Bind
<1>13. ASSUME NEW r \in Migrations, Accept(r) PROVE TypeOK'
  BY <1>13 DEF Accept
<1>14. ASSUME NEW r \in Migrations, ReceiverGetsAll(r) PROVE TypeOK'
  BY <1>14 DEF ReceiverGetsAll
<1>15. ASSUME NEW r \in Migrations, ReceiverFails(r) PROVE TypeOK'
  BY <1>15 DEF ReceiverFails, ReceiverExits
<1>16. ASSUME NEW r \in Migrations, ReceiverWrites(r) PROVE TypeOK'
  BY <1>16 DEF ReceiverWrites, ReceiverExits, RemotePath
<1> QED
  BY <1>1, <1>2, <1>3, <1>4, <1>5, <1>6, <1>7, <1>8, <1>9, <1>10, <1>11, <1>12,
     <1>13, <1>14, <1>15, <1>16 DEF Next, Orchestrator, Receiver

\* Only a dial brings a snapshot to a new side: all other steps move it on
\* along connection, receiver, file and process of the same migration.
LEMMA HeldStep ==
  ASSUME TypeOK, [Next]_vars, NEW n \in Migrations, NEW r \in Migrations, Held(n, r)'
  PROVE  \/ Held(n, r)
         \/ RunTransmitter(n) /\ HoldsPort(r)
<1> USE NoneAssumption DEF TypeOK, Held, orchVars, netVars
<1>1. CASE UNCHANGED vars
  BY <1>1 DEF vars
<1>2. ASSUME NEW m \in Migrations, Start(m) PROVE Held(n, r)
  BY <1>2 DEF Start
<1>3. ASSUME NEW m \in Migrations, Interrupt(m) PROVE Held(n, r)
  BY <1>3 DEF Interrupt
<1>4. ASSUME NEW m \in Migrations, StartReceiver(m) PROVE Held(n, r)
  BY <1>4 DEF StartReceiver
<1>5. ASSUME NEW m \in Migrations, RunTransmitter(m)
      PROVE Held(n, r) \/ (RunTransmitter(n) /\ HoldsPort(r))
  <2>1. from' = from /\ file' = file /\ copy' = copy
    BY <1>5 DEF RunTransmitter
  <2>2. CASE backlog' = backlog
    BY <2>1, <2>2
  <2>3. ASSUME NEW s \in Migrations, HoldsPort(s),
               backlog' = [backlog EXCEPT ![s] = @ \cup {m}]
        PROVE  Held(n, r) \/ (n = m /\ r = s)
    BY <2>1, <2>3
  <2>4. Held(n, r) \/ (n = m /\ HoldsPort(r))
    BY <1>5, <2>2, <2>3 DEF RunTransmitter
  <2> QED
    BY <1>5, <2>4
<1>6. ASSUME NEW m \in Migrations, TransferReturns(m) PROVE Held(n, r)
  BY <1>6 DEF TransferReturns
<1>7. ASSUME NEW m \in Migrations, TransferTimeout(m) PROVE Held(n, r)
  BY <1>7 DEF TransferTimeout
<1>8. ASSUME NEW m \in Migrations, RunRestore(m) PROVE Held(n, r)
  BY <1>8 DEF RunRestore, RemotePath
<1>9. ASSUME NEW m \in Migrations, RemoveSnapshot(m) PROVE Held(n, r)
  BY <1>9 DEF RemoveSnapshot, RemotePath
<1>10. ASSUME NEW m \in Migrations, TerminateSource(m) PROVE Held(n, r)
  BY <1>10 DEF TerminateSource
<1>11. ASSUME NEW m \in Migrations, Transmitter(m) PROVE Held(n, r)
  BY <1>11 DEF Transmitter, TransmitterCompletes, TransmitterFails
<1>12. ASSUME NEW s \in Migrations, Bind(s) PROVE Held(n, r)
  BY <1>12 DEF Bind
<1>13. ASSUME NEW s \in Migrations, Accept(s) PROVE Held(n, r)
  BY <1>13 DEF Accept
<1>14. ASSUME NEW s \in Migrations, ReceiverGetsAll(s) PROVE Held(n, r)
  BY <1>14 DEF ReceiverGetsAll
<1>15. ASSUME NEW s \in Migrations, ReceiverFails(s) PROVE Held(n, r)
  BY <1>15 DEF ReceiverFails, ReceiverExits
<1>16. ASSUME NEW s \in Migrations, ReceiverWrites(s) PROVE Held(n, r)
  BY <1>16 DEF ReceiverWrites, ReceiverExits, RemotePath
<1> QED
  BY <1>1, <1>2, <1>3, <1>4, <1>5, <1>6, <1>7, <1>8, <1>9, <1>10, <1>11, <1>12,
     <1>13, <1>14, <1>15, <1>16 DEF Next, Orchestrator, Receiver

\* What a step leaves as it was: migrations that are over stay over, pairs
\* that met have met, a receiver that exited stays so, and a migration is
\* under way after a step only if it was before or starts in this step.
LEMMA Monotone ==
  ASSUME TypeOK, [Next]_vars, NEW r \in Migrations
  PROVE  /\ mpc[r] \in Over => mpc'[r] = mpc[r]
         /\ met \subseteq met'
         /\ Underway(r)' => Underway(r) \/ Start(r)
<1> USE DEF TypeOK, Over, Locations, Underway, orchVars, netVars
<1>1. CASE UNCHANGED vars
  BY <1>1 DEF vars
<1>2. ASSUME NEW m \in Migrations, Start(m)
      PROVE  /\ mpc[r] \in Over => mpc'[r] = mpc[r]
             /\ met \subseteq met'
             /\ Underway(r)' => Underway(r) \/ Start(r)
  BY <1>2 DEF Start
<1>3. ASSUME NEW m \in Migrations, Interrupt(m) \/ Orchestrator(m)
      PROVE  /\ mpc[r] \in Over => mpc'[r] = mpc[r]
             /\ met \subseteq met'
             /\ Underway(r)' => Underway(r) \/ Start(r)
  BY <1>3 DEF Interrupt, Orchestrator, StartReceiver, RunTransmitter,
     TransferReturns, TransferTimeout, RunRestore, RemoveSnapshot, TerminateSource
<1>4. ASSUME NEW m \in Migrations, Transmitter(m) \/ Receiver(m)
      PROVE  mpc' = mpc /\ met' = met
  BY <1>4 DEF Transmitter, TransmitterCompletes, TransmitterFails, Receiver,
     Bind, Accept, ReceiverGetsAll, ReceiverFails, ReceiverWrites
<1> QED
  BY <1>1, <1>2, <1>3, <1>4 DEF Next

\* No receiver before StartReceiver; it is only ever moved on afterwards.
LEMMA StartedStep ==
  TypeOK /\ StartedInv /\ [Next]_vars => StartedInv'
<1> SUFFICES ASSUME TypeOK, StartedInv, [Next]_vars,
                    NEW r \in Migrations, mpc'[r] \in {"new", "transfer"}
             PROVE  rcv'[r] = "none"
  BY DEF StartedInv
<1> USE DEF TypeOK, StartedInv, Locations, Over, orchVars, netVars
<1>1. CASE UNCHANGED vars
  BY <1>1 DEF vars
<1>2. ASSUME NEW m \in Migrations, Start(m) \/ Interrupt(m) PROVE rcv'[r] = "none"
  BY <1>2 DEF Start, Interrupt, Underway
<1>3. ASSUME NEW m \in Migrations, Orchestrator(m) PROVE rcv'[r] = "none"
  BY <1>3 DEF Orchestrator, StartReceiver, RunTransmitter,
     TransferReturns, TransferTimeout, RunRestore, RemoveSnapshot, TerminateSource
<1>4. ASSUME NEW m \in Migrations, Transmitter(m) \/ Receiver(m)
      PROVE  rcv'[r] = "none"
  BY <1>4 DEF Transmitter, TransmitterCompletes, TransmitterFails, Receiver,
     Bind, Accept, ReceiverGetsAll, ReceiverFails, ReceiverWrites, ReceiverExits
<1> QED
  BY <1>1, <1>2, <1>3, <1>4 DEF Next

\* Start records every migration that is under way.
LEMMA MetStep == TypeOK /\ MetInv /\ [Next]_vars => MetInv'
<1> SUFFICES ASSUME TypeOK, MetInv, [Next]_vars,
                    NEW m \in Migrations, NEW n \in Migrations, m # n,
                    Underway(m)', Underway(n)'
             PROVE  {m, n} \in met'
  BY DEF MetInv
<1>1. Underway(m) \/ Start(m)
  BY Monotone
<1>2. Underway(n) \/ Start(n)
  BY Monotone
<1>3. CASE Underway(m) /\ Underway(n)
  BY <1>3, Monotone DEF MetInv
<1>4. CASE Start(m) /\ Underway(n)
  BY <1>4 DEF Start
<1>5. CASE Start(n) /\ Underway(m)
  <2>1. {n, m} \in met'
    BY <1>5 DEF Start
  <2>2. {n, m} = {m, n}
    OBVIOUS
  <2> QED
    BY <2>1, <2>2
<1>6. ~(Start(m) /\ Start(n))
  BY DEF Start, TypeOK
<1> QED
  BY <1>1, <1>2, <1>3, <1>4, <1>5, <1>6

\* A migration dials once, from location "spawn".
LEMMA UnsentStep == TypeOK /\ UnsentInv /\ [Next]_vars => UnsentInv'
<1> SUFFICES ASSUME TypeOK, UnsentInv, [Next]_vars,
                    NEW n \in Migrations, NEW r \in Migrations,
                    mpc'[n] \in {"new", "transfer", "spawn"}, Held(n, r)'
             PROVE  FALSE
  BY DEF UnsentInv
<1>1. mpc[n] \in {"new", "transfer", "spawn"}
  <2> USE DEF TypeOK, Locations, Over, Underway, orchVars, netVars
  <2>1. CASE UNCHANGED vars
    BY <2>1 DEF vars
  <2>2. ASSUME NEW m \in Migrations, Start(m) \/ Interrupt(m) \/ Orchestrator(m)
        PROVE  mpc[n] \in {"new", "transfer", "spawn"}
    BY <2>2 DEF Start, Interrupt, Orchestrator, StartReceiver, RunTransmitter,
       TransferReturns, TransferTimeout, RunRestore, RemoveSnapshot, TerminateSource
  <2>3. ASSUME NEW m \in Migrations, Transmitter(m) \/ Receiver(m)
        PROVE  mpc[n] \in {"new", "transfer", "spawn"}
    BY <2>3 DEF Transmitter, TransmitterCompletes, TransmitterFails, Receiver,
       Bind, Accept, ReceiverGetsAll, ReceiverFails, ReceiverWrites
  <2> QED
    BY <2>1, <2>2, <2>3 DEF Next
<1>2. ~Held(n, r)
  BY <1>1 DEF UnsentInv
<1>3. RunTransmitter(n)
  BY <1>2, HeldStep
<1>4. mpc'[n] = "wait"
  BY <1>3 DEF RunTransmitter, TypeOK
<1> QED
  BY <1>4

\* A dial reaches one receiver, and finds nothing of the dialler elsewhere.
LEMMA OnceStep == TypeOK /\ UnsentInv /\ OnceInv /\ [Next]_vars => OnceInv'
<1> SUFFICES ASSUME TypeOK, UnsentInv, OnceInv, [Next]_vars,
                    NEW n \in Migrations, NEW r \in Migrations, NEW s \in Migrations,
                    Held(n, r)', Held(n, s)'
             PROVE  r = s
  BY DEF OnceInv
<1>1. CASE Held(n, r) /\ Held(n, s)
  BY <1>1 DEF OnceInv
<1>2. CASE RunTransmitter(n)
  <2>1. ~Held(n, r) /\ ~Held(n, s)
    BY <1>2 DEF UnsentInv, RunTransmitter
  <2>2. n \in backlog'[r] /\ n \in backlog'[s]
    BY <1>2, <2>1 DEF Held, RunTransmitter
  <2>3. n \notin backlog[r] /\ n \notin backlog[s]
    BY <2>1 DEF Held
  <2> QED
    BY <1>2, <2>2, <2>3 DEF RunTransmitter, TypeOK
<1> QED
  BY <1>1, <1>2, HeldStep

\* The holder of the port was started; it is either over or under way
\* together with the dialler.
LEMMA HeldInvStep == IInv /\ [Next]_vars => HeldInv'
<1> SUFFICES ASSUME IInv, [Next]_vars, NEW n \in Migrations, NEW r \in Migrations,
                    Held(n, r)', n # r, {r, n} \notin met'
             PROVE  mpc'[r] \in Over /\ copy'[r] # n
  BY DEF HeldInv
<1> USE DEF IInv
<1>1. {r, n} \notin met
  BY Monotone
<1>2. mpc[r] \in Over /\ copy[r] # n
  <2>1. CASE Held(n, r)
    BY <2>1, <1>1 DEF HeldInv
  <2>2. CASE RunTransmitter(n) /\ HoldsPort(r)
    <3>1. mpc[r] \notin {"new", "transfer"}
      BY <2>2 DEF HoldsPort, StartedInv
    <3>2. mpc[n] = "spawn" /\ Underway(n)
      BY <2>2 DEF RunTransmitter, Underway, Over
    <3>3. ~Underway(r)
      BY <1>1, <3>2 DEF MetInv
    <3>4. ~Held(n, r)
      BY <3>2 DEF UnsentInv
    <3> QED
      BY <3>1, <3>3, <3>4 DEF Underway, Held, TypeOK, Locations, Over
  <2> QED
    BY <2>1, <2>2, HeldStep
<1>3. mpc'[r] \in Over
  BY <1>2, Monotone
<1>4. copy'[r] = copy[r]
  <2> USE DEF TypeOK, Over, orchVars, netVars
  <2>1. CASE UNCHANGED vars
    BY <2>1 DEF vars
  <2>2. ASSUME NEW m \in Migrations, RunRestore(m) PROVE copy'[r] = copy[r]
    BY <2>2, <1>2 DEF RunRestore
  <2> QED
    BY <2>1, <2>2 DEF Next, Start, Interrupt, Orchestrator, StartReceiver,
       RunTransmitter, TransferReturns, TransferTimeout, RemoveSnapshot,
       TerminateSource, Transmitter, TransmitterCompletes, TransmitterFails,
       Receiver, Bind, Accept, ReceiverGetsAll, ReceiverFails, ReceiverWrites
<1> QED
  BY <1>2, <1>3, <1>4

\* A receiver writes as its last act, and a migration has one receiver.
LEMMA WrittenStep ==
  TypeOK /\ StartedInv /\ WrittenInv /\ [Next]_vars => WrittenInv'
<1> SUFFICES ASSUME TypeOK, StartedInv, WrittenInv, [Next]_vars,
                    NEW r \in Migrations, file'[r] # None \/ copy'[r] # None
             PROVE  rcv'[r] = "exited"
  BY DEF WrittenInv
<1> USE DEF TypeOK, WrittenInv, RemotePath, orchVars, netVars
<1>1. CASE UNCHANGED vars
  BY <1>1 DEF vars
<1>2. ASSUME NEW m \in Migrations, Start(m) \/ Interrupt(m) PROVE rcv'[r] = "exited"
  BY <1>2 DEF Start, Interrupt
<1>3. ASSUME NEW m \in Migrations, Orchestrator(m) PROVE rcv'[r] = "exited"
  <2>1. CASE StartReceiver(m)
    BY <2>1 DEF StartReceiver, StartedInv
  <2>2. CASE RunRestore(m)
    BY <2>2 DEF RunRestore
  <2>3. CASE RemoveSnapshot(m)
    BY <2>3 DEF RemoveSnapshot
  <2> QED
    BY <1>3, <2>1, <2>2, <2>3 DEF Orchestrator, RunTransmitter, TransferReturns,
       TransferTimeout, TerminateSource
<1>4. ASSUME NEW m \in Migrations, Transmitter(m) PROVE rcv'[r] = "exited"
  BY <1>4 DEF Transmitter, TransmitterCompletes, TransmitterFails
<1>5. ASSUME NEW m \in Migrations, Receiver(m) PROVE rcv'[r] = "exited"
  <2>1. CASE ReceiverWrites(m)
    BY <2>1 DEF ReceiverWrites, ReceiverExits
  <2>2. CASE ReceiverFails(m)
    BY <2>2 DEF ReceiverFails, ReceiverExits
  <2> QED
    BY <1>5, <2>1, <2>2 DEF Receiver, Bind, Accept, ReceiverGetsAll
<1> QED
  BY <1>1, <1>2, <1>3, <1>4, <1>5 DEF Next

\* _terminate_source comes after a restore that succeeded.
LEMMA CommitStep == TypeOK /\ CommitInv /\ [Next]_vars => CommitInv'
<1> SUFFICES ASSUME TypeOK, CommitInv, [Next]_vars, NEW n \in Migrations
             PROVE  /\ mpc'[n] \in {"remove", "commit", "complete"} => copy'[n] # None
                    /\ source'[n] = "killed" => mpc'[n] = "complete"
  BY DEF CommitInv
<1> USE DEF TypeOK, CommitInv, Over, Underway, RemotePath, orchVars, netVars
<1>1. CASE UNCHANGED vars
  BY <1>1 DEF vars
<1>2. ASSUME NEW m \in Migrations, Start(m) \/ Interrupt(m)
      PROVE  /\ mpc'[n] \in {"remove", "commit", "complete"} => copy'[n] # None
             /\ source'[n] = "killed" => mpc'[n] = "complete"
  BY <1>2 DEF Start, Interrupt
<1>3. ASSUME NEW m \in Migrations, Orchestrator(m)
      PROVE  /\ mpc'[n] \in {"remove", "commit", "complete"} => copy'[n] # None
             /\ source'[n] = "killed" => mpc'[n] = "complete"
  BY <1>3 DEF Orchestrator, StartReceiver, RunTransmitter,
     TransferReturns, TransferTimeout, RunRestore, RemoveSnapshot, TerminateSource
<1>4. ASSUME NEW m \in Migrations, Transmitter(m) \/ Receiver(m)
      PROVE  mpc' = mpc /\ copy' = copy /\ source' = source
  BY <1>4 DEF Transmitter, TransmitterCompletes, TransmitterFails, Receiver,
     Bind, Accept, ReceiverGetsAll, ReceiverFails, ReceiverWrites
<1> QED
  BY <1>1, <1>2, <1>3, <1>4 DEF Next

-----------------------------------------------------------------------------
\* The invariant holds in every reachable state, for any set of migrations.
THEOREM Invariance == Spec => []IInv
<1>1. IInv /\ [Next]_vars => IInv'
  BY TypeStep, StartedStep, MetStep, UnsentStep, OnceStep, HeldInvStep,
     WrittenStep, CommitStep DEF IInv
<1> QED
  BY InitIInv, <1>1, PTL DEF Spec

\* Every reachable state of the migrations that share a port is type correct.
THEOREM TypeCorrect == Spec => []TypeOK
<1>1. IInv => TypeOK
  BY DEF IInv
<1> QED
  BY Invariance, <1>1, PTL

\* A source is killed only after a restore for its migration, and of its own
\* snapshot unless the migrations met (Teleporter._terminate_source).
THEOREM CommitsOwn == Spec => []CommitIsOwn
<1>1. IInv => CommitIsOwn
  <2> SUFFICES ASSUME IInv, NEW m \in Migrations, source[m] = "killed"
               PROVE  \/ copy[m] = m
                      \/ \E n \in Migrations : copy[m] = n /\ {m, n} \in met
    BY DEF CommitIsOwn
  <2>1. copy[m] \in Migrations
    BY DEF IInv, TypeOK, CommitInv
  <2>2. Held(copy[m], m)
    BY DEF Held
  <2>3. copy[m] = m \/ {m, copy[m]} \in met
    BY <2>1, <2>2 DEF IInv, HeldInv
  <2> QED
    BY <2>1, <2>3
<1> QED
  BY Invariance, <1>1, PTL

\* A snapshot becomes at most one process on the destination, whichever
\* receivers the transmitters reach (Receiver.AcceptSnapshot).
THEOREM NeverDoubled == Spec => []RestoredOnce
<1>1. IInv => RestoredOnce
  <2> SUFFICES ASSUME IInv, NEW m \in Migrations, NEW n \in Migrations,
                      m # n, copy[m] # None, copy[m] = copy[n]
               PROVE  FALSE
    BY DEF RestoredOnce
  <2>1. copy[m] \in Migrations
    BY DEF IInv, TypeOK
  <2>2. Held(copy[m], m) /\ Held(copy[m], n)
    BY DEF Held
  <2> QED
    BY <2>1, <2>2 DEF IInv, OnceInv
<1> QED
  BY Invariance, <1>1, PTL

\* After the restore no receiver writes to the path that _run_restore removes.
THEOREM RemovalIsFinal == Spec => NoImageAfterRestore
<1>1. ASSUME IInv, Next, NEW m \in Migrations, copy[m] # None
      PROVE  file'[RemotePath(m)] \in {file[RemotePath(m)], None}
  <2> USE DEF RemotePath, TypeOK, IInv, orchVars, netVars
  <2>1. ASSUME NEW k \in Migrations, ReceiverWrites(k) PROVE file'[m] = file[m]
    BY <1>1, <2>1 DEF ReceiverWrites, WrittenInv
  <2>2. ASSUME NEW k \in Migrations, RemoveSnapshot(k)
        PROVE  file'[m] \in {file[m], None}
    BY <2>2 DEF RemoveSnapshot
  <2> QED
    BY <1>1, <2>1, <2>2 DEF Next, Start, Interrupt, Orchestrator, StartReceiver,
       RunTransmitter, TransferReturns, TransferTimeout, RunRestore,
       TerminateSource, Transmitter, TransmitterCompletes, TransmitterFails,
       Receiver, Bind, Accept, ReceiverGetsAll, ReceiverFails
<1>2. IInv /\ [Next]_vars =>
        [\A m \in Migrations :
            copy[m] # None =>
                file'[RemotePath(m)] \in {file[RemotePath(m)], None}]_vars
  BY <1>1
<1> QED
  BY Invariance, <1>2, PTL DEF Spec, NoImageAfterRestore
=============================================================================
