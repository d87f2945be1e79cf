------------------------------ MODULE Handoff ------------------------------
(***************************************************************************)
(* What a migration promises, with every mechanism left out.  One process  *)
(* lives on the source machine; a copy of it may come to life on the       *)
(* destination; at some point the caller gets a verdict.  The promise is   *)
(* the order of these events: the source is retired by Wraith only once a  *)
(* copy has come to life, and never after a Wraith error was reported.     *)
(* The module does not promise that the copy is gone when the verdict is   *)
(* "failure": Teleporter cannot keep that promise (see the README).        *)
(***************************************************************************)

VARIABLES
    source,    \* "present", "left" (ended by itself), "retired" (by Wraith)
    copy,      \* "absent", "live", "ended"
    verdict    \* "open", "success", "failure" (WraithError), "aborted" (any
               \* other exception, e.g. an interrupt)

vars == <<source, copy, verdict>>

TypeOK ==
    /\ source  \in {"present", "left", "retired"}
    /\ copy    \in {"absent", "live", "ended"}
    /\ verdict \in {"open", "success", "failure", "aborted"}

Init ==
    /\ source  = "present"
    /\ copy    = "absent"
    /\ verdict = "open"

SourceLeaves ==
    /\ source = "present"
    /\ source' = "left"
    /\ UNCHANGED <<copy, verdict>>

\* The copy may appear late, after the verdict: nobody cancels a restorer.
CopyAppears ==
    /\ copy = "absent"
    /\ copy' = "live"
    /\ UNCHANGED <<source, verdict>>

CopyEnds ==
    /\ copy = "live"
    /\ copy' = "ended"
    /\ UNCHANGED <<source, verdict>>

\* A source that got SIGTERM may obey it after an abort, hence "aborted".
Retire ==
    /\ verdict \in {"open", "aborted"}
    /\ copy # "absent"
    /\ source = "present"
    /\ source' = "retired"
    /\ UNCHANGED <<copy, verdict>>

Succeed ==
    /\ verdict = "open"
    /\ copy # "absent"
    /\ verdict' = "success"
    /\ UNCHANGED <<source, copy>>

Fail ==
    /\ verdict = "open"
    /\ source # "retired"
    /\ verdict' = "failure"
    /\ UNCHANGED <<source, copy>>

Abort ==
    /\ verdict = "open"
    /\ verdict' = "aborted"
    /\ UNCHANGED <<source, copy>>

Next ==
    \/ SourceLeaves
    \/ CopyAppears
    \/ CopyEnds
    \/ Retire
    \/ Succeed
    \/ Fail
    \/ Abort

Spec == Init /\ [][Next]_vars
=============================================================================
