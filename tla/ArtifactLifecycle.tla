------------------------- MODULE ArtifactLifecycle -------------------------
(***************************************************************************)
(* What pm_system/artifacts/store.py promises of one artifact, with every  *)
(* call atomic: a version number that only grows, one per accepted put,    *)
(* and a status of the newest version that only moves forward along        *)
(* draft -> approved -> stale -> superseded.  Nothing is promised once a   *)
(* write has failed inside the store: what it left in the open transaction *)
(* becomes durable with some later call.                                   *)
(***************************************************************************)
EXTENDS Naturals, ArtifactStatuses

CONSTANTS
    Threads,      \* threads that call the store
    Artifacts,    \* artifact ids
    MaxVersion,   \* bound: highest version a put may create
    Moves,        \* the statuses callers pass to set_status
    Nobody        \* "no thread"

VARIABLES
    current,      \* the newest committed version of each artifact
    broken        \* has a write failed?

vars == <<current, broken>>

None == [version |-> 0, status |-> "absent", author |-> Nobody]

Init ==
    /\ current = [a \in Artifacts |-> None]
    /\ broken = FALSE

\* An accepted put: the next version, a draft by its author.
Publish(t, a) ==
    /\ ~ broken
    /\ current[a].version < MaxVersion
    /\ current' = [current EXCEPT ![a] =
           [version |-> @.version + 1, status |-> "draft", author |-> t]]
    /\ UNCHANGED broken

\* An accepted set_status: the newest version moves along the lifecycle.
Move(a, s) ==
    /\ ~ broken
    /\ s \in AllowedTransitions(current[a].status)
    /\ current' = [current EXCEPT ![a] = [@ EXCEPT !.status = s]]
    /\ UNCHANGED broken

\* A write fails, and no call promises anything from then on.
WriteFails == ~ broken /\ broken' = TRUE /\ UNCHANGED current
Unreliable == broken /\ broken' = TRUE

Next ==
    \/ \E a \in Artifacts :
        \/ \E t \in Threads : Publish(t, a)
        \/ \E s \in Moves : Move(a, s)
    \/ WriteFails
    \/ Unreliable

Spec == Init /\ [][Next]_vars
=============================================================================
