-------------------------- MODULE SequentialBuild --------------------------
(***************************************************************************)
(* What _build_tickets of pm_system/orchestrator/orchestrator.py promises  *)
(* its caller, as if there were one thread: tickets are concluded one      *)
(* after the other, wave by wave and in the order of their derivation      *)
(* within a wave, each passed or escalated once and for all.  An error     *)
(* may end it early.  What a worker raises leaves whole waves in the       *)
(* result.  The integration of a ticket can end the build in the middle of *)
(* a wave, by a call the budget refuses or by an exception of git, the     *)
(* agents' API, the sandbox, the store, the PR publisher or the notifier   *)
(* ("failure"); the ticket it was at is not in the result.                 *)
(***************************************************************************)
EXTENDS Naturals, Sequences

CONSTANTS
    NumTickets,  \* tickets, in the order _derive_tickets lists them
    WaveOf       \* ticket -> its dependency wave

Tickets == 1..NumTickets

VARIABLES
    result,      \* ProjectResult.tickets: each ticket, its status, its PR
    outcome      \* how the build ended, "none" while it runs

vars == <<result, outcome>>

Concluded(t) == \E i \in 1..Len(result) : result[i].ticket = t

Open == {t \in Tickets : ~ Concluded(t)}

Precedes(t, u) == WaveOf[t] < WaveOf[u] \/ (WaveOf[t] = WaveOf[u] /\ t < u)

\* No wave is concluded in part.
BetweenWaves ==
    \A t, u \in Tickets : WaveOf[t] = WaveOf[u] /\ t \in Open => u \in Open

Init == result = <<>> /\ outcome = "none"

\* The first of the open tickets is merged if it passed, closed if it escalated.
Conclude(t, status) ==
    /\ outcome = "none" /\ t \in Open
    /\ \A u \in Open : ~ Precedes(u, t)
    /\ LET pr == IF status = "passed" THEN "merged" ELSE "closed"
       IN  result' = Append(result, [ticket |-> t, status |-> status, pr |-> pr])
    /\ UNCHANGED outcome

End(how) == outcome = "none" /\ outcome' = how /\ UNCHANGED result

Complete == Open = {} /\ End("complete")

WorkerFails ==
    /\ Open # {} /\ BetweenWaves
    /\ \E e \in {"AgentOutputError", "NameError", "failure"} : End(e)

IntegrationFails == Open # {} /\ End("failure")

Next ==
    \/ \E t \in Tickets, s \in {"passed", "escalated"} : Conclude(t, s)
    \/ Complete \/ WorkerFails \/ IntegrationFails

Spec == Init /\ [][Next]_vars
=============================================================================
