--------------------------- MODULE ChangeRequests ---------------------------
(***************************************************************************)
(* A project after its run: Orchestrator.apply_change_request, _reship and *)
(* handle_incident of pm_system/orchestrator/orchestrator.py, called one   *)
(* after the other on the store, the repository and the deployment that a  *)
(* run or an earlier call left.  An exception these methods do not catch   *)
(* (budget, context cap, missing artifact) ends the call where it is; the  *)
(* process may also be restarted, which forgets Orchestrator._deployments. *)
(*                                                                         *)
(* CODE stands for the CODE, QA and REVIEW artifacts of a ticket, which    *)
(* _record_ticket_artifacts writes together.  Every ticket is a point.     *)
(***************************************************************************)
EXTENDS Naturals, FiniteSets

CONSTANTS
    NumTickets,
    Stories,         \* user stories a change request may name
    StoryOf,         \* ticket -> its story
    GateThreshold,   \* OrchestratorConfig.cr_gate_threshold_points
    EnableShip,      \* OrchestratorConfig.enable_ship
    MaxCalls         \* bound: calls after the run

Tickets == 1..NumTickets

ASSUME ChangeAssumption ==
    /\ NumTickets \in Nat /\ GateThreshold \in Nat /\ MaxCalls \in Nat
    /\ StoryOf \in [Tickets -> Stories]
    /\ EnableShip \in BOOLEAN

PRD == <<"PRD", 0>>
RELEASE == <<"RELEASE", 0>>
DOCS == <<"DOCS", 0>>
Ticket(t) == <<"TCK", t>>
Code(t) == <<"CODE", t>>

Artifacts == {PRD, RELEASE, DOCS} \cup {Ticket(t) : t \in Tickets}
                                  \cup {Code(t) : t \in Tickets}

VARIABLES
    pc,            \* where the current call is, "idle" between calls
    state,         \* status of the newest version of each artifact
    version,       \* that version, 0 where there is none
    story,         \* ChangeRequest.target_story_id
    amends,        \* does the request carry new acceptance criteria?
    byOps,         \* is it the fix of an incident (handle_incident)?
    blast,         \* ChangeResult.blast_radius
    pending,       \* the affected tickets still to be re-run
    wasShipped,    \* the local was_shipped
    decision,      \* ChangeResult.decision; "raised" where the call raised
    before,        \* state and version when the request came in
    deployed,      \* the RELEASE version in production, 0 for none
    rolledBack,    \* is that deployment rolled back?
    handle,        \* does _deployments know the deployment?
    signed,        \* the RELEASE version a human approved at Gate 3
    interventions, \* Orchestrator._interventions
    asked,         \* gates asked since the outermost call began
    reverted,      \* IncidentResult.rolled_back
    verdict,       \* IncidentResult.decision
    shippedOnce,   \* did the project's run ship?
    calls          \* calls so far

store == <<state, version>>
request == <<story, amends, byOps, before>>
impact == <<blast, wasShipped>>
production == <<deployed, rolledBack, handle, signed, shippedOnce>>
incident == <<reverted, verdict>>
vars == <<pc, store, request, impact, pending, decision, production,
          interventions, asked, incident, calls>>

Statuses == {"absent", "draft", "approved", "stale"}

TypeOK ==
    /\ pc \in {"idle", "triage", "impact", "budgetGate", "amend", "rerun",
               "reship", "docs", "opsTriage", "rollbackGate", "fix", "verdict"}
    /\ state \in [Artifacts -> Statuses]
    /\ version \in [Artifacts -> Nat]
    /\ story \in Stories /\ amends \in BOOLEAN /\ byOps \in BOOLEAN
    /\ blast \subseteq Artifacts /\ pending \subseteq Tickets
    /\ wasShipped \in BOOLEAN
    /\ decision \in {"accepted", "deferred", "rejected", "escalated", "raised"}
    /\ before \in [state : [Artifacts -> Statuses], version : [Artifacts -> Nat]]
    /\ deployed \in Nat /\ rolledBack \in BOOLEAN /\ handle \in BOOLEAN
    /\ signed \in Nat
    /\ interventions \in Nat /\ asked \in Nat
    /\ reverted \in BOOLEAN
    /\ verdict \in {"no_action", "ticketed", "rolled_back",
                    "rolled_back+ticketed", "escalated", "raised"}
    /\ shippedOnce \in BOOLEAN
    /\ calls \in 0..MaxCalls

\* How run_project can leave a built project (ProjectRun): shipped; refused at
\* Gate 3; deployed with the docs failed after it; never on the ship path, with
\* one ticket escalated.
Init ==
    /\ \E run \in {"shipped", "refused", "undocumented", "unshipped"} :
        /\ state = [a \in Artifacts |->
             CASE a = RELEASE /\ run = "refused" -> "draft"
               [] a = RELEASE /\ run = "unshipped" -> "absent"
               [] a = DOCS /\ run # "shipped" -> "absent"
               [] a = Code(1) /\ run = "unshipped" -> "absent"
               [] OTHER -> "approved"]
        /\ version = [a \in Artifacts |-> IF state[a] = "absent" THEN 0 ELSE 1]
        /\ deployed = IF run \in {"shipped", "undocumented"} THEN 1 ELSE 0
        /\ handle = (run \in {"shipped", "undocumented"})
        /\ shippedOnce = (run = "shipped")
    /\ signed = deployed
    /\ rolledBack = FALSE
    /\ pc = "idle"
    /\ story \in Stories /\ amends = FALSE /\ byOps = FALSE
    /\ blast = {} /\ pending = {} /\ wasShipped = FALSE
    /\ decision = "accepted"
    /\ before = [state |-> state, version |-> version]
    /\ interventions = 0 /\ asked = 0
    /\ reverted = FALSE /\ verdict = "no_action"
    /\ calls = 0

-----------------------------------------------------------------------------
(* apply_change_request                                                    *)

\* Entry: the intervention count starts again, also inside handle_incident.
Receive(s, new, ops) ==
    /\ pc' = "triage"
    /\ story' = s /\ amends' = new /\ byOps' = ops
    /\ before' = [state |-> state, version |-> version]
    /\ blast' = {} /\ pending' = {} /\ wasShipped' = FALSE
    /\ decision' = "accepted"
    /\ interventions' = 0
    /\ UNCHANGED <<store, production>>

ChangeRequested(s, new) ==
    /\ pc = "idle" /\ calls < MaxCalls
    /\ calls' = calls + 1
    /\ asked' = 0
    /\ reverted' = FALSE /\ verdict' = "no_action"
    /\ Receive(s, new, FALSE)

\* The call returns with decision d, to handle_incident if that called it.
Return(d) ==
    /\ decision' = d
    /\ pc' = IF byOps THEN "verdict" ELSE "idle"

\* An exception no handler on the way out catches.
Abort ==
    /\ pc' = "idle"
    /\ decision' = "raised" /\ verdict' = "raised"

Raises ==
    /\ pc # "idle"
    /\ Abort
    /\ UNCHANGED <<store, request, impact, pending, production, interventions,
                   asked, reverted, calls>>

\* 1. The product owner accepts, defers, rejects or answers garbage.
Triage ==
    /\ pc = "triage"
    /\ \/ pc' = "impact" /\ UNCHANGED decision
       \/ \E d \in {"deferred", "rejected", "escalated"} : Return(d)
    /\ UNCHANGED <<store, request, impact, pending, production, interventions,
                   asked, incident, calls>>

Exists(a) == state[a] # "absent"

\* The tickets whose trace names the story.
Affected == {t \in Tickets : StoryOf[t] = story /\ Exists(Ticket(t))}

\* 2. and 3. Impact analysis by trace ids, and whether the delta needs a gate.
Impact ==
    /\ pc = "impact"
    /\ \/ /\ Affected = {}
          /\ Return("escalated")
          /\ UNCHANGED <<impact, pending>>
       \/ /\ Affected # {}
          /\ wasShipped' = Exists(RELEASE)
          /\ blast' = {PRD} \cup {Ticket(t) : t \in Affected}
                            \cup {Code(t) : t \in {u \in Affected : Exists(Code(u))}}
                            \cup (IF Exists(RELEASE) THEN {DOCS, RELEASE} ELSE {})
          /\ pending' = Affected
          /\ pc' = IF Cardinality(Affected) > GateThreshold
                   THEN "budgetGate" ELSE "amend"
          /\ UNCHANGED decision
    /\ UNCHANGED <<store, request, production, interventions, asked, incident,
                   calls>>

\* Mutant of BudgetGate: the PRD is amended before the human is asked.
BudgetGateTooLate ==
    /\ pc = "budgetGate"
    /\ interventions' = interventions + 1
    /\ asked' = asked + 1
    /\ version' = [version EXCEPT ![PRD] = @ + 1]
    /\ \/ pc' = "amend" /\ UNCHANGED decision
       \/ Return("rejected")
    /\ UNCHANGED <<state, request, impact, pending, production, incident, calls>>

\* The change budget gate.
BudgetGate ==
    /\ pc = "budgetGate"
    /\ interventions' = interventions + 1
    /\ asked' = asked + 1
    /\ \/ pc' = "amend" /\ UNCHANGED decision
       \/ Return("rejected")
    /\ UNCHANGED <<store, request, impact, pending, production, incident, calls>>

\* The artifacts of S that are approved become stale; A is amended before.
Stale(S, A) ==
    [a \in Artifacts |->
        IF a \in S /\ (a \in A \/ state[a] = "approved") THEN "stale" ELSE state[a]]

Amended == IF amends THEN {PRD} ELSE {}

\* 4. The PRD gets its new version, approved; then the blast radius is walked
\* and what is approved in it flips to stale.  The walk raises at a DOCS that
\* does not exist, RELEASE comes after it.
AmendAndInvalidate ==
    LET missing == DOCS \in blast /\ ~ Exists(DOCS)
    IN  /\ pc = "amend"
        /\ version' = [a \in Artifacts |->
               IF a \in Amended THEN version[a] + 1 ELSE version[a]]
        /\ IF missing
           THEN /\ state' = Stale(blast \ {DOCS, RELEASE}, Amended)
                /\ Abort
           ELSE /\ state' = Stale(blast, Amended)
                /\ pc' = "rerun" /\ UNCHANGED <<decision, verdict>>
        /\ UNCHANGED <<request, impact, pending, production, interventions,
                       asked, reverted, calls>>

\* A new version of each artifact of S, approved.
Renew(S) ==
    /\ state' = [a \in Artifacts |-> IF a \in S THEN "approved" ELSE state[a]]
    /\ version' = [a \in Artifacts |-> IF a \in S THEN version[a] + 1 ELSE version[a]]

\* Mutants of Rerun: every ticket is built again; an escalated ticket does not
\* change the decision.
RerunAll(t) ==
    /\ pc = "rerun"
    /\ Renew({Ticket(t), Code(t)})
    /\ pending' = pending \ {t}
    /\ UNCHANGED <<request, impact, production, asked, reverted, calls, pc,
                   decision, verdict, interventions>>

RerunKeepsDecision(t) ==
    /\ pc = "rerun"
    /\ t \in pending /\ \A u \in pending : t <= u
    /\ \E made \in {{Ticket(t)}, {Ticket(t), Code(t)}} : Renew(made)
    /\ pending' = pending \ {t}
    /\ UNCHANGED <<request, impact, production, asked, reverted, calls, pc,
                   decision, verdict, interventions>>

\* 5. The next affected ticket is upserted and built (TicketBuild with a wave
\* of one ticket): it passes, its CODE, QA and REVIEW written again; or it
\* escalates, or the build raises, after the upsert and before or after the
\* CODE is written (the merge comes after it).
Rerun(t) ==
    /\ pc = "rerun"
    /\ t \in pending /\ \A u \in pending : t <= u
    /\ \/ /\ Renew({Ticket(t), Code(t)})
          /\ pending' = pending \ {t}
          /\ UNCHANGED <<pc, decision, verdict, interventions>>
       \/ /\ \E made \in {{Ticket(t)}, {Ticket(t), Code(t)}} : Renew(made)
          /\ \/ /\ pending' = pending \ {t}
                /\ decision' = "escalated"
                /\ interventions' = interventions + 1
                /\ UNCHANGED <<pc, verdict>>
             \/ /\ Abort
                /\ UNCHANGED <<pending, interventions>>
    /\ UNCHANGED <<request, impact, production, asked, reverted, calls>>

\* 6. Every affected ticket is done: re-ship if the change was accepted and
\* there was a release.
AfterReruns ==
    /\ pc = "rerun" /\ pending = {}
    /\ \/ /\ decision = "accepted" /\ wasShipped /\ EnableShip
          /\ pc' = "reship"
          /\ UNCHANGED decision
       \/ /\ ~ (decision = "accepted" /\ wasShipped /\ EnableShip)
          /\ Return(decision)
    /\ UNCHANGED <<store, request, impact, pending, production, interventions,
                   asked, incident, calls>>

\* Mutant of Reship: the patch release is cut and not deployed.
ReshipUndeployed ==
    /\ pc = "reship"
    /\ Renew({RELEASE})
    /\ pc' = "docs"
    /\ UNCHANGED <<request, impact, pending, production, decision,
                   interventions, asked, incident, calls>>

\* _reship, first half: the suite on main, the patch release, the deploy.  The
\* suite may be red, the release agent escalate, the deployer raise.
Reship ==
    /\ pc = "reship"
    /\ \/ /\ Renew({RELEASE})
          /\ deployed' = version[RELEASE] + 1
          /\ rolledBack' = FALSE /\ handle' = TRUE
          /\ pc' = "docs"
          /\ UNCHANGED <<decision, verdict>>
       \/ /\ Renew({RELEASE})
          /\ Abort
          /\ UNCHANGED <<deployed, rolledBack, handle>>
       \/ /\ Return("escalated")
          /\ UNCHANGED <<store, deployed, rolledBack, handle, verdict>>
    /\ UNCHANGED <<request, impact, pending, signed, shippedOnce,
                   interventions, asked, reverted, calls>>

\* _reship, second half: the refreshed docs.
Redocument ==
    /\ pc = "docs"
    /\ \/ Renew({DOCS}) /\ Return(decision)
       \/ Return("escalated") /\ UNCHANGED store
    /\ UNCHANGED <<request, impact, pending, production, interventions, asked,
                   incident, calls>>

-----------------------------------------------------------------------------
(* handle_incident                                                         *)

IncidentReported ==
    /\ pc = "idle" /\ calls < MaxCalls
    /\ calls' = calls + 1
    /\ pc' = "opsTriage"
    /\ interventions' = 0 /\ asked' = 0
    /\ reverted' = FALSE /\ verdict' = "no_action"
    /\ UNCHANGED <<store, request, impact, pending, decision, production>>

\* The ops agent answers garbage, or says whether to roll back.
OpsTriage ==
    /\ pc = "opsTriage"
    /\ \/ pc' = "idle" /\ verdict' = "escalated"
       \/ handle /\ pc' = "rollbackGate" /\ UNCHANGED verdict
       \/ pc' = "fix" /\ UNCHANGED verdict
    /\ UNCHANGED <<store, request, impact, pending, decision, production,
                   interventions, asked, reverted, calls>>

\* A human confirms the rollback, or does not.
RollbackGate ==
    /\ pc = "rollbackGate"
    /\ interventions' = interventions + 1
    /\ asked' = asked + 1
    /\ \/ rolledBack' = TRUE /\ reverted' = TRUE
       \/ UNCHANGED <<rolledBack, reverted>>
    /\ pc' = "fix"
    /\ UNCHANGED <<store, request, impact, pending, decision, deployed, handle,
                   signed, shippedOnce, verdict, calls>>

\* Not actionable: the incident ends here.
NoFix ==
    /\ pc = "fix"
    /\ pc' = "idle"
    /\ verdict' = IF reverted THEN "rolled_back" ELSE "no_action"
    /\ UNCHANGED <<store, request, impact, pending, decision, production,
                   interventions, asked, reverted, calls>>

\* Actionable: the fix is a change request without new criteria.
Fix(s) ==
    /\ pc = "fix"
    /\ Receive(s, FALSE, TRUE)
    /\ UNCHANGED <<asked, incident, calls>>

\* What handle_incident reports once the fix's change request is back.
Verdict ==
    /\ pc = "verdict"
    /\ pc' = "idle"
    /\ verdict' = IF reverted THEN "rolled_back+ticketed"
                  ELSE IF decision = "escalated" THEN "escalated" ELSE "ticketed"
    /\ UNCHANGED <<store, request, impact, pending, decision, production,
                   interventions, asked, reverted, calls>>

\* The process ends and starts again on the same databases and workspace.
Restart ==
    /\ handle
    /\ handle' = FALSE
    /\ pc' = "idle"
    /\ \/ pc # "idle" /\ decision' = "raised" /\ verdict' = "raised"
       \/ pc = "idle" /\ UNCHANGED <<decision, verdict>>
    /\ UNCHANGED <<store, request, impact, pending, deployed, rolledBack, signed,
                   shippedOnce, interventions, asked, reverted, calls>>

Step ==
    \/ Triage \/ Impact \/ BudgetGate \/ AmendAndInvalidate
    \/ \E t \in Tickets : Rerun(t)
    \/ AfterReruns \/ Reship \/ Redocument
    \/ OpsTriage \/ RollbackGate \/ NoFix \/ Verdict
    \/ \E s \in Stories : Fix(s)

Next ==
    \/ \E s \in Stories, new \in BOOLEAN : ChangeRequested(s, new)
    \/ IncidentReported
    \/ Step \/ Raises \/ Restart

Spec == Init /\ [][Next]_vars

-----------------------------------------------------------------------------
Returned == pc = "idle" /\ calls > 0

\* "all planning artifacts and the other ticket untouched": whatever fails on
\* the way, the store differs from what it was when the request came in only
\* inside the blast radius and in code of affected tickets.
OnlyBlastRadiusTouched ==
    \A a \in Artifacts :
        state[a] # before.state[a] \/ version[a] # before.version[a] =>
            a \in blast \cup {Code(t) : t \in Affected}

\* A request that is rejected or deferred, by the product owner or at the
\* budget gate, has changed nothing.
RefusedChangesNothing ==
    decision \in {"rejected", "deferred"} /\ pc \in {"idle", "verdict"} =>
        before = [state |-> state, version |-> version]

\* When a request is accepted, every ticket, code and release artifact of its
\* blast radius has been made again and is approved, whatever earlier calls
\* that failed half-way had left behind, and no affected ticket is left
\* without code.
AcceptedIsRenewed ==
    decision = "accepted" /\ pc \in {"idle", "verdict"} /\ blast # {} =>
        /\ \A a \in blast \ {PRD} :
            (a \in {RELEASE, DOCS} => EnableShip) =>
                state[a] = "approved" /\ version[a] > before.version[a]
        /\ \A t \in Affected : state[Code(t)] = "approved"

\* After an accepted change production runs the newest release.
AcceptedIsDeployed ==
    decision = "accepted" /\ pc = "idle" /\ wasShipped /\ EnableShip =>
        deployed = version[RELEASE]

-----------------------------------------------------------------------------
(* What documents say of change requests and incidents and the code does   *)
(* not do.                                                                 *)

\* "affected artifacts flip to stale, and only those re-run": after an
\* accepted change nothing that was approved is left stale.
AcceptedLeavesNothingStale ==
    decision = "accepted" /\ Returned /\ before.state[PRD] = "approved" =>
        state[PRD] = "approved"

\* "Re-ship: [...] (only if it shipped before)".
WasShippedMeansShipped == wasShipped => shippedOnce

\* "gate3_enabled [...] human gate on release": every release in production
\* was approved by a human.
DeployedWasSigned == deployed > 0 => signed = deployed

\* "Every gate interaction is a human intervention".
GatesAreInterventions == Returned => interventions >= asked

\* "An actionable incident becomes a fix that re-enters the dev loop": an
\* incident reported as ticketed has an accepted change request.
TicketedMeansAccepted ==
    Returned /\ verdict \in {"ticketed", "rolled_back+ticketed"} =>
        decision = "accepted"
=============================================================================
