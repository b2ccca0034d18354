----------------------------- MODULE ProjectRun -----------------------------
(***************************************************************************)
(* Orchestrator.run_project of pm_system/orchestrator/orchestrator.py: the *)
(* project state machine from the raw idea to the deployed release.  Each  *)
(* agent stage is _produce (bounded retries, a new draft version in the    *)
(* artifact store), three human gates approve or send a stage back, the    *)
(* build is TicketBuild seen from outside, the ship path ends in a deploy. *)
(* The same project may be run again on the same store.                    *)
(*                                                                         *)
(* Contents of artifacts are abstract; what is kept is the version and the *)
(* status of the newest version of each, and the version a human signed.   *)
(***************************************************************************)
EXTENDS Naturals, FiniteSets

CONSTANTS
    MaxRetries,      \* OrchestratorConfig.max_retries
    Gate2Enabled, Gate3Enabled, EnableDesign, EnableShip,
    HasDataModel,    \* does the architecture define a data model?
    HasKB,           \* a Knowledge Base is given and enable_retrospective is on
    NumTickets,      \* bound: tickets the plan can have
    MaxRuns          \* bound: run_project calls for this project

ASSUME RunAssumption ==
    /\ MaxRetries \in Nat \ {0} /\ MaxRuns \in Nat /\ NumTickets \in Nat
    /\ {Gate2Enabled, Gate3Enabled, EnableDesign, EnableShip,
        HasDataModel, HasKB} \subseteq BOOLEAN

\* The stages that are one _produce each; the name is that of the artifact.
AgentStages == {"PRD", "BACKLOG", "WBS", "PLAN", "ARCH", "UX", "UI",
                "MIGRATIONS", "DEVOPS", "RELEASE", "DOCS"}

Artifacts == AgentStages \cup {"TICKETS", "INTEGRATION"}

Gates == {"gate1", "gate2", "gate3"}

Stages == AgentStages \cup Gates \cup
          {"idle", "derive", "build", "integration", "deploy", "retro",
           "finished", "crashed", "illegal"}

VARIABLES
    stage,         \* where run_project is
    attempt,       \* the attempt of the current _produce
    round,         \* the round of the current gate loop
    version,       \* newest version of each artifact, 0 where there is none
    state,         \* status of that version
    signed,        \* the version of each artifact a human gate last approved
    status,        \* ProjectResult.status
    shipped,       \* ProjectResult.shipped
    deployed,      \* the RELEASE version this run deployed, 0 for none
    broken,        \* escalated tickets of this run's build
    gatesAsked,    \* gate interactions of this run
    escalations,   \* Len(ProjectResult.escalations)
    interventions, \* Orchestrator._interventions
    kb,            \* Knowledge Base entries this run wrote
    kbReported,    \* ProjectResult.kb_entries_written
    runs           \* run_project calls so far

store == <<version, state, signed>>
result == <<status, shipped, deployed, broken, escalations, kbReported>>
vars == <<stage, attempt, round, store, result, gatesAsked, interventions,
          kb, runs>>

TypeOK ==
    /\ stage \in Stages
    /\ attempt \in 1..MaxRetries
    /\ round \in 1..MaxRetries
    /\ version \in [Artifacts -> Nat]
    /\ state \in [Artifacts -> {"absent", "draft", "approved"}]
    /\ signed \in [Artifacts -> Nat]
    /\ status \in {"completed", "escalated", "budget_exceeded"}
    /\ shipped \in BOOLEAN
    /\ deployed \in Nat
    /\ broken \in 0..NumTickets
    /\ gatesAsked \in Nat /\ escalations \in Nat /\ interventions \in Nat
    /\ kb \in Nat /\ kbReported \in Nat
    /\ runs \in 0..MaxRuns

Init ==
    /\ stage = "idle"
    /\ attempt = 1 /\ round = 1
    /\ version = [a \in Artifacts |-> 0]
    /\ state = [a \in Artifacts |-> "absent"]
    /\ signed = [a \in Artifacts |-> 0]
    /\ status = "completed" /\ shipped = FALSE /\ deployed = 0 /\ broken = 0
    /\ gatesAsked = 0 /\ escalations = 0 /\ interventions = 0
    /\ kb = 0 /\ kbReported = 0
    /\ runs = 0

-----------------------------------------------------------------------------
\* The human gate a stage's output goes to, and what a gate signs.
SignedAt(g) ==
    CASE g = "gate1" -> {"PRD", "BACKLOG", "WBS", "PLAN"}
      [] g = "gate2" -> {"ARCH"}
      [] g = "gate3" -> {"RELEASE"}

\* Where a rejected round starts again.
LoopStart(g) ==
    CASE g = "gate1" -> "BACKLOG"
      [] g = "gate2" -> "ARCH"
      [] g = "gate3" -> "RELEASE"

AfterArch == IF EnableDesign THEN "UX" ELSE "derive"

AfterGate(g) ==
    CASE g = "gate1" -> "ARCH"
      [] g = "gate2" -> AfterArch
      [] g = "gate3" -> "deploy"

AfterStage(s) ==
    CASE s = "PRD" -> "BACKLOG"
      [] s = "BACKLOG" -> "WBS"
      [] s = "WBS" -> "PLAN"
      [] s = "PLAN" -> "gate1"
      [] s = "ARCH" -> IF Gate2Enabled THEN "gate2" ELSE AfterArch
      [] s = "UX" -> "UI"
      [] s = "UI" -> "derive"
      [] s = "MIGRATIONS" -> "DEVOPS"
      [] s = "DEVOPS" -> "RELEASE"
      [] s = "RELEASE" -> IF Gate3Enabled THEN "gate3" ELSE "deploy"
      [] s = "DOCS" -> "retro"

\* The stages that set their own output to approved, no human asked.
ApprovesItself(s) ==
    \/ s \in {"UX", "UI", "MIGRATIONS", "DEVOPS", "DOCS"}
    \/ s = "ARCH" /\ ~ Gate2Enabled

\* run_project is called.
Start ==
    /\ stage \in {"idle", "finished", "crashed", "illegal"} /\ runs < MaxRuns
    /\ runs' = runs + 1
    /\ stage' = "PRD" /\ attempt' = 1 /\ round' = 1
    /\ status' = "completed" /\ shipped' = FALSE /\ deployed' = 0
    /\ broken' = 0 /\ escalations' = 0 /\ kbReported' = 0
    /\ gatesAsked' = 0 /\ interventions' = 0 /\ kb' = 0
    /\ UNCHANGED store

\* An exception run_project catches: EscalationError and ContextOverflowError
\* make the project escalated, BudgetExceededError budget_exceeded.
Stop(outcome) ==
    /\ status' = outcome
    /\ escalations' = escalations + 1
    /\ stage' = "retro"
    /\ attempt' = 1 /\ round' = 1
    /\ UNCHANGED <<shipped, deployed, broken, kbReported>>

\* Mutant of Put: a new version keeps the status of the one it replaces.
PutKeepsStatus(a) ==
    /\ version' = [version EXCEPT ![a] = @ + 1]
    /\ state' = [state EXCEPT ![a] =
           IF ApprovesItself(a) \/ @ = "approved" THEN "approved" ELSE "draft"]
    /\ UNCHANGED signed

\* _produce puts a new version of the artifact, a draft.
Put(a) ==
    /\ version' = [version EXCEPT ![a] = @ + 1]
    /\ state' = [state EXCEPT ![a] =
           IF ApprovesItself(a) THEN "approved" ELSE "draft"]
    /\ UNCHANGED signed

\* Mutant of Produce: a retry loop without an end.
ProduceForever(s) ==
    /\ stage = s
    /\ \/ /\ Put(s)
          /\ stage' = AfterStage(s) /\ attempt' = 1
          /\ shipped' = (shipped \/ s = "DOCS")
          /\ UNCHANGED <<round, status, deployed, broken, escalations, kbReported>>
       \/ /\ attempt' = IF attempt < MaxRetries THEN attempt + 1 ELSE 1
          /\ UNCHANGED <<stage, round, store, result>>
    /\ UNCHANGED <<gatesAsked, interventions, kb, runs>>

\* One attempt of a stage's _produce.
Produce(s) ==
    /\ stage = s
    /\ \/ /\ Put(s)
          /\ stage' = AfterStage(s) /\ attempt' = 1
          /\ shipped' = (shipped \/ s = "DOCS")
          /\ UNCHANGED <<round, status, deployed, broken, escalations, kbReported>>
       \/ /\ attempt < MaxRetries
          /\ attempt' = attempt + 1
          /\ UNCHANGED <<stage, round, store, result>>
       \/ attempt = MaxRetries /\ Stop("escalated") /\ UNCHANGED store
       \/ Stop("escalated") /\ UNCHANGED store
       \/ Stop("budget_exceeded") /\ UNCHANGED store
    /\ UNCHANGED <<gatesAsked, interventions, kb, runs>>

\* Mutant of Approve: only the last artifact of the stage is approved.
ApproveLast(S, next) ==
    /\ state' = [a \in Artifacts |->
           IF a \in S \cap {"PLAN", "ARCH"} THEN "approved" ELSE state[a]]
    /\ stage' = next
    /\ UNCHANGED version

\* set_status(APPROVED) of every artifact of S; one that is not a draft raises
\* InvalidTransitionError, which run_project does not catch.
Approve(S, next) ==
    /\ IF \A a \in S : state[a] = "draft"
       THEN /\ state' = [a \in Artifacts |-> IF a \in S THEN "approved" ELSE state[a]]
            /\ stage' = next
       ELSE stage' = "illegal" /\ UNCHANGED state
    /\ UNCHANGED version

\* The human signs the newest versions of what the gate is about.  Gates 1
\* and 2 approve them; the release is approved on the way to the deploy.
GateApproves(g) ==
    /\ signed' = [a \in Artifacts |->
           IF a \in SignedAt(g) THEN version[a] ELSE signed[a]]
    /\ Approve(IF g = "gate3" THEN {} ELSE SignedAt(g), AfterGate(g))
    /\ round' = 1
    /\ UNCHANGED <<attempt, result>>

GateRejects(g) ==
    /\ \/ /\ round < MaxRetries
          /\ round' = round + 1
          /\ stage' = LoopStart(g)
          /\ UNCHANGED <<attempt, result>>
       \/ /\ round = MaxRetries
          /\ Stop("escalated")
    /\ UNCHANGED store

\* Mutant of Gate: the round loop ends without its raise.
GateWearsOut(g) ==
    /\ stage = g
    /\ gatesAsked' = gatesAsked + 1
    /\ interventions' = interventions + 1
    /\ \/ GateApproves(g)
       \/ round < MaxRetries /\ GateRejects(g)
       \/ /\ round = MaxRetries
          /\ stage' = AfterGate(g) /\ round' = 1
          /\ UNCHANGED <<attempt, store, result>>
    /\ UNCHANGED <<kb, runs>>

\* A human gate, through _request_gate: approve, or reject with comments for
\* the next round.
Gate(g) ==
    /\ stage = g
    /\ gatesAsked' = gatesAsked + 1
    /\ interventions' = interventions + 1
    /\ GateApproves(g) \/ GateRejects(g)
    /\ UNCHANGED <<kb, runs>>

\* _derive_tickets: every ticket artifact is upserted and approved.
DeriveTickets ==
    /\ stage = "derive"
    /\ version' = [version EXCEPT !["TICKETS"] = @ + 1]
    /\ state' = [state EXCEPT !["TICKETS"] = "approved"]
    /\ stage' = "build"
    /\ UNCHANGED <<attempt, round, signed, result, gatesAsked, interventions,
                   kb, runs>>

\* Mutant of Build: the ship path looks at the ship switch only.
BuildShipsAnyway ==
    /\ stage = "build"
    /\ \E n \in 0..NumTickets :
        /\ broken' = n
        /\ escalations' = escalations + n
        /\ interventions' = interventions + n
        /\ status' = IF n > 0 THEN "escalated" ELSE status
        /\ stage' = IF EnableShip THEN "integration" ELSE "retro"
    /\ UNCHANGED <<attempt, round, shipped, deployed, kbReported, store,
                   gatesAsked, kb, runs>>

\* _build_tickets and the branch after it: n tickets escalated, or the budget
\* ran out, or an exception nobody catches (TicketBuild shows which).
Build ==
    /\ stage = "build"
    /\ \/ \E n \in 0..NumTickets :
            /\ broken' = n
            /\ escalations' = escalations + n
            /\ interventions' = interventions + n
            /\ status' = IF n > 0 THEN "escalated" ELSE status
            /\ stage' = IF n = 0 /\ EnableShip THEN "integration" ELSE "retro"
            /\ UNCHANGED <<attempt, round, shipped, deployed, kbReported>>
       \/ Stop("budget_exceeded") /\ UNCHANGED interventions
       \/ stage' = "crashed"
          /\ UNCHANGED <<attempt, round, result, interventions>>
    /\ UNCHANGED <<store, gatesAsked, kb, runs>>

\* _ship begins: the suite on main, then the license check.
Integration ==
    /\ stage = "integration"
    /\ \/ /\ version' = [version EXCEPT !["INTEGRATION"] = @ + 1]
          /\ state' = [state EXCEPT !["INTEGRATION"] = "approved"]
          /\ stage' = IF HasDataModel THEN "MIGRATIONS" ELSE "DEVOPS"
          /\ UNCHANGED <<attempt, round, signed, result>>
       \/ Stop("escalated") /\ UNCHANGED store
    /\ UNCHANGED <<gatesAsked, interventions, kb, runs>>

\* The end of _release_with_gate3: the release is approved, then deployed.
Deploy ==
    /\ stage = "deploy"
    /\ IF state["RELEASE"] = "draft"
       THEN /\ state' = [state EXCEPT !["RELEASE"] = "approved"]
            /\ deployed' = version["RELEASE"]
            /\ stage' = "DOCS"
       ELSE stage' = "illegal" /\ UNCHANGED <<state, deployed>>
    /\ UNCHANGED <<attempt, round, version, signed, status, shipped, broken,
                   escalations, kbReported, gatesAsked, interventions, kb, runs>>

\* _retrospective and _finish.  The deterministic part writes n entries; then
\* the agent's lessons are added, or its output is invalid, or its context cap
\* or the budget ends the retrospective.
Retro ==
    /\ stage = "retro"
    /\ stage' = "finished"
    /\ IF HasKB
       THEN \E n \in 0..1 :
              \/ \E lessons \in 0..1 :
                    kb' = n + lessons /\ kbReported' = n + lessons
                    /\ UNCHANGED escalations
              \/ kb' = n /\ escalations' = escalations + 1 /\ UNCHANGED kbReported
       ELSE UNCHANGED <<kb, kbReported, escalations>>
    /\ UNCHANGED <<attempt, round, store, status, shipped, deployed, broken,
                   gatesAsked, interventions, runs>>

Step ==
    \/ \E s \in AgentStages : Produce(s)
    \/ \E g \in Gates : Gate(g)
    \/ DeriveTickets \/ Build \/ Integration \/ Deploy \/ Retro

Next == Start \/ Step

Spec == Init /\ [][Next]_vars

\* run_project runs on: agents, gates and tools answer.
FairSpec == Spec /\ WF_vars(Step)

-----------------------------------------------------------------------------
\* No ticket is derived or built unless the newest versions of the PRD, the
\* backlog, the estimates, the plan and the architecture are approved, and
\* they are the very versions the human saw: a rejected round leaves nothing
\* behind that a later approval lets through.
BuiltFromSignedPlan ==
    stage \in {"UX", "UI", "derive", "build", "integration", "MIGRATIONS",
               "DEVOPS", "RELEASE", "gate3", "deploy", "DOCS"} =>
        \A a \in {"PRD", "BACKLOG", "WBS", "PLAN", "ARCH"} :
            /\ state[a] = "approved"
            /\ a # "ARCH" \/ Gate2Enabled => signed[a] = version[a]

\* What is deployed is the newest release, signed at Gate 3 if there is one,
\* from a build with no escalated ticket that passed integration and license
\* checks.
DeployedWasSigned ==
    deployed > 0 =>
        /\ broken = 0
        /\ deployed = version["RELEASE"] /\ state["RELEASE"] = "approved"
        /\ Gate3Enabled => signed["RELEASE"] = deployed
        /\ state["INTEGRATION"] = "approved"

\* With the ship path on, a run ends completed exactly if it shipped, and a
\* shipped run has a live deployment.
CompletedMeansShipped ==
    /\ stage = "finished" /\ EnableShip => (status = "completed" <=> shipped)
    /\ shipped => deployed > 0 /\ status = "completed"

\* No call of set_status in the run is an illegal transition, in any order of
\* retries, rejected gate rounds and runs.
NoIllegalTransition == stage # "illegal"

\* Every run ends.
Terminates == (stage = "PRD") ~> (stage \in {"finished", "crashed"})

-----------------------------------------------------------------------------
\* "how many times a human had to engage (gates + escalations)".
EscalationsAreInterventions ==
    stage = "finished" /\ status = "escalated" =>
        interventions > gatesAsked

\* "writes structured KB entries at project close (reported as
\* kb_entries_written)".
KBEntriesReported == stage = "finished" => kbReported = kb
=============================================================================
