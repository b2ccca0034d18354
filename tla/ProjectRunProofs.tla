--------------------------- MODULE ProjectRunProofs ---------------------------
(***************************************************************************)
(* Theorems about ProjectRun, for any number of retries, tickets and runs  *)
(* and every configuration.                                                *)
(*                                                                         *)
(* The inductive invariant says, of each stage a run can be in, which      *)
(* artifacts are drafts there (Drafts: what the next gate or the deploy    *)
(* will approve), which the human has signed (PlanSigned, ArchSigned),     *)
(* what the ship path has behind it (Shipping), and how the outcome stands *)
(* (Outcome).  It holds across runs: a run starts on the store the last    *)
(* one left, at whatever stage that one ended.                             *)
(***************************************************************************)
EXTENDS ProjectRun, TLAPS

Plan == {"PRD", "BACKLOG", "WBS", "PLAN"}

\* The stages behind Gate 3's stage, the integration, the build and Gate 2.
Released == {"gate3", "deploy"}
Integrated == {"MIGRATIONS", "DEVOPS", "RELEASE"} \cup Released \cup {"DOCS"}
Built == {"integration"} \cup Integrated
Designed == {"UX", "UI", "derive", "build"} \cup Built

Over == {"retro", "finished"}

Drafts ==
    /\ stage \in {"BACKLOG", "WBS", "PLAN", "gate1"} => state["PRD"] = "draft"
    /\ stage \in {"WBS", "PLAN", "gate1"} => state["BACKLOG"] = "draft"
    /\ stage \in {"PLAN", "gate1"} => state["WBS"] = "draft"
    /\ stage = "gate1" => state["PLAN"] = "draft"
    /\ stage = "gate2" => state["ARCH"] = "draft"
    /\ stage \in Released => state["RELEASE"] = "draft" /\ version["RELEASE"] > 0

PlanSigned ==
    stage \in {"ARCH", "gate2"} \cup Designed =>
        \A a \in Plan : state[a] = "approved" /\ signed[a] = version[a]

ArchSigned ==
    stage \in Designed =>
        /\ state["ARCH"] = "approved"
        /\ Gate2Enabled => signed["ARCH"] = version["ARCH"]

Shipping ==
    /\ stage \in Built => broken = 0
    /\ stage \in Integrated => state["INTEGRATION"] = "approved"
    /\ stage = "deploy" /\ Gate3Enabled => signed["RELEASE"] = version["RELEASE"]
    /\ deployed > 0 => stage \in {"DOCS"} \cup Over
    /\ stage = "DOCS" => deployed > 0

Outcome ==
    /\ stage \notin Over => ~ shipped /\ status = "completed"
    /\ stage \in Over /\ EnableShip => (status = "completed" <=> shipped)
    /\ shipped => deployed > 0 /\ status = "completed"

\* All of the invariant but the types.
RunInv ==
    /\ Drafts /\ PlanSigned /\ ArchSigned /\ Shipping /\ Outcome
    /\ DeployedWasSigned /\ NoIllegalTransition

IInv == TypeOK /\ RunInv

\* The sets of stages, spelled out.
LEMMA StageSets ==
    /\ Released = {"gate3", "deploy"} /\ Over = {"retro", "finished"}
    /\ Integrated = {"MIGRATIONS", "DEVOPS", "RELEASE", "gate3", "deploy", "DOCS"}
    /\ Built = {"integration", "MIGRATIONS", "DEVOPS", "RELEASE", "gate3", "deploy", "DOCS"}
    /\ Designed = {"UX", "UI", "derive", "build", "integration", "MIGRATIONS", "DEVOPS",
                   "RELEASE", "gate3", "deploy", "DOCS"}
BY DEF Released, Integrated, Built, Designed, Over

-----------------------------------------------------------------------------
(* Stops and retries                                                       *)

\* The run ends early, from any stage before the retrospective.
LEMMA StopKeeps ==
    ASSUME IInv, stage \notin Over \cup {"illegal"},
           NEW outcome \in {"escalated", "budget_exceeded"}, Stop(outcome),
           UNCHANGED <<store, kb, runs>>,
           interventions' \in Nat, gatesAsked' \in Nat
    PROVE  IInv'
<1>1. TypeOK'
    BY RunAssumption DEF IInv, TypeOK, Stop, store, Stages
<1>2. stage' = "retro" /\ status' = outcome /\ status' # "completed"
      /\ UNCHANGED <<version, state, signed, shipped, deployed, broken>>
      /\ ~ shipped
    BY DEF Stop, store, IInv, RunInv, Outcome
<1>3. Drafts' /\ PlanSigned' /\ ArchSigned' /\ NoIllegalTransition'
    BY <1>2, StageSets DEF Drafts, PlanSigned, ArchSigned, NoIllegalTransition
<1>4. Shipping' /\ Outcome'
    BY <1>2, StageSets DEF IInv, RunInv, Shipping, Outcome
<1>5. DeployedWasSigned'
    BY <1>2 DEF IInv, RunInv, DeployedWasSigned
<1> QED BY <1>1, <1>3, <1>4, <1>5 DEF IInv, RunInv

\* A step that leaves the stage, the store and the outcome alone.
LEMMA SameStageKeeps ==
    ASSUME RunInv, UNCHANGED <<stage, store, status, shipped, deployed, broken>>
    PROVE  RunInv'
<1> USE DEF store
<1>1. Drafts' /\ PlanSigned' /\ ArchSigned' /\ NoIllegalTransition'
    BY DEF RunInv, Drafts, PlanSigned, ArchSigned, NoIllegalTransition
<1>2. Shipping' /\ Outcome' /\ DeployedWasSigned'
    BY DEF RunInv, Shipping, Outcome, DeployedWasSigned
<1> QED BY <1>1, <1>2 DEF RunInv

-----------------------------------------------------------------------------
(* The agent stages                                                        *)

\* The stage's artifact has a new version and the run goes on.
Produced(s) ==
    /\ stage = s /\ Put(s)
    /\ stage' = AfterStage(s) /\ attempt' = 1
    /\ shipped' = (shipped \/ s = "DOCS")
    /\ UNCHANGED <<round, status, deployed, broken, escalations, kbReported>>
    /\ UNCHANGED <<gatesAsked, interventions, kb, runs>>

LEMMA ProducedTypes ==
    ASSUME TypeOK, NEW s \in AgentStages, Produced(s)
    PROVE  TypeOK'
<1>1. AfterStage(s) \in Stages
    BY DEF AgentStages, AfterStage, AfterArch, Stages, Gates
<1>2. version' \in [Artifacts -> Nat]
    BY DEF Produced, Put, TypeOK, Artifacts
<1>3. state' \in [Artifacts -> {"absent", "draft", "approved"}]
    BY DEF Produced, Put, TypeOK
<1>4. shipped' \in BOOLEAN
    <2>1. CASE s = "DOCS"
        BY <2>1 DEF Produced
    <2>2. CASE s # "DOCS"
        <3>1. shipped' = shipped
            BY <2>2 DEF Produced, TypeOK
        <3> QED BY <3>1 DEF TypeOK
    <2> QED BY <2>1, <2>2
<1> QED BY <1>1, <1>2, <1>3, <1>4, RunAssumption DEF Produced, Put, TypeOK

LEMMA ProducedKeeps ==
    ASSUME IInv, NEW s \in AgentStages, Produced(s)
    PROVE  RunInv'
<1>1. /\ stage = s /\ stage' = AfterStage(s)
      /\ s \in Artifacts
      /\ version'[s] = version[s] + 1 /\ version[s] \in Nat
      /\ state'[s] = (IF ApprovesItself(s) THEN "approved" ELSE "draft")
      /\ \A a \in Artifacts \ {s} : version'[a] = version[a] /\ state'[a] = state[a]
      /\ UNCHANGED <<signed, status, deployed, broken>>
      /\ shipped' = (shipped \/ s = "DOCS")
    BY DEF Produced, Put, IInv, TypeOK, Artifacts
<1>2. \A a \in Plan \cup {"ARCH", "RELEASE", "INTEGRATION"} : a \in Artifacts
    BY DEF Plan, Artifacts, AgentStages
<1>3. ~ shipped /\ status = "completed"
    BY <1>1, StageSets DEF IInv, RunInv, Outcome, AgentStages
<1> USE <1>1, <1>2, <1>3, StageSets DEF IInv, RunInv, ApprovesItself, AfterStage
<1>4. Drafts'
    <2>1. stage' \in {"BACKLOG", "WBS", "PLAN", "gate1"} => state'["PRD"] = "draft"
        BY DEF AgentStages, AfterArch, Drafts, Plan
    <2>2. stage' \in {"WBS", "PLAN", "gate1"} => state'["BACKLOG"] = "draft"
        BY DEF AgentStages, AfterArch, Drafts, Plan
    <2>3. stage' \in {"PLAN", "gate1"} => state'["WBS"] = "draft"
        BY DEF AgentStages, AfterArch, Drafts, Plan
    <2>4. stage' = "gate1" => state'["PLAN"] = "draft"
        BY DEF AgentStages, AfterArch, Drafts, Plan
    <2>5. stage' = "gate2" => state'["ARCH"] = "draft"
        BY DEF AgentStages, AfterArch
    <2>6. stage' \in Released => state'["RELEASE"] = "draft" /\ version'["RELEASE"] > 0
        BY DEF AgentStages, AfterArch
    <2> QED BY <2>1, <2>2, <2>3, <2>4, <2>5, <2>6 DEF Drafts
<1>5. PlanSigned'
    BY DEF AgentStages, AfterArch, PlanSigned, Plan
<1>6. ArchSigned'
    BY DEF AgentStages, AfterArch, ArchSigned
<1>7. Shipping'
    BY DEF AgentStages, AfterArch, Shipping
<1>8. Outcome'
    BY DEF AgentStages, AfterArch, Outcome, Shipping
<1>9. DeployedWasSigned'
    BY DEF AgentStages, DeployedWasSigned, Shipping
<1>10. NoIllegalTransition'
    BY DEF AgentStages, AfterArch, NoIllegalTransition
<1> QED BY <1>4, <1>5, <1>6, <1>7, <1>8, <1>9, <1>10
LEMMA ProduceKeeps ==
    ASSUME IInv, NEW s \in AgentStages, Produce(s)
    PROVE  IInv'
<1>1. stage = s /\ stage \notin Over \cup {"illegal"}
    BY DEF Produce, AgentStages, Over
<1>2. UNCHANGED <<gatesAsked, interventions, kb, runs>>
    BY DEF Produce
<1>3. CASE Produced(s)
    BY <1>3, ProducedTypes, ProducedKeeps DEF IInv
<1>4. CASE attempt < MaxRetries /\ attempt' = attempt + 1
           /\ UNCHANGED <<stage, round, store, result>>
    <2>1. attempt' \in 1..MaxRetries
        BY <1>4, RunAssumption DEF IInv, TypeOK
    <2>2. TypeOK'
        BY <1>2, <1>4, <2>1 DEF IInv, TypeOK, store, result
    <2> QED BY <1>4, <2>2, SameStageKeeps DEF IInv, result
<1>5. CASE (Stop("escalated") \/ Stop("budget_exceeded")) /\ UNCHANGED store
    BY <1>1, <1>2, <1>5, StopKeeps DEF IInv, TypeOK
<1> QED BY <1>3, <1>4, <1>5 DEF Produce, Produced

-----------------------------------------------------------------------------
(* The gates                                                               *)

LEMMA GateApprovesKeeps ==
    ASSUME IInv, NEW g \in Gates, Gate(g), GateApproves(g)
    PROVE  IInv'
<1>1. /\ stage = g /\ round' = 1 /\ gatesAsked' = gatesAsked + 1
      /\ interventions' = interventions + 1
      /\ UNCHANGED <<attempt, result, version, kb, runs>>
      /\ signed' = [a \in Artifacts |->
                      IF a \in SignedAt(g) THEN version[a] ELSE signed[a]]
      /\ Approve(IF g = "gate3" THEN {} ELSE SignedAt(g), AfterGate(g))
    BY DEF Gate, GateApproves, Approve
<1>2. Plan \cup {"ARCH", "RELEASE", "INTEGRATION"} \subseteq Artifacts
    BY DEF Plan, Artifacts, AgentStages
<1> DEFINE S == IF g = "gate3" THEN {} ELSE SignedAt(g)
<1>3. \A a \in S : state[a] = "draft"
    BY <1>1 DEF Gates, SignedAt, IInv, RunInv, Drafts
<1>4. /\ state' = [a \in Artifacts |-> IF a \in S THEN "approved" ELSE state[a]]
      /\ stage' = AfterGate(g)
    BY <1>1, <1>3 DEF Approve
<1>5. TypeOK'
    <2>1. AfterGate(g) \in Stages
        BY DEF Gates, AfterGate, AfterArch, Stages, AgentStages
    <2>2. signed' \in [Artifacts -> Nat]
        BY <1>1 DEF IInv, TypeOK
    <2>3. state' \in [Artifacts -> {"absent", "draft", "approved"}]
        BY <1>4 DEF IInv, TypeOK
    <2> QED BY <1>1, <1>4, <2>1, <2>2, <2>3, RunAssumption DEF IInv, TypeOK, result
<1>6. /\ UNCHANGED <<version, status, shipped, deployed, broken>>
      /\ ~ shipped /\ status = "completed"
      /\ deployed = 0
    BY <1>1, StageSets DEF result, Gates, IInv, RunInv, Outcome, Shipping, TypeOK
<1> USE StageSets DEF IInv, RunInv
<1>7. CASE g = "gate1"
    <2>1. /\ stage' = "ARCH"
          /\ \A a \in Plan : state'[a] = "approved" /\ signed'[a] = version'[a]
        BY <1>1, <1>2, <1>4, <1>6, <1>7 DEF AfterGate, SignedAt, Plan
    <2> QED BY <1>5, <1>6, <2>1 DEF Drafts, PlanSigned, ArchSigned, Shipping, Outcome,
                                   DeployedWasSigned, NoIllegalTransition
<1>8. CASE g = "gate2"
    <2>1. /\ stage' \in {"UX", "derive"}
          /\ state'["ARCH"] = "approved" /\ signed'["ARCH"] = version'["ARCH"]
          /\ \A a \in Plan : state'[a] = state[a] /\ signed'[a] = signed[a]
        BY <1>1, <1>2, <1>4, <1>6, <1>8 DEF AfterGate, AfterArch, SignedAt, Plan
    <2>2. PlanSigned'
        BY <1>1, <1>6, <1>8, <2>1 DEF PlanSigned
    <2> QED BY <1>5, <1>6, <2>1, <2>2 DEF Drafts, ArchSigned, Shipping, Outcome,
                                   DeployedWasSigned, NoIllegalTransition
<1>9. CASE g = "gate3"
    <2>1. /\ stage' = "deploy" /\ stage = "gate3"
          /\ signed'["RELEASE"] = version'["RELEASE"]
          /\ \A a \in Artifacts : state'[a] = state[a]
          /\ \A a \in Plan \cup {"ARCH"} : signed'[a] = signed[a]
        BY <1>1, <1>2, <1>4, <1>6, <1>9 DEF AfterGate, SignedAt, Plan
    <2>2. PlanSigned' /\ ArchSigned'
        BY <1>2, <1>6, <2>1 DEF PlanSigned, ArchSigned
    <2>3. Drafts'
        BY <1>2, <1>6, <2>1 DEF Drafts
    <2>4. Shipping' /\ Outcome' /\ DeployedWasSigned'
        BY <1>2, <1>6, <2>1 DEF Shipping, Outcome, DeployedWasSigned
    <2> QED BY <1>5, <2>1, <2>2, <2>3, <2>4 DEF NoIllegalTransition
<1> QED BY <1>7, <1>8, <1>9 DEF Gates

LEMMA GateRejectsKeeps ==
    ASSUME IInv, NEW g \in Gates, Gate(g), GateRejects(g)
    PROVE  IInv'
<1>1. /\ stage = g /\ stage \notin Over \cup {"illegal"}
      /\ gatesAsked' \in Nat /\ interventions' \in Nat
      /\ UNCHANGED <<store, kb, runs>>
    BY DEF Gate, GateRejects, Gates, Over, IInv, TypeOK
<1>2. CASE Stop("escalated")
    BY <1>1, <1>2, StopKeeps
<1>3. CASE round < MaxRetries /\ round' = round + 1 /\ stage' = LoopStart(g)
           /\ UNCHANGED <<attempt, result>>
    <2>1. TypeOK'
        <3>1. LoopStart(g) \in Stages
            BY DEF Gates, LoopStart, Stages, AgentStages
        <3>2. round' \in 1..MaxRetries
            BY <1>3, RunAssumption DEF IInv, TypeOK
        <3> QED BY <1>1, <1>3, <3>1, <3>2 DEF IInv, TypeOK, store, result
    <2>2. /\ UNCHANGED <<version, state, signed, status, shipped, deployed, broken>>
          /\ \/ stage = "gate1" /\ stage' = "BACKLOG"
             \/ stage = "gate2" /\ stage' = "ARCH"
             \/ stage = "gate3" /\ stage' = "RELEASE"
        BY <1>1, <1>3 DEF store, result, Gates, LoopStart
    <2> USE StageSets DEF IInv, RunInv
    <2>3. Drafts' /\ PlanSigned' /\ ArchSigned'
        BY <2>2 DEF Drafts, PlanSigned, ArchSigned
    <2>4. Shipping' /\ Outcome' /\ DeployedWasSigned' /\ NoIllegalTransition'
        BY <2>2 DEF Shipping, Outcome, DeployedWasSigned, NoIllegalTransition
    <2> QED BY <2>1, <2>3, <2>4
<1> QED BY <1>2, <1>3 DEF GateRejects
-----------------------------------------------------------------------------
(* The build and the ship path                                             *)

LEMMA StartKeeps ==
    ASSUME IInv, Start
    PROVE  IInv'
<1>1. TypeOK'
    <2>1. stage' \in Stages
        BY DEF Start, Stages, AgentStages
    <2>2. attempt' \in 1..MaxRetries /\ round' \in 1..MaxRetries /\ broken' \in 0..NumTickets
        BY RunAssumption DEF Start
    <2>3. runs' \in 0..MaxRuns
        BY RunAssumption DEF Start, IInv, TypeOK
    <2>4. UNCHANGED <<version, state, signed>>
        BY DEF Start, store
    <2>5. /\ status' = "completed" /\ shipped' = FALSE
          /\ deployed' = 0 /\ escalations' = 0 /\ kbReported' = 0
          /\ gatesAsked' = 0 /\ interventions' = 0 /\ kb' = 0
        BY DEF Start
    <2> QED BY <2>1, <2>2, <2>3, <2>4, <2>5 DEF IInv, TypeOK
<1>2. /\ stage' = "PRD" /\ ~ shipped' /\ status' = "completed"
      /\ deployed' = 0 /\ broken' = 0
    BY DEF Start
<1> USE StageSets
<1>3. Drafts' /\ PlanSigned' /\ ArchSigned' /\ NoIllegalTransition'
    BY <1>2 DEF Drafts, PlanSigned, ArchSigned, NoIllegalTransition
<1>4. Shipping' /\ Outcome' /\ DeployedWasSigned'
    BY <1>2 DEF Shipping, Outcome, DeployedWasSigned
<1> QED BY <1>1, <1>3, <1>4 DEF IInv, RunInv

LEMMA DeriveKeeps ==
    ASSUME IInv, DeriveTickets
    PROVE  IInv'
<1>1. /\ stage = "derive" /\ stage' = "build"
      /\ version' = [version EXCEPT !["TICKETS"] = @ + 1]
      /\ state' = [state EXCEPT !["TICKETS"] = "approved"]
      /\ UNCHANGED <<attempt, round, signed, result, gatesAsked, interventions, kb, runs>>
    BY DEF DeriveTickets
<1>2. TypeOK'
    <2>1. version' \in [Artifacts -> Nat]
        BY <1>1 DEF IInv, TypeOK, Artifacts
    <2>2. state' \in [Artifacts -> {"absent", "draft", "approved"}]
        BY <1>1 DEF IInv, TypeOK
    <2> QED BY <1>1, <2>1, <2>2 DEF IInv, TypeOK, result, Stages
<1>3. /\ \A a \in Plan \cup {"ARCH", "RELEASE", "INTEGRATION"} :
            version'[a] = version[a] /\ state'[a] = state[a]
      /\ UNCHANGED <<signed, status, shipped, deployed, broken>>
    BY <1>1 DEF IInv, TypeOK, result, Plan, Artifacts, AgentStages
<1> USE StageSets DEF IInv, RunInv
<1>4. Drafts' /\ NoIllegalTransition'
    BY <1>1 DEF Drafts, NoIllegalTransition
<1>5. PlanSigned' /\ ArchSigned'
    BY <1>1, <1>3 DEF PlanSigned, ArchSigned
<1>6. Shipping' /\ Outcome' /\ DeployedWasSigned'
    BY <1>1, <1>3 DEF Shipping, Outcome, DeployedWasSigned, TypeOK
<1> QED BY <1>2, <1>4, <1>5, <1>6

LEMMA BuildKeeps ==
    ASSUME IInv, Build
    PROVE  IInv'
<1>1. stage = "build" /\ UNCHANGED <<store, gatesAsked, kb, runs>>
    BY DEF Build
<1> USE StageSets
<1>2. ASSUME NEW n \in 0..NumTickets,
             broken' = n, escalations' = escalations + n,
             interventions' = interventions + n,
             status' = (IF n > 0 THEN "escalated" ELSE status),
             stage' = (IF n = 0 /\ EnableShip THEN "integration" ELSE "retro"),
             UNCHANGED <<attempt, round, shipped, deployed, kbReported>>
      PROVE  IInv'
    <2>1. TypeOK'
        <3>1. n \in Nat
            BY RunAssumption
        <3>2. escalations' \in Nat /\ interventions' \in Nat
            BY <1>2, <3>1 DEF IInv, TypeOK
        <3> QED BY <1>1, <1>2, <3>2 DEF IInv, TypeOK, store, Stages
    <2>2. /\ UNCHANGED <<version, state, signed, shipped, deployed>>
          /\ ~ shipped /\ status = "completed"
          /\ deployed = 0
        BY <1>1, <1>2 DEF store, IInv, RunInv, Outcome, Shipping, TypeOK
    <2>3. \/ /\ stage' = "integration" /\ broken' = 0 /\ status' = "completed"
          \/ /\ stage' = "retro" /\ (EnableShip => status' # "completed")
        BY <1>2, <2>2, RunAssumption
    <2>4. Drafts' /\ NoIllegalTransition'
        BY <2>3 DEF Drafts, NoIllegalTransition
    <2>5. PlanSigned' /\ ArchSigned'
        BY <1>1, <2>2, <2>3 DEF IInv, RunInv, PlanSigned, ArchSigned
    <2>6. Shipping' /\ Outcome' /\ DeployedWasSigned'
        BY <2>2, <2>3 DEF Shipping, Outcome, DeployedWasSigned
    <2> QED BY <2>1, <2>4, <2>5, <2>6 DEF IInv, RunInv
<1>3. CASE Stop("budget_exceeded") /\ UNCHANGED interventions
    BY <1>1, <1>3, StopKeeps DEF IInv, TypeOK
<1>4. CASE stage' = "crashed" /\ UNCHANGED <<attempt, round, result, interventions>>
    <2>1. TypeOK'
        BY <1>1, <1>4 DEF IInv, TypeOK, store, result, Stages
    <2>2. UNCHANGED <<version, state, signed, status, shipped, deployed, broken>>
        BY <1>1, <1>4 DEF store, result
    <2>3. Drafts' /\ NoIllegalTransition' /\ PlanSigned' /\ ArchSigned'
        BY <1>4 DEF Drafts, NoIllegalTransition, PlanSigned, ArchSigned
    <2>4. Shipping' /\ Outcome' /\ DeployedWasSigned'
        BY <1>1, <1>4, <2>2 DEF IInv, RunInv, Shipping, Outcome, DeployedWasSigned
    <2> QED BY <2>1, <2>3, <2>4 DEF IInv, RunInv
<1> QED BY <1>2, <1>3, <1>4 DEF Build

LEMMA IntegrationKeeps ==
    ASSUME IInv, Integration
    PROVE  IInv'
<1>1. stage = "integration" /\ UNCHANGED <<gatesAsked, interventions, kb, runs>>
    BY DEF Integration
<1> USE StageSets
<1>2. CASE Stop("escalated") /\ UNCHANGED store
    BY <1>1, <1>2, StopKeeps DEF IInv, TypeOK
<1>3. CASE /\ version' = [version EXCEPT !["INTEGRATION"] = @ + 1]
           /\ state' = [state EXCEPT !["INTEGRATION"] = "approved"]
           /\ stage' = IF HasDataModel THEN "MIGRATIONS" ELSE "DEVOPS"
           /\ UNCHANGED <<attempt, round, signed, result>>
    <2>1. TypeOK'
        <3>1. version' \in [Artifacts -> Nat]
            BY <1>3 DEF IInv, TypeOK, Artifacts
        <3>2. state' \in [Artifacts -> {"absent", "draft", "approved"}]
            BY <1>3 DEF IInv, TypeOK
        <3> QED BY <1>1, <1>3, <3>1, <3>2 DEF IInv, TypeOK, result, Stages, AgentStages
    <2>2. /\ \A a \in Plan \cup {"ARCH", "RELEASE"} :
                version'[a] = version[a] /\ state'[a] = state[a]
          /\ state'["INTEGRATION"] = "approved"
          /\ UNCHANGED <<signed, status, shipped, deployed, broken>>
        BY <1>3 DEF IInv, TypeOK, result, Plan, Artifacts, AgentStages
    <2>3. stage' \in {"MIGRATIONS", "DEVOPS"}
        BY <1>3
    <2>4. Drafts' /\ NoIllegalTransition'
        BY <2>3 DEF Drafts, NoIllegalTransition
    <2>5. PlanSigned' /\ ArchSigned'
        BY <1>1, <2>2, <2>3 DEF IInv, RunInv, PlanSigned, ArchSigned
    <2>6. Shipping' /\ Outcome' /\ DeployedWasSigned'
        BY <1>1, <2>2, <2>3 DEF IInv, RunInv, Shipping, Outcome, DeployedWasSigned, TypeOK
    <2> QED BY <2>1, <2>4, <2>5, <2>6 DEF IInv, RunInv
<1> QED BY <1>2, <1>3 DEF Integration

LEMMA DeployKeeps ==
    ASSUME IInv, Deploy
    PROVE  IInv'
<1> USE StageSets
<1>1. /\ stage = "deploy" /\ state["RELEASE"] = "draft" /\ version["RELEASE"] > 0
      /\ state' = [state EXCEPT !["RELEASE"] = "approved"]
      /\ deployed' = version["RELEASE"] /\ stage' = "DOCS"
      /\ UNCHANGED <<attempt, round, version, signed, status, shipped, broken,
                     escalations, kbReported, gatesAsked, interventions, kb, runs>>
    BY DEF Deploy, IInv, RunInv, Drafts
<1>2. TypeOK'
    <2>1. deployed' \in Nat
        BY <1>1 DEF IInv, TypeOK, Artifacts, AgentStages
    <2>2. state' \in [Artifacts -> {"absent", "draft", "approved"}]
        BY <1>1 DEF IInv, TypeOK
    <2> QED BY <1>1, <2>1, <2>2 DEF IInv, TypeOK, Stages, AgentStages
<1>3. /\ \A a \in Plan \cup {"ARCH", "INTEGRATION"} : state'[a] = state[a]
      /\ state'["RELEASE"] = "approved"
    BY <1>1 DEF IInv, TypeOK, Plan, Artifacts, AgentStages
<1>4. Drafts' /\ NoIllegalTransition'
    BY <1>1 DEF Drafts, NoIllegalTransition
<1>5. PlanSigned' /\ ArchSigned'
    BY <1>1, <1>3 DEF IInv, RunInv, PlanSigned, ArchSigned
<1>6. Shipping' /\ Outcome' /\ DeployedWasSigned'
    BY <1>1, <1>3 DEF IInv, RunInv, Shipping, Outcome, DeployedWasSigned
<1> QED BY <1>2, <1>4, <1>5, <1>6 DEF IInv, RunInv

LEMMA RetroKeeps ==
    ASSUME IInv, Retro
    PROVE  IInv'
<1> USE StageSets
<1>1. /\ stage = "retro" /\ stage' = "finished"
      /\ UNCHANGED <<attempt, round, store, status, shipped, deployed, broken,
                     gatesAsked, interventions, runs>>
    BY DEF Retro
<1>2. kb' \in Nat /\ kbReported' \in Nat /\ escalations' \in Nat
    BY DEF Retro, IInv, TypeOK
<1>3. TypeOK'
    BY <1>1, <1>2 DEF IInv, TypeOK, store, Stages
<1>4. Drafts' /\ NoIllegalTransition' /\ PlanSigned' /\ ArchSigned'
    BY <1>1 DEF Drafts, NoIllegalTransition, PlanSigned, ArchSigned
<1>5. Shipping' /\ Outcome' /\ DeployedWasSigned'
    BY <1>1 DEF store, IInv, RunInv, Shipping, Outcome, DeployedWasSigned
<1> QED BY <1>3, <1>4, <1>5 DEF IInv, RunInv

-----------------------------------------------------------------------------
(* The theorems                                                            *)

LEMMA InitIInv == Init => IInv
<1> SUFFICES ASSUME Init PROVE IInv
    OBVIOUS
<1> USE StageSets
<1>1. TypeOK
    <2>1. stage \in Stages
        BY DEF Init, Stages
    <2>2. attempt \in 1..MaxRetries /\ round \in 1..MaxRetries /\ broken \in 0..NumTickets
          /\ runs \in 0..MaxRuns
        BY RunAssumption DEF Init
    <2>3. /\ version \in [Artifacts -> Nat] /\ signed \in [Artifacts -> Nat]
          /\ state \in [Artifacts -> {"absent", "draft", "approved"}]
        BY DEF Init
    <2>4. /\ status = "completed" /\ shipped = FALSE
          /\ deployed = 0 /\ escalations = 0 /\ kbReported = 0
          /\ gatesAsked = 0 /\ interventions = 0 /\ kb = 0
        BY DEF Init
    <2> QED BY <2>1, <2>2, <2>3, <2>4 DEF TypeOK
<1>2. Drafts /\ PlanSigned /\ ArchSigned /\ NoIllegalTransition
    BY DEF Init, Drafts, PlanSigned, ArchSigned, NoIllegalTransition
<1>3. Shipping /\ Outcome /\ DeployedWasSigned
    BY DEF Init, Shipping, Outcome, DeployedWasSigned
<1> QED BY <1>1, <1>2, <1>3 DEF IInv, RunInv

LEMMA StepKeepsIInv == IInv /\ [Next]_vars => IInv'
<1> SUFFICES ASSUME IInv, [Next]_vars PROVE IInv'
    OBVIOUS
<1>1. ASSUME NEW s \in AgentStages, Produce(s) PROVE IInv'
    BY <1>1, ProduceKeeps
<1>2. ASSUME NEW g \in Gates, Gate(g) PROVE IInv'
    BY <1>2, GateApprovesKeeps, GateRejectsKeeps DEF Gate
<1>3. CASE UNCHANGED vars
    <2>1. TypeOK'
        BY <1>3 DEF IInv, TypeOK, vars, store, result
    <2> QED BY <1>3, <2>1, SameStageKeeps DEF IInv, vars, result
<1> QED BY <1>1, <1>2, <1>3, StartKeeps, DeriveKeeps, BuildKeeps, IntegrationKeeps,
           DeployKeeps, RetroKeeps DEF Next, Step

\* The invariant of run_project, for every configuration and any number of
\* runs on the same store.
THEOREM RunInvariant == Spec => []IInv
BY InitIInv, StepKeepsIInv, PTL DEF Spec

\* Every variable of a run keeps its type.
THEOREM RunTypeOK == Spec => []TypeOK
<1>1. IInv => TypeOK
    BY DEF IInv
<1> QED BY <1>1, RunInvariant, PTL

\* Tickets are derived and built only from the versions of the plan and the
\* architecture that the human approved, after any number of rejected rounds,
\* retries and earlier runs.
THEOREM RunBuiltFromSignedPlan == Spec => []BuiltFromSignedPlan
<1>1. IInv => BuiltFromSignedPlan
    BY StageSets DEF IInv, RunInv, PlanSigned, ArchSigned, BuiltFromSignedPlan, Plan
<1> QED BY <1>1, RunInvariant, PTL

\* What run_project deploys is the newest release, signed at Gate 3 where that
\* is enabled, of a build without escalated tickets and with a green
\* integration.
THEOREM RunDeployedWasSigned == Spec => []DeployedWasSigned
<1>1. IInv => DeployedWasSigned
    BY DEF IInv, RunInv
<1> QED BY <1>1, RunInvariant, PTL

\* A finished run with the ship path on is completed exactly if it shipped.
THEOREM RunCompletedMeansShipped == Spec => []CompletedMeansShipped
<1>1. IInv => CompletedMeansShipped
    BY StageSets DEF IInv, RunInv, Outcome, CompletedMeansShipped
<1> QED BY <1>1, RunInvariant, PTL

\* Whatever set_status approves is a draft at that time: InvalidTransitionError,
\* which run_project does not catch, is never raised.
THEOREM RunNoIllegalTransition == Spec => []NoIllegalTransition
<1>1. IInv => NoIllegalTransition
    BY DEF IInv, RunInv
<1> QED BY <1>1, RunInvariant, PTL
-----------------------------------------------------------------------------
(* The steps run out.  A rejected gate and a failed attempt go back, an    *)
(* approved one starts counting from one again: what falls is how far the  *)
(* run is, then the rounds left to the gate ahead, then the way to it, and *)
(* within a stage the attempts.                                            *)

\* The parts of a run from the last to the first: those with a gate at their
\* end may be gone through once per round, the others once.
Part(s) ==
    CASE s = "PRD" -> 8
      [] s \in {"BACKLOG", "WBS", "PLAN", "gate1"} -> 7
      [] s \in {"ARCH", "gate2"} -> 6
      [] s \in {"UX", "UI", "derive", "build"} -> 5
      [] s \in {"integration", "MIGRATIONS", "DEVOPS"} -> 4
      [] s \in {"RELEASE", "gate3"} -> 3
      [] s \in {"deploy", "DOCS"} -> 2
      [] s = "retro" -> 1
      [] s \in {"idle", "finished", "crashed", "illegal"} -> 0

\* How far the end of its part is from a stage.
Place(s) ==
    CASE s \in {"BACKLOG", "UX"} -> 4
      [] s \in {"WBS", "UI", "integration"} -> 3
      [] s \in {"PLAN", "ARCH", "derive", "MIGRATIONS", "RELEASE", "deploy"} -> 2
      [] s \in {"PRD", "gate1", "gate2", "gate3", "build", "DEVOPS", "DOCS", "retro"} -> 1
      [] s \in {"idle", "finished", "crashed", "illegal"} -> 0

\* What a run in round r of stage s has before it at most, retries aside.
Ahead(s, r) == (Part(s) * MaxRetries + (MaxRetries - r)) * 4 + Place(s)

StagesLeft == Ahead(stage, round)
RetriesLeft == MaxRetries - attempt

\* A step of a run takes it on, or is one more attempt at its stage; and only
\* so many runs are started.
RunsOut ==
    /\ {StagesLeft, StagesLeft', RetriesLeft, RetriesLeft',
        MaxRuns - runs, MaxRuns - runs'} \subseteq Nat
    /\ \/ runs' = runs /\ StagesLeft' < StagesLeft
       \/ runs' = runs /\ StagesLeft' = StagesLeft /\ RetriesLeft' < RetriesLeft
       \/ MaxRuns - runs' < MaxRuns - runs

LEMMA LeftIsNat ==
    ASSUME NEW n \in Nat, NEW x \in 0..n
    PROVE  n - x \in Nat
OBVIOUS

LEMMA PartsAndPlaces ==
    ASSUME NEW s \in Stages
    PROVE  Part(s) \in 0..8 /\ Place(s) \in 0..4
BY DEF Stages, AgentStages, Gates, Part, Place

LEMMA AheadIsNat ==
    ASSUME NEW s \in Stages, NEW r \in 1..MaxRetries
    PROVE  Ahead(s, r) \in Nat
<1>1. Part(s) \in Nat /\ Place(s) \in Nat /\ MaxRetries \in Nat
    BY PartsAndPlaces, RunAssumption
<1>2. Part(s) * MaxRetries \in Nat
    BY <1>1
<1> QED BY <1>1, <1>2 DEF Ahead

\* To a later part, whatever the round is there: at least one whole loop of
\* rounds is behind the run.
LEMMA LaterPart ==
    ASSUME NEW s \in Stages, NEW t \in Stages, Part(t) < Part(s), Place(s) > 0,
           NEW r \in 1..MaxRetries, NEW q \in 1..MaxRetries
    PROVE  Ahead(t, q) < Ahead(s, r)
<1>1. /\ Part(s) \in Nat /\ Place(s) \in 1..4 /\ MaxRetries \in Nat
      /\ Part(t) \in Nat /\ Place(t) \in 0..4
    BY PartsAndPlaces, RunAssumption
<1>2. Part(s) * MaxRetries >= Part(t) * MaxRetries + MaxRetries
    <2>1. PICK d \in Nat : Part(s) = Part(t) + 1 + d
        <3>1. Part(s) - Part(t) - 1 \in Nat
            BY <1>1
        <3> QED BY <1>1, <3>1
    <2>2. Part(s) * MaxRetries = Part(t) * MaxRetries + MaxRetries + d * MaxRetries
        BY <1>1, <2>1
    <2>3. d * MaxRetries \in Nat /\ Part(t) * MaxRetries \in Nat
        BY <1>1, <2>1
    <2> QED BY <1>1, <2>2, <2>3
<1>3. Part(s) * MaxRetries \in Nat /\ Part(t) * MaxRetries \in Nat
    BY <1>1
<1> QED BY <1>1, <1>2, <1>3 DEF Ahead

\* On to a later stage of the part, in the same round.
LEMMA LaterPlace ==
    ASSUME NEW s \in Stages, NEW t \in Stages, Part(t) = Part(s),
           NEW r \in 1..MaxRetries, Place(t) < Place(s)
    PROVE  Ahead(t, r) < Ahead(s, r)
<1>1. Part(s) * MaxRetries \in Nat /\ Place(s) \in Nat /\ Place(t) \in Nat
    BY PartsAndPlaces, RunAssumption
<1> QED BY <1>1, RunAssumption DEF Ahead

\* Back to the start of the loop, in the next round.
LEMMA LaterRound ==
    ASSUME NEW g \in Gates, NEW r \in 1..MaxRetries, r < MaxRetries
    PROVE  Ahead(LoopStart(g), r + 1) < Ahead(g, r)
<1>1. /\ Part(LoopStart(g)) = Part(g) /\ Place(g) = 1 /\ Place(LoopStart(g)) \in 0..4
      /\ Part(g) \in Nat
    BY DEF Gates, LoopStart, Part, Place
<1>2. Part(g) * MaxRetries \in Nat
    BY <1>1, RunAssumption
<1> QED BY <1>1, <1>2, RunAssumption DEF Ahead

\* A stop, from any stage of a run, leaves the retrospective.
LEMMA StopRunsOut ==
    ASSUME TypeOK, stage \notin {"retro", "idle", "finished", "crashed", "illegal"},
           NEW outcome, Stop(outcome)
    PROVE  StagesLeft' < StagesLeft
<1>1. stage \in Stages /\ "retro" \in Stages /\ round \in 1..MaxRetries
      /\ 1 \in 1..MaxRetries
    BY RunAssumption DEF TypeOK, Stages
<1>2. Part("retro") < Part(stage) /\ Place(stage) > 0
    BY <1>1 DEF Stages, AgentStages, Gates, Part, Place
<1>3. stage' = "retro" /\ round' = 1
    BY DEF Stop
<1> QED BY <1>1, <1>2, <1>3, LaterPart DEF StagesLeft

\* On to a stage further down, the round being kept or begun anew.
LEMMA OnwardRunsOut ==
    ASSUME TypeOK, stage' \in Stages, Place(stage) > 0,
           \/ Part(stage') < Part(stage) /\ round' \in {round, 1}
           \/ Part(stage') = Part(stage) /\ Place(stage') < Place(stage) /\ round' = round
    PROVE  StagesLeft' < StagesLeft
<1>1. stage \in Stages /\ round \in 1..MaxRetries /\ 1 \in 1..MaxRetries
    BY RunAssumption DEF TypeOK
<1>2. CASE Part(stage') < Part(stage) /\ round' \in {round, 1}
    BY <1>1, <1>2, LaterPart DEF StagesLeft
<1>3. CASE Part(stage') = Part(stage) /\ Place(stage') < Place(stage) /\ round' = round
    BY <1>1, <1>3, LaterPlace DEF StagesLeft
<1> QED BY <1>2, <1>3

LEMMA ProduceRunsOut ==
    ASSUME TypeOK, NEW s \in AgentStages, Produce(s)
    PROVE  \/ StagesLeft' < StagesLeft
           \/ StagesLeft' = StagesLeft /\ RetriesLeft' < RetriesLeft
<1>1. stage = s /\ s \in Stages
      /\ s \notin {"retro", "idle", "finished", "crashed", "illegal"}
    BY DEF Produce, AgentStages, Stages
<1>2. CASE Stop("escalated") \/ Stop("budget_exceeded")
    BY <1>1, <1>2, StopRunsOut
<1>3. CASE stage' = AfterStage(s) /\ round' = round
    <2>1. /\ AfterStage(s) \in Stages /\ Place(s) > 0
          /\ \/ Part(AfterStage(s)) < Part(s)
             \/ Part(AfterStage(s)) = Part(s) /\ Place(AfterStage(s)) < Place(s)
        <3>1. <<s, AfterStage(s)>> \in
                {<<"PRD", "BACKLOG">>, <<"BACKLOG", "WBS">>, <<"WBS", "PLAN">>,
                 <<"PLAN", "gate1">>, <<"ARCH", "gate2">>, <<"ARCH", "UX">>,
                 <<"ARCH", "derive">>, <<"UX", "UI">>, <<"UI", "derive">>,
                 <<"MIGRATIONS", "DEVOPS">>, <<"DEVOPS", "RELEASE">>,
                 <<"RELEASE", "gate3">>, <<"RELEASE", "deploy">>, <<"DOCS", "retro">>}
            BY DEF AgentStages, AfterStage, AfterArch
        <3> DEFINE t == AfterStage(s)
        <3>2. <<s, t>> \in
                {<<"PRD", "BACKLOG">>, <<"BACKLOG", "WBS">>, <<"WBS", "PLAN">>,
                 <<"PLAN", "gate1">>, <<"ARCH", "gate2">>, <<"ARCH", "UX">>,
                 <<"ARCH", "derive">>, <<"UX", "UI">>, <<"UI", "derive">>,
                 <<"MIGRATIONS", "DEVOPS">>, <<"DEVOPS", "RELEASE">>,
                 <<"RELEASE", "gate3">>, <<"RELEASE", "deploy">>, <<"DOCS", "retro">>}
            BY <3>1
        <3> HIDE DEF t
        <3>3. /\ t \in Stages /\ Place(s) > 0
              /\ Part(t) < Part(s) \/ (Part(t) = Part(s) /\ Place(t) < Place(s))
            BY <3>2 DEF AgentStages, Stages, Gates, Part, Place
        <3> QED BY <3>3 DEF t
    <2> QED BY <1>1, <1>3, <2>1, OnwardRunsOut
<1>4. CASE attempt < MaxRetries /\ attempt' = attempt + 1 /\ UNCHANGED <<stage, round>>
    <2>1. StagesLeft' = StagesLeft
        BY <1>4 DEF StagesLeft
    <2>2. RetriesLeft' < RetriesLeft
        BY <1>4, RunAssumption DEF RetriesLeft, TypeOK
    <2> QED BY <2>1, <2>2
<1> QED BY <1>2, <1>3, <1>4 DEF Produce

LEMMA GateRunsOut ==
    ASSUME TypeOK, NEW g \in Gates, Gate(g)
    PROVE  StagesLeft' < StagesLeft
<1>1. stage = g /\ g \in Stages
      /\ g \notin {"retro", "idle", "finished", "crashed", "illegal"}
    BY DEF Gate, Gates, Stages
<1>2. CASE GateApproves(g)
    <2>1. stage' \in {AfterGate(g), "illegal"} /\ round' = 1
        BY <1>2 DEF GateApproves, Approve
    <2>2. /\ {AfterGate(g), "illegal"} \subseteq Stages /\ Place(g) > 0
          /\ Part(AfterGate(g)) < Part(g) /\ Part("illegal") < Part(g)
        BY DEF Gates, Stages, AgentStages, AfterGate, AfterArch, Part, Place
    <2> QED BY <1>1, <2>1, <2>2, OnwardRunsOut
<1>3. CASE round < MaxRetries /\ round' = round + 1 /\ stage' = LoopStart(g)
    <2>1. round \in 1..MaxRetries
        BY DEF TypeOK
    <2> QED BY <1>1, <1>3, <2>1, LaterRound DEF StagesLeft
<1>4. CASE Stop("escalated")
    BY <1>1, <1>4, StopRunsOut
<1> QED BY <1>2, <1>3, <1>4 DEF Gate, GateRejects

\* The stages with one way on, each in the round the run came with.
LEMMA TailRunsOut ==
    ASSUME TypeOK, DeriveTickets \/ Build \/ Integration \/ Deploy \/ Retro
    PROVE  StagesLeft' < StagesLeft
<1>1. CASE stage = "build" /\ Stop("budget_exceeded")
    BY <1>1, StopRunsOut
<1>2. CASE stage = "integration" /\ Stop("escalated")
    BY <1>2, StopRunsOut
<1>3. CASE /\ round' = round
           /\ <<stage, stage'>> \in
                {<<"derive", "build">>, <<"build", "integration">>, <<"build", "retro">>,
                 <<"build", "crashed">>, <<"integration", "MIGRATIONS">>,
                 <<"integration", "DEVOPS">>, <<"deploy", "DOCS">>,
                 <<"deploy", "illegal">>, <<"retro", "finished">>}
    <2>1. /\ stage' \in Stages /\ Place(stage) > 0
          /\ \/ Part(stage') < Part(stage)
             \/ Part(stage') = Part(stage) /\ Place(stage') < Place(stage)
        BY <1>3 DEF Stages, AgentStages, Gates, Part, Place
    <2> QED BY <1>3, <2>1, OnwardRunsOut
<1> QED BY <1>1, <1>2, <1>3 DEF DeriveTickets, Build, Integration, Deploy, Retro

LEMMA StepKeepsRuns ==
    ASSUME TypeOK, Step
    PROVE  runs' = runs
BY DEF Step, Produce, Gate, DeriveTickets, Build, Integration, Deploy, Retro

\* No run goes on for ever, however often agents fail and humans reject: what
\* a run has left is a number that every step lowers (_produce, the gate loops
\* of run_project and _release_with_gate3), until it is over.  With the
\* fairness of the thread that runs it, this is why runs end.
THEOREM RunRunsOut == Spec => [][RunsOut]_vars
<1>1. IInv /\ IInv' /\ [Next]_vars => [RunsOut]_vars
    <2> SUFFICES ASSUME IInv, IInv', Next PROVE RunsOut
        BY DEF vars
    <2>1. TypeOK /\ TypeOK'
        BY DEF IInv
    <2>2. {StagesLeft, StagesLeft', RetriesLeft, RetriesLeft',
           MaxRuns - runs, MaxRuns - runs'} \subseteq Nat
        <3>1. StagesLeft \in Nat /\ StagesLeft' \in Nat
            BY <2>1, AheadIsNat DEF TypeOK, StagesLeft
        <3>2. RetriesLeft \in Nat /\ RetriesLeft' \in Nat
            <4>1. /\ MaxRetries \in Nat
                  /\ attempt \in 0..MaxRetries /\ attempt' \in 0..MaxRetries
                BY <2>1, RunAssumption DEF TypeOK
            <4> QED BY <4>1, LeftIsNat DEF RetriesLeft
        <3>3. MaxRuns - runs \in Nat /\ MaxRuns - runs' \in Nat
            <4>1. MaxRuns \in Nat /\ runs \in 0..MaxRuns /\ runs' \in 0..MaxRuns
                BY <2>1, RunAssumption DEF TypeOK
            <4> QED BY <4>1, LeftIsNat
        <3> QED BY <3>1, <3>2, <3>3
    <2>3. CASE Start
        <3>1. runs' = runs + 1 /\ runs \in Nat
            BY <2>1, <2>3, RunAssumption DEF Start, TypeOK
        <3>2. MaxRuns - runs' < MaxRuns - runs
            BY <3>1, RunAssumption
        <3> QED BY <2>2, <3>2 DEF RunsOut
    <2>4. CASE Step
        <3>1. runs' = runs
            BY <2>1, <2>4, StepKeepsRuns
        <3>2. \/ StagesLeft' < StagesLeft
              \/ StagesLeft' = StagesLeft /\ RetriesLeft' < RetriesLeft
            BY <2>1, <2>4, ProduceRunsOut, GateRunsOut, TailRunsOut DEF Step
        <3> QED BY <2>2, <3>1, <3>2 DEF RunsOut
    <2> QED BY <2>3, <2>4 DEF Next
<1> QED BY <1>1, RunInvariant, PTL DEF Spec
===============================================================================
