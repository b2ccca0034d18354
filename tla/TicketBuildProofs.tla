-------------------------- MODULE TicketBuildProofs --------------------------
(***************************************************************************)
(* Theorems about TicketBuild, for any tickets, waves, retries and gates.  *)
(*                                                                         *)
(* The inductive invariant says of one worker which checks the current     *)
(* attempt has passed at each of its steps (Pipeline) and how its ticket   *)
(* stands (Standing); of the lead thread, which tickets it is done with    *)
(* while it builds or integrates a wave (Schedule), that their PRs are     *)
(* settled and no other's is but that of the ticket an error left in hand  *)
(* (Settled), and that main holds what was integrated and the ticket in    *)
(* hand (MainSound).  A step of a worker, the end of a ticket's            *)
(* integration and an error in the middle of it are each summed up first   *)
(* (WorkerMove, Integrated, Stopped), so that what the other parts have to *)
(* know of them is in one place.                                           *)
(*                                                                         *)
(* The last part maps the build to SequentialBuild: the result the caller  *)
(* sees changes where the integration of a ticket ends, and nowhere else.  *)
(***************************************************************************)
EXTENDS TicketBuild, SequenceTheorems, FiniteSetTheorems, WellFoundedInduction, TLAPS

Working == {"dev", "unit", "security", "review", "qa", "accept"}

\* Where a worker is at `step` of attempt n, the files of n are in the worktree
\* and n got through the checks before that step; a ticket that passed has n
\* committed, through every check.
Piped(step, n, done, files, commits, result) ==
    /\ step = "waiting" => n = 0
    /\ step \in Working \cup {"built"} => n # 0
    /\ step \in Working \ {"dev"} => n \in files
    /\ step \in {"security", "review", "qa", "accept"} => done["unit"] = n
    /\ step \in {"review", "qa", "accept"} /\ EnableSecurity => done["security"] = n
    /\ step \in {"qa", "accept"} /\ EnableReview => done["review"] = n
    /\ result = "passed" => n \in commits /\ \A g \in EnabledGates : done[g] = n

Pipeline ==
    \A t \in Tickets :
        Piped(pc[t], attempt[t], cleared[t], tree[t], branch[t], status[t])

Standing ==
    \A t \in Tickets :
        /\ pc[t] = "waiting" => pr[t] = "none"
        /\ pc[t] = "built" <=> status[t] \in {"passed", "escalated"}

Integrating == {"integrate", "resolve", "verify"}

Schedule ==
    /\ \A t \in Tickets :
        /\ pc[t] # "waiting" => WaveOf[t] <= wave
        /\ pc[t] \in Working => lead = "build" /\ WaveOf[t] = wave
        /\ WaveOf[t] < wave => IsRecorded(t)
        /\ IsRecorded(t) => /\ WaveOf[t] <= wave /\ pc[t] = "built"
                            /\ lead = "build" => WaveOf[t] < wave
        /\ lead \in Integrating /\ WaveOf[t] = wave => pc[t] = "built"
        /\ lead \in {"resolve", "verify"} /\ IsTurn(t) => status[t] = "passed"
    /\ lead \in Integrating \cup {"build"} => wave <= NumWaves
    /\ lead = "done" => wave = NumWaves + 1
    /\ merging => lead \in {"resolve", "aborted"}

Settled ==
    /\ \A t \in Tickets :
        /\ IsRecorded(t) =>
            /\ ~ worktree[t]
            /\ pr[t] = (IF status[t] = "passed" THEN "merged" ELSE "closed")
        /\ ~ IsRecorded(t) /\ pr[t] \in {"merged", "closed"} =>
            /\ lead = "aborted" /\ IsTurn(t)
            /\ pr[t] = "merged" => status[t] = "passed"
    /\ \A i, j \in 1..Len(recorded) : recorded[i] = recorded[j] => i = j

MainSound ==
    \A t \in Tickets :
        t \in main => IsRecorded(t) \/ (lead \in {"verify", "aborted"} /\ IsTurn(t))

IInv ==
    /\ TypeOK
    /\ Pipeline /\ Standing
    /\ Schedule /\ Settled /\ MainSound
    /\ BuiltOnEarlierWaves /\ InterventionPerEscalation

-----------------------------------------------------------------------------
(* Types                                                                   *)

\* The part of the types that a worker's outcome touches.
Steps == {"waiting", "dev", "unit", "security", "review", "qa", "accept",
          "built", "raised"}

OutcomeTypes ==
    /\ pc \in [Tickets -> Steps]
    /\ attempt \in [Tickets -> 0..MaxRetries]
    /\ status \in [Tickets -> {"building", "passed", "escalated"}]
    /\ error \in [Tickets -> {"none"} \cup WorkerErrors]
    /\ cleared \in [Tickets -> [Gates -> 0..MaxRetries]]
    /\ interventions \in Nat

LEMMA InitTypeOK == Init => TypeOK
<1> SUFFICES ASSUME Init PROVE TypeOK
    OBVIOUS
<1>1. recorded \in Seq(Tickets)
    BY EmptySeq DEF Init
<1>2. wave \in 1..NumWaves + 1 /\ 0 \in 0..MaxRetries
    BY BuildAssumption DEF Init
<1> QED BY <1>1, <1>2 DEF Init, TypeOK

LEMMA BurnTypes ==
    ASSUME OutcomeTypes, NEW t \in Tickets, Burn(t)
    PROVE  OutcomeTypes'
<1> USE DEF OutcomeTypes, Goto, Steps
<1>1. CASE attempt[t] < MaxRetries /\ ~ Escalate(t)
    <2>1. /\ attempt' = [attempt EXCEPT ![t] = @ + 1]
          /\ pc' = [pc EXCEPT ![t] = "dev"]
          /\ UNCHANGED <<status, error, cleared, interventions>>
        BY <1>1 DEF Burn
    <2>2. attempt[t] + 1 \in 0..MaxRetries
        BY <1>1, BuildAssumption
    <2>3. attempt' \in [Tickets -> 0..MaxRetries]
        BY <2>1, <2>2
    <2> QED BY <2>1, <2>3
<1>2. CASE Escalate(t)
    BY <1>2 DEF Escalate
<1> QED BY <1>1, <1>2, BuildAssumption DEF Burn

LEMMA RaiseTypes ==
    ASSUME OutcomeTypes, NEW t \in Tickets,
           NEW e \in WorkerErrors, Raise(t, e)
    PROVE  OutcomeTypes'
BY DEF OutcomeTypes, Goto, Steps, Raise

LEMMA AgentFailsTypes ==
    ASSUME OutcomeTypes, NEW t \in Tickets, AgentFails(t)
    PROVE  OutcomeTypes'
<1>1. CASE Burn(t)
    BY <1>1, BurnTypes
<1>2. CASE Escalate(t)
    BY <1>2 DEF OutcomeTypes, Goto, Steps, Escalate
<1>3. CASE Raise(t, "failure")
    BY <1>3, RaiseTypes DEF WorkerErrors
<1> QED BY <1>1, <1>2, <1>3 DEF AgentFails

LEMMA ClearTypes ==
    ASSUME OutcomeTypes, NEW t \in Tickets, NEW g \in Gates, NEW s \in Steps,
           Clear(t, g, s)
    PROVE  OutcomeTypes'
BY DEF OutcomeTypes, Goto, Clear

-----------------------------------------------------------------------------
(* A step of a worker                                                      *)

\* What the other threads may know of a step of t's worker.
WorkerMove(t) ==
    /\ pc[t] \in Working
    /\ UNCHANGED <<repo, control>>
    /\ \A u \in Tickets \ {t} :
         pc'[u] = pc[u] /\ status'[u] = status[u] /\ attempt'[u] = attempt[u]
    /\ \/ /\ pc'[t] \in Working \cup {"raised"}
          /\ UNCHANGED <<status, interventions>>
       \/ /\ pc'[t] = "built" /\ status'[t] = "passed"
          /\ UNCHANGED interventions
       \/ /\ pc'[t] = "built" /\ status'[t] = "escalated"
          /\ interventions' = interventions + 1

\* The state of t's worker and of the others after the agent failed, or after
\* an exception, wherever the worker was and whatever it had committed.
LEMMA FailureMoves ==
    ASSUME TypeOK, Pipeline, NEW t \in Tickets, pc[t] \in Working,
           status[t] = "building",
           AgentFails(t) \/ \E e \in WorkerErrors : Raise(t, e),
           UNCHANGED branch \/ CommitTree(t), UNCHANGED code \/ RecordCode(t),
           UNCHANGED <<tree, repo, control>>
    PROVE  TypeOK' /\ Pipeline' /\ WorkerMove(t)
<1>1. OutcomeTypes
    BY DEF TypeOK, OutcomeTypes, Steps
<1>2. OutcomeTypes'
    BY <1>1, AgentFailsTypes, RaiseTypes
<1>3. TypeOK'
    <2>1. branch' \in [Tickets -> SUBSET Attempts]
        BY DEF TypeOK, CommitTree
    <2>2. code' \in [Tickets -> BOOLEAN]
        BY DEF TypeOK, RecordCode
    <2> QED BY <1>2, <2>1, <2>2 DEF TypeOK, OutcomeTypes, Steps, repo, control
<1>4. Piped(pc'[t], attempt'[t], cleared'[t], tree'[t], branch'[t], status'[t])
    <2>1. attempt[t] \in Nat /\ attempt[t] # 0
        <3>1. attempt[t] \in Nat
            BY BuildAssumption DEF TypeOK
        <3> QED BY <3>1 DEF Pipeline, Piped
    <2>2. CASE pc'[t] \in {"dev", "built", "raised"} /\ status'[t] \in {"building", "escalated"}
               /\ attempt'[t] # 0
        BY <2>2 DEF Piped, Working
    <2>3. pc'[t] \in {"dev", "built", "raised"} /\ status'[t] \in {"building", "escalated"}
          /\ attempt'[t] # 0
        BY <2>1 DEF AgentFails, Burn, Escalate, Raise, Goto, TypeOK
    <2> QED BY <2>2, <2>3
<1>5. \A u \in Tickets \ {t} :
        /\ pc'[u] = pc[u] /\ attempt'[u] = attempt[u] /\ cleared'[u] = cleared[u]
        /\ status'[u] = status[u] /\ branch'[u] = branch[u]
    <2>1. \A u \in Tickets \ {t} : branch'[u] = branch[u]
        BY DEF CommitTree, TypeOK
    <2> QED BY <2>1 DEF AgentFails, Burn, Escalate, Raise, Goto, TypeOK
<1>6. Pipeline'
    BY <1>4, <1>5 DEF Pipeline
<1>7. WorkerMove(t)
    <2>1. \/ pc'[t] \in {"dev", "raised"} /\ UNCHANGED <<status, interventions>>
          \/ /\ pc'[t] = "built" /\ status'[t] = "escalated"
             /\ interventions' = interventions + 1
        BY DEF AgentFails, Burn, Escalate, Raise, Goto, TypeOK
    <2> QED BY <1>5, <2>1 DEF WorkerMove, Working
<1> QED BY <1>3, <1>6, <1>7

\* The same of a check that passes and sends the ticket to its next step.
LEMMA ClearMoves ==
    ASSUME TypeOK, Pipeline, NEW t \in Tickets, pc[t] \in Working,
           NEW g \in Gates, NEW step \in Working \ {"dev"}, Clear(t, g, step),
           Piped(step, attempt[t], [cleared[t] EXCEPT ![g] = attempt[t]], tree[t],
                 branch[t], status[t]),
           UNCHANGED <<tree, branch, code, repo, control>>
    PROVE  TypeOK' /\ Pipeline' /\ WorkerMove(t)
<1>1. OutcomeTypes
    BY DEF TypeOK, OutcomeTypes, Steps
<1>2. OutcomeTypes'
    BY <1>1, ClearTypes DEF Working, Steps
<1>3. TypeOK'
    BY <1>2 DEF TypeOK, OutcomeTypes, Steps, repo, control
<1>4. Pipeline'
    BY DEF Pipeline, Clear, Goto, TypeOK
<1>5. WorkerMove(t)
    BY DEF WorkerMove, Clear, Goto, TypeOK, Working
<1> QED BY <1>3, <1>4, <1>5

LEMMA DevMoves ==
    ASSUME TypeOK, Pipeline, Standing, NEW t \in Tickets, Dev(t)
    PROVE  TypeOK' /\ Pipeline' /\ WorkerMove(t)
<1>1. pc[t] \in Working /\ status[t] = "building"
    BY DEF Dev, Standing, TypeOK, Working
<1>2. CASE AgentFails(t) /\ UNCHANGED tree
    BY <1>1, <1>2, FailureMoves DEF Dev
<1>3. ASSUME NEW kept \in SUBSET tree[t],
             tree' = [tree EXCEPT ![t] = kept \cup {attempt[t]}],
             Goto(t, "unit"), UNCHANGED <<attempt, status, error, cleared, interventions>>
      PROVE  TypeOK' /\ Pipeline' /\ WorkerMove(t)
    <2>1. attempt[t] \in Attempts
        <3>1. attempt[t] # 0
            BY <1>1 DEF Pipeline, Piped, Working
        <3> QED BY <3>1, BuildAssumption DEF TypeOK, Attempts
    <2>2. tree' \in [Tickets -> SUBSET Attempts]
        BY <1>3, <2>1 DEF TypeOK
    <2>3. TypeOK'
        BY <1>3, <2>2 DEF Dev, Goto, TypeOK, repo, control
    <2>4. Piped(pc[t], attempt[t], cleared[t], tree[t], branch[t], status[t])'
        BY <1>1, <1>3 DEF Dev, Goto, TypeOK, Pipeline, Piped, Working
    <2>5. Pipeline'
        BY <1>3, <2>4 DEF Dev, Goto, TypeOK, Pipeline
    <2>6. WorkerMove(t)
        BY <1>1, <1>3 DEF Dev, Goto, TypeOK, WorkerMove, Working
    <2> QED BY <2>3, <2>5, <2>6
<1> QED BY <1>2, <1>3 DEF Dev

LEMMA UnitMoves ==
    ASSUME TypeOK, Pipeline, Standing, NEW t \in Tickets, Unit(t)
    PROVE  TypeOK' /\ Pipeline' /\ WorkerMove(t)
<1>1. pc[t] \in Working /\ status[t] = "building"
    BY DEF Unit, Standing, TypeOK, Working
<1>2. CASE Burn(t)
    BY <1>1, <1>2, FailureMoves DEF Unit, AgentFails
<1>3. CASE Raise(t, "failure")
    BY <1>1, <1>3, FailureMoves DEF Unit, AgentFails
<1>4. CASE Clear(t, "unit", AfterUnit)
    <2>1. AfterUnit \in Working \ {"dev"} /\ "unit" \in Gates
        BY DEF AfterUnit, AfterSecurity, AfterReview, Working, Gates
    <2>2. Piped(AfterUnit, attempt[t], [cleared[t] EXCEPT !["unit"] = attempt[t]], tree[t],
                branch[t], status[t])
        BY <1>1 DEF Unit, Pipeline, Piped, TypeOK, Gates, Working, AfterUnit,
                    AfterSecurity, AfterReview
    <2> QED BY <1>1, <1>4, <2>1, <2>2, ClearMoves DEF Unit
<1> QED BY <1>2, <1>4, <1>3 DEF Unit

LEMMA SecurityMoves ==
    ASSUME TypeOK, Pipeline, Standing, NEW t \in Tickets, Security(t)
    PROVE  TypeOK' /\ Pipeline' /\ WorkerMove(t)
<1>1. pc[t] \in Working /\ status[t] = "building"
    BY DEF Security, Standing, TypeOK, Working
<1>2. CASE Burn(t) \/ \E e \in WorkerErrors : Raise(t, e)
    BY <1>1, <1>2, FailureMoves DEF Security, AgentFails
<1>3. CASE Clear(t, "security", AfterSecurity)
    <2>1. AfterSecurity \in Working \ {"dev"} /\ "security" \in Gates
        BY DEF AfterSecurity, AfterReview, Working, Gates
    <2>2. Piped(AfterSecurity, attempt[t], [cleared[t] EXCEPT !["security"] = attempt[t]],
                tree[t], branch[t], status[t])
        BY <1>1 DEF Security, Pipeline, Piped, TypeOK, Gates, Working, AfterSecurity,
                    AfterReview
    <2> QED BY <1>1, <1>3, <2>1, <2>2, ClearMoves DEF Security
<1> QED BY <1>2, <1>3 DEF Security

LEMMA ReviewMoves ==
    ASSUME TypeOK, Pipeline, Standing, NEW t \in Tickets, Review(t)
    PROVE  TypeOK' /\ Pipeline' /\ WorkerMove(t)
<1>1. pc[t] \in Working /\ status[t] = "building"
    BY DEF Review, Standing, TypeOK, Working
<1>2. CASE AgentFails(t)
    BY <1>1, <1>2, FailureMoves DEF Review
<1>3. CASE Clear(t, "review", AfterReview)
    <2>1. AfterReview \in Working \ {"dev"} /\ "review" \in Gates
        BY DEF AfterReview, Working, Gates
    <2>2. Piped(AfterReview, attempt[t], [cleared[t] EXCEPT !["review"] = attempt[t]],
                tree[t], branch[t], status[t])
        BY <1>1 DEF Review, Pipeline, Piped, TypeOK, Gates, Working, AfterReview
    <2> QED BY <1>1, <1>3, <2>1, <2>2, ClearMoves DEF Review
<1> QED BY <1>2, <1>3 DEF Review

LEMMA QAMoves ==
    ASSUME TypeOK, Pipeline, Standing, NEW t \in Tickets, QA(t)
    PROVE  TypeOK' /\ Pipeline' /\ WorkerMove(t)
<1>1. pc[t] \in Working /\ status[t] = "building"
    BY DEF QA, Standing, TypeOK, Working
<1>2. CASE AgentFails(t)
    BY <1>1, <1>2, FailureMoves DEF QA
<1>3. CASE Goto(t, "accept") /\ UNCHANGED <<attempt, status, error, cleared, interventions>>
    <2>1. TypeOK'
        BY <1>3 DEF QA, Goto, TypeOK, repo, control
    <2>2. Piped("accept", attempt[t], cleared[t], tree[t], branch[t], status[t])
        BY <1>1 DEF QA, Pipeline, Piped, Working
    <2>3. Pipeline'
        BY <1>3, <2>2 DEF QA, Goto, TypeOK, Pipeline
    <2>4. WorkerMove(t)
        BY <1>1, <1>3 DEF QA, Goto, TypeOK, WorkerMove, Working
    <2> QED BY <2>1, <2>3, <2>4
<1> QED BY <1>2, <1>3 DEF QA

LEMMA AcceptMoves ==
    ASSUME TypeOK, Pipeline, Standing, NEW t \in Tickets, Accept(t)
    PROVE  TypeOK' /\ Pipeline' /\ WorkerMove(t)
<1>1. pc[t] \in Working /\ status[t] = "building"
    BY DEF Accept, Standing, TypeOK, Working
<1>2. CASE Burn(t) /\ UNCHANGED <<branch, code>>
    BY <1>1, <1>2, FailureMoves DEF Accept, AgentFails
<1>3. CASE /\ Raise(t, "failure")
           /\ \/ UNCHANGED <<branch, code>>
              \/ CommitTree(t) /\ (UNCHANGED code \/ RecordCode(t))
    BY <1>1, <1>3, FailureMoves DEF Accept, AgentFails
<1>4. CASE /\ cleared' = [cleared EXCEPT ![t]["qa"] = attempt[t]]
           /\ CommitTree(t) /\ RecordCode(t)
           /\ status' = [status EXCEPT ![t] = "passed"]
           /\ Goto(t, "built")
           /\ UNCHANGED <<attempt, error, interventions>>
    <2>1. cleared' \in [Tickets -> [Gates -> 0..MaxRetries]]
        BY <1>4 DEF TypeOK, Gates
    <2>2. TypeOK'
        BY <1>4, <2>1 DEF Accept, CommitTree, RecordCode, Goto, TypeOK, repo, control
    <2>3. Piped("built", attempt[t], [cleared[t] EXCEPT !["qa"] = attempt[t]], tree[t],
                tree[t], "passed")
        BY <1>1 DEF Accept, Pipeline, Piped, TypeOK, Gates, Working, EnabledGates
    <2>4. Pipeline'
        BY <1>4, <2>3 DEF Accept, CommitTree, Goto, TypeOK, Pipeline
    <2>5. WorkerMove(t)
        BY <1>1, <1>4 DEF Accept, Goto, TypeOK, WorkerMove, Working
    <2> QED BY <2>2, <2>4, <2>5
<1> QED BY <1>2, <1>4, <1>3 DEF Accept

-----------------------------------------------------------------------------
(* What the other parts of the invariant have to know                      *)

LEMMA AppendRecords ==
    ASSUME TypeOK, NEW t \in Tickets, recorded' = Append(recorded, t)
    PROVE  \A u \in Tickets : IsRecorded(u)' <=> IsRecorded(u) \/ u = t
<1>1. recorded \in Seq(Tickets)
    BY DEF TypeOK
<1>2. /\ Len(recorded') = Len(recorded) + 1 /\ Len(recorded) \in Nat
      /\ \A i \in 1..Len(recorded) : recorded'[i] = recorded[i]
      /\ recorded'[Len(recorded) + 1] = t
    BY <1>1
<1>3. \A i \in 1..Len(recorded) + 1 : i \in 1..Len(recorded) \/ i = Len(recorded) + 1
    BY <1>2
<1>4. /\ 1..Len(recorded) \subseteq 1..Len(recorded) + 1
      /\ Len(recorded) + 1 \in 1..Len(recorded) + 1
    BY <1>2
<1> HIDE DEF TypeOK
<1> QED BY <1>2, <1>3, <1>4 DEF IsRecorded

LEMMA SameTurn ==
    ASSUME UNCHANGED <<wave, recorded>>
    PROVE  \A t \in Tickets : (IsRecorded(t)' <=> IsRecorded(t)) /\ (IsTurn(t)' <=> IsTurn(t))
<1>1. \A t \in Tickets : IsRecorded(t)' <=> IsRecorded(t)
    BY DEF IsRecorded
<1> QED BY <1>1 DEF IsTurn, InWave

\* While a wave is built, and until a conflict is committed, main holds what is
\* in the result and nothing else.
LEMMA MainBefore ==
    ASSUME IInv, NEW t \in Tickets, t \in main
    PROVE  /\ WaveOf[t] <= wave
           /\ lead = "build" => WaveOf[t] < wave
<1>1. WaveOf[t] \in Nat
    BY BuildAssumption
<1>2. CASE IsRecorded(t)
    BY <1>2 DEF IInv, Schedule
<1>3. CASE lead \in {"verify", "aborted"} /\ IsTurn(t)
    BY <1>1, <1>3 DEF IsTurn, InWave
<1> QED BY <1>2, <1>3 DEF IInv, MainSound

\* A ticket that was begun is of this wave or an earlier one.
LEMMA BegunBefore ==
    ASSUME IInv, NEW t \in Tickets, attempt[t] > 0
    PROVE  WaveOf[t] <= wave
<1>1. attempt[t] # 0
    BY BuildAssumption DEF IInv, TypeOK
<1>2. pc[t] # "waiting"
    BY <1>1 DEF IInv, Pipeline, Piped
<1> QED BY <1>2 DEF IInv, Schedule

\* A ticket of the wave coming onto main changes no base: what lies below the
\* worktrees of this wave and the earlier ones is from before.
LEMMA MainGrows ==
    ASSUME IInv, NEW t \in Tickets, IsTurn(t), UNCHANGED <<attempt, base>>,
           lead' # "build", UNCHANGED main \/ main' = main \cup {t}
    PROVE  BuiltOnEarlierWaves'
<1>1. ASSUME NEW u \in Tickets, attempt[u] > 0
      PROVE  base[u] = {v \in main' : WaveOf[v] < WaveOf[u]}
    <2>1. WaveOf[u] <= WaveOf[t]
        BY <1>1, BegunBefore DEF IsTurn, InWave
    <2>2. ~ (WaveOf[t] < WaveOf[u])
        BY <2>1, BuildAssumption
    <2>3. base[u] = {v \in main : WaveOf[v] < WaveOf[u]}
        BY <1>1 DEF IInv, BuiltOnEarlierWaves
    <2> QED BY <2>2, <2>3
<1> QED BY <1>1 DEF BuiltOnEarlierWaves

\* One ticket at a time is integrated.
LEMMA OneTurn ==
    ASSUME NEW t \in Tickets, NEW u \in Tickets, IsTurn(t), IsTurn(u)
    PROVE  t = u
<1>1. t \in Nat /\ u \in Nat
    BY BuildAssumption DEF Tickets
<1> QED BY <1>1 DEF IsTurn

LEMMA OneMoreEscalated ==
    ASSUME NEW t \in Tickets, status[t] # "escalated", status'[t] = "escalated",
           \A u \in Tickets \ {t} : status'[u] = status[u],
           InterventionPerEscalation, interventions' = interventions + 1
    PROVE  InterventionPerEscalation'
<1> DEFINE E == {u \in Tickets : status[u] = "escalated"}
           F == {u \in Tickets : status'[u] = "escalated"}
<1>1. F = E \cup {t} /\ t \notin E
    OBVIOUS
<1>2. IsFiniteSet(E)
    BY FS_Interval, FS_Subset, BuildAssumption DEF Tickets
<1>3. Cardinality(F) = Cardinality(E) + 1
    BY <1>1, <1>2, FS_AddElement
<1> QED BY <1>3 DEF InterventionPerEscalation

LEMMA SameEscalated ==
    ASSUME \A u \in Tickets : status'[u] = "escalated" <=> status[u] = "escalated",
           InterventionPerEscalation, UNCHANGED interventions
    PROVE  InterventionPerEscalation'
BY DEF InterventionPerEscalation

\* All of the invariant but the types and the pipeline.
Progress ==
    /\ Standing /\ Schedule /\ Settled /\ MainSound
    /\ BuiltOnEarlierWaves /\ InterventionPerEscalation

LEMMA WorkerProgress ==
    ASSUME TypeOK, Pipeline, Progress, NEW t \in Tickets, WorkerMove(t)
    PROVE  Progress'
<1>1. /\ pc[t] \in Working /\ pc[t] # "waiting" /\ lead = "build" /\ WaveOf[t] = wave
      /\ status[t] = "building"
      /\ ~ IsRecorded(t)
    BY DEF WorkerMove, Progress, Schedule, Working, Standing, TypeOK
<1>2. /\ UNCHANGED <<worktree, base, pr, main, merging, lead, wave, recorded, outcome>>
      /\ \A u \in Tickets \ {t} : pc'[u] = pc[u] /\ status'[u] = status[u]
      /\ \A u \in Tickets : (IsRecorded(u)' <=> IsRecorded(u)) /\ (IsTurn(u)' <=> IsTurn(u))
    BY SameTurn DEF WorkerMove, repo, control
<1>3. /\ pc'[t] \in Working \cup {"raised", "built"}
      /\ pc'[t] = "built" <=> status'[t] \in {"passed", "escalated"}
    BY <1>1 DEF WorkerMove, Working
<1>4. Standing'
    BY <1>1, <1>2, <1>3 DEF Progress, Standing, Working
<1>5. Schedule'
    BY <1>1, <1>2, <1>3 DEF Progress, Schedule, Working, Integrating
<1>6. Settled'
    BY <1>1, <1>2 DEF Progress, Settled
<1>7. MainSound'
    BY <1>1, <1>2 DEF Progress, MainSound
<1>8. BuiltOnEarlierWaves'
    <2>1. attempt[t] > 0
        <3>1. attempt[t] \in Nat /\ attempt[t] # 0
            <4>1. attempt[t] # 0
                BY <1>1 DEF Pipeline, Piped
            <4> QED BY <4>1, BuildAssumption DEF TypeOK
        <3> QED BY <3>1
    <2>2. \A u \in Tickets \ {t} : attempt'[u] = attempt[u]
        BY DEF WorkerMove
    <2> QED BY <1>2, <2>1, <2>2 DEF Progress, BuiltOnEarlierWaves
<1>9. InterventionPerEscalation'
    BY <1>1, OneMoreEscalated, SameEscalated DEF Progress, WorkerMove
<1> QED BY <1>4, <1>5, <1>6, <1>7, <1>8, <1>9 DEF Progress

\* A worktree is opened for a ticket of the current wave.
LEMMA OpenKeeps ==
    ASSUME IInv, NEW t \in Tickets, Open(t)
    PROVE  IInv'
<1>1. /\ pc[t] = "waiting" /\ lead = "build" /\ WaveOf[t] = wave
      /\ ~ IsRecorded(t) /\ status[t] = "building"
    BY DEF Open, IInv, Schedule, Standing, TypeOK
<1>2. /\ \A u \in Tickets \ {t} : /\ pc'[u] = pc[u] /\ attempt'[u] = attempt[u]
                                 /\ pr'[u] = pr[u] /\ base'[u] = base[u]
                                 /\ worktree'[u] = worktree[u]
      /\ pc'[t] = "dev" /\ attempt'[t] = 1 /\ pr'[t] = "open" /\ base'[t] = main
      /\ UNCHANGED <<status, cleared, tree, branch, main, merging, lead, wave, recorded,
                     interventions>>
      /\ \A u \in Tickets : (IsRecorded(u)' <=> IsRecorded(u)) /\ (IsTurn(u)' <=> IsTurn(u))
    BY SameTurn DEF Open, NewWorktree, Goto, control, IInv, TypeOK
<1>3. TypeOK'
    <2>1. 1 \in 0..MaxRetries
        BY BuildAssumption
    <2> QED BY <2>1 DEF Open, NewWorktree, Goto, control, IInv, TypeOK
<1>4. Pipeline'
    BY <1>1, <1>2 DEF IInv, Pipeline, Piped
<1>5. Standing'
    BY <1>1, <1>2 DEF IInv, Standing
<1>6. Schedule'
    <2>1. WaveOf[t] <= wave
        BY <1>1, BuildAssumption
    <2> QED BY <1>1, <1>2, <2>1 DEF IInv, Schedule, Working, Integrating
<1>7. Settled'
    BY <1>1, <1>2 DEF IInv, Settled
<1>8. MainSound'
    BY <1>1, <1>2 DEF IInv, MainSound
<1>9. BuiltOnEarlierWaves'
    <2>1. main = {u \in main : WaveOf[u] < WaveOf[t]}
        BY <1>1, MainBefore DEF IInv, TypeOK
    <2> QED BY <1>1, <1>2, <2>1 DEF IInv, BuiltOnEarlierWaves
<1>10. InterventionPerEscalation'
    BY <1>2, SameEscalated DEF IInv
<1> QED BY <1>3, <1>4, <1>5, <1>6, <1>7, <1>8, <1>9, <1>10 DEF IInv

\* A ticket is given up before it has a PR.
LEMMA OpenFailsKeeps ==
    ASSUME IInv, NEW t \in Tickets, OpenFails(t)
    PROVE  IInv'
<1>1. /\ pc[t] = "waiting" /\ lead = "build" /\ WaveOf[t] = wave
      /\ ~ IsRecorded(t) /\ status[t] = "building" /\ attempt[t] = 0
    BY DEF OpenFails, IInv, Schedule, Standing, Pipeline, Piped, TypeOK
<1>2. /\ \A u \in Tickets \ {t} : /\ pc'[u] = pc[u] /\ base'[u] = base[u]
                                 /\ worktree'[u] = worktree[u]
      /\ pc'[t] = "raised"
      /\ UNCHANGED <<attempt, status, cleared, tree, branch, code, pr, main, merging, lead,
                     wave, recorded, interventions, outcome>>
      /\ \A u \in Tickets : (IsRecorded(u)' <=> IsRecorded(u)) /\ (IsTurn(u)' <=> IsTurn(u))
    BY SameTurn DEF OpenFails, NewWorktree, Raise, Goto, control, IInv, TypeOK
<1>3. TypeOK'
    <2>1. pc' \in [Tickets -> Steps] /\ error' \in [Tickets -> {"none"} \cup WorkerErrors]
        BY DEF OpenFails, Raise, Goto, WorkerErrors, IInv, TypeOK, Steps
    <2>2. worktree' \in [Tickets -> BOOLEAN] /\ base' \in [Tickets -> SUBSET Tickets]
        BY DEF OpenFails, NewWorktree, IInv, TypeOK
    <2> QED BY <1>2, <2>1, <2>2 DEF IInv, TypeOK, Steps
<1>4. Pipeline'
    BY <1>1, <1>2 DEF IInv, Pipeline, Piped, Working
<1>5. Standing'
    BY <1>1, <1>2 DEF IInv, Standing
<1>6. Schedule'
    <2>1. WaveOf[t] <= wave
        BY <1>1, BuildAssumption
    <2> QED BY <1>1, <1>2, <2>1 DEF IInv, Schedule, Working, Integrating
<1>7. Settled'
    BY <1>1, <1>2 DEF IInv, Settled
<1>8. MainSound'
    BY <1>2 DEF IInv, MainSound
<1>9. BuiltOnEarlierWaves'
    BY <1>1, <1>2 DEF IInv, BuiltOnEarlierWaves
<1>10. InterventionPerEscalation'
    BY <1>2, SameEscalated DEF IInv
<1> QED BY <1>3, <1>4, <1>5, <1>6, <1>7, <1>8, <1>9, <1>10 DEF IInv

-----------------------------------------------------------------------------
(* The lead thread                                                         *)

LEMMA JoinKeeps ==
    ASSUME IInv, Join
    PROVE  IInv'
<1>1. \A u \in Tickets : (IsRecorded(u)' <=> IsRecorded(u)) /\ (IsTurn(u)' <=> IsTurn(u))
    BY SameTurn DEF Join
<1>2. /\ lead = "build" /\ lead' \in {"integrate", "aborted"}
      /\ lead' = "integrate" => \A u \in InWave : pc[u] = "built"
      /\ \A u \in InWave : pc[u] \in {"built", "raised"}
      /\ UNCHANGED <<worker, repo, wave, recorded, interventions>>
    BY DEF Join
<1>3. \A u \in Tickets : pc[u] \notin Working
    BY <1>2 DEF IInv, Schedule, InWave, Working
<1>4. TypeOK'
    <2>1. outcome' \in {"none", "complete"} \cup WorkerErrors
        <3>1. \A u \in Tickets : error[u] \in {"none"} \cup WorkerErrors
            BY DEF IInv, TypeOK
        <3>2. outcome' = outcome \/ \E u \in Tickets : outcome' = error[u]
            BY DEF Join, InWave
        <3> QED BY <3>1, <3>2 DEF IInv, TypeOK
    <2> QED BY <1>2, <2>1 DEF IInv, TypeOK, worker, repo
<1>5. Schedule'
    BY <1>1, <1>2, <1>3 DEF IInv, Schedule, worker, repo, InWave, Integrating
<1>6. Settled'
    BY <1>1, <1>2 DEF IInv, Settled, worker, repo
<1>7. MainSound'
    BY <1>1, <1>2 DEF IInv, MainSound, repo
<1> QED BY <1>2, <1>4, <1>5, <1>6, <1>7
        DEF IInv, Pipeline, Standing, BuiltOnEarlierWaves,
            InterventionPerEscalation, worker, repo

LEMMA ConflictKeeps ==
    ASSUME IInv, NEW t \in Tickets, MergeConflict(t)
    PROVE  IInv'
<1>1. \A u \in Tickets : (IsRecorded(u)' <=> IsRecorded(u)) /\ (IsTurn(u)' <=> IsTurn(u))
    BY SameTurn DEF MergeConflict
<1>2. ASSUME NEW u \in Tickets, IsTurn(u)'
      PROVE  status[u] = "passed"
    <2>1. IsTurn(t) /\ status[t] = "passed"
        BY DEF MergeConflict
    <2>2. IsTurn(u)
        BY <1>1, <1>2
    <2> QED BY <2>1, <2>2, OneTurn
<1>3. Schedule'
    BY <1>1, <1>2 DEF MergeConflict, IInv, Schedule, worker, Working, Integrating
<1>4. Settled'
    BY <1>1 DEF MergeConflict, IInv, Settled, worker
<1>5. MainSound'
    BY <1>1 DEF MergeConflict, IInv, MainSound
<1> QED BY <1>3, <1>4, <1>5
        DEF MergeConflict, IInv, TypeOK, Pipeline, Standing,
            BuiltOnEarlierWaves, InterventionPerEscalation, worker

\* The lead thread leaves with no more than an open merge behind it.
LEMMA LeaveKeeps ==
    ASSUME IInv, WaveFails \/ ResolutionFails
    PROVE  IInv'
<1>1. /\ lead \in {"build", "resolve"} /\ lead' = "aborted" /\ outcome' = "failure"
      /\ UNCHANGED <<worker, repo, wave, recorded, interventions>>
    BY DEF WaveFails, ResolutionFails, Leave, worker, repo
<1>2. \A u \in Tickets : (IsRecorded(u)' <=> IsRecorded(u)) /\ (IsTurn(u)' <=> IsTurn(u))
    BY <1>1, SameTurn
<1>3. \A u \in Tickets : pc[u] \notin Working
    BY DEF WaveFails, ResolutionFails, IInv, Schedule, InWave, Working
<1>4. TypeOK'
    BY <1>1 DEF IInv, TypeOK, worker, repo, WorkerErrors
<1>5. Schedule'
    BY <1>1, <1>2, <1>3 DEF IInv, Schedule, worker, repo, Integrating
<1>6. Settled'
    BY <1>1, <1>2 DEF IInv, Settled, worker, repo
<1>7. MainSound'
    BY <1>1, <1>2 DEF IInv, MainSound, repo
<1> QED BY <1>1, <1>4, <1>5, <1>6, <1>7
        DEF IInv, Pipeline, Standing, BuiltOnEarlierWaves,
            InterventionPerEscalation, worker, repo

\* An error in the middle of the integration of t: it may be on main and have
\* its PR settled, and is not in the result.
Stopped(t) ==
    /\ lead \in Integrating /\ IsTurn(t) /\ lead' = "aborted" /\ outcome' = "failure"
    /\ UNCHANGED <<pc, attempt, status, error, cleared, branch, code, base, wave,
                   recorded, interventions>>
    /\ \/ UNCHANGED pr
       \/ pr' = [pr EXCEPT ![t] = "closed"]
       \/ status[t] = "passed" /\ pr' = [pr EXCEPT ![t] = "merged"]
    /\ UNCHANGED tree \/ tree' = [tree EXCEPT ![t] = {}]
    /\ UNCHANGED worktree \/ worktree' = [worktree EXCEPT ![t] = FALSE]
    /\ UNCHANGED main \/ main' = main \cup {t}
    /\ merging' \in BOOLEAN

LEMMA FailureStops ==
    ASSUME IInv, NEW t \in Tickets, IntegrationFails(t)
    PROVE  Stopped(t)
<1> USE DEF Stopped, Integrating, Leave
<1>1. merging \in BOOLEAN
    BY DEF IInv, TypeOK
<1>2. ASSUME NEW state, SettleFails(t, state)
      PROVE  /\ Leave
             /\ UNCHANGED pr \/ pr' = [pr EXCEPT ![t] = state]
             /\ UNCHANGED tree \/ tree' = [tree EXCEPT ![t] = {}]
             /\ UNCHANGED worktree \/ worktree' = [worktree EXCEPT ![t] = FALSE]
    BY <1>2 DEF SettleFails, DropTree
<1>3. CASE EscalatedFails(t)
    BY <1>1, <1>2, <1>3 DEF EscalatedFails
<1>4. CASE MergeFails(t)
    BY <1>1, <1>4 DEF MergeFails
<1>5. CASE MergedFails(t)
    BY <1>1, <1>2, <1>5 DEF MergedFails
<1>6. CASE UnresolvedFails(t)
    BY <1>2, <1>6 DEF UnresolvedFails, AbortMerge
<1>7. CASE VerifyFails(t)
    <2>1. status[t] = "passed"
        BY <1>7 DEF VerifyFails, IInv, Schedule
    <2> QED BY <1>1, <1>2, <1>7, <2>1 DEF VerifyFails
<1> QED BY <1>3, <1>4, <1>5, <1>6, <1>7 DEF IntegrationFails

LEMMA StoppedKeeps ==
    ASSUME IInv, NEW t \in Tickets, Stopped(t)
    PROVE  IInv'
<1>1. /\ ~ IsRecorded(t) /\ pc[t] = "built" /\ lead' = "aborted" /\ IsTurn(t)
      /\ lead \in Integrating
    BY DEF Stopped, IsTurn, InWave, IInv, Schedule
<1>2. \A u \in Tickets : (IsRecorded(u)' <=> IsRecorded(u)) /\ (IsTurn(u)' <=> IsTurn(u))
    BY SameTurn DEF Stopped
<1>3. /\ \A u \in Tickets \ {t} : /\ pr'[u] = pr[u] /\ worktree'[u] = worktree[u]
                                 /\ tree'[u] = tree[u]
      /\ pr'[t] = "merged" => status[t] = "passed" \/ pr[t] = "merged"
      /\ main' \subseteq main \cup {t}
    BY DEF Stopped, IInv, TypeOK
<1>4. UNCHANGED <<pc, attempt, status, error, cleared, branch, code, base, wave, recorded,
                  interventions>>
    BY DEF Stopped
<1>5. TypeOK'
    <2>1. pr' \in [Tickets -> {"none", "open", "merged", "closed"}]
        BY DEF Stopped, IInv, TypeOK
    <2>2. tree' \in [Tickets -> SUBSET Attempts]
        BY DEF Stopped, IInv, TypeOK
    <2>3. worktree' \in [Tickets -> BOOLEAN]
        BY DEF Stopped, IInv, TypeOK
    <2>4. main' \in SUBSET Tickets /\ merging' \in BOOLEAN
        BY DEF Stopped, IInv, TypeOK
    <2>5. outcome' \in {"none", "complete"} \cup WorkerErrors
        BY DEF Stopped, WorkerErrors
    <2> QED BY <1>1, <1>4, <2>1, <2>5, <2>2, <2>3, <2>4 DEF IInv, TypeOK
<1>6. Pipeline'
    BY <1>1, <1>3, <1>4 DEF IInv, Pipeline, Piped, Working
<1>7. Standing'
    BY <1>1, <1>3, <1>4 DEF IInv, Standing
<1>8. Schedule'
    <2>1. \A u \in Tickets : pc[u] \notin Working
        BY <1>1 DEF IInv, Schedule, Integrating
    <2> QED BY <1>1, <1>2, <1>4, <2>1 DEF IInv, Schedule, Integrating
<1>9. Settled'
    BY <1>1, <1>2, <1>3, <1>4 DEF IInv, Settled, Integrating
<1>10. MainSound'
    <2>1. \A u \in Tickets : u \in main => IsRecorded(u) \/ IsTurn(u)
        BY DEF IInv, MainSound
    <2> QED BY <1>1, <1>2, <1>3, <2>1 DEF MainSound
<1>11. BuiltOnEarlierWaves'
    BY <1>1, <1>4, MainGrows DEF Stopped
<1>12. InterventionPerEscalation'
    BY <1>4, SameEscalated DEF IInv
<1> QED BY <1>5, <1>6, <1>7, <1>8, <1>9, <1>10, <1>11, <1>12 DEF IInv

LEMMA CommittedKeeps ==
    ASSUME IInv, NEW t \in Tickets, ResolutionCommitted(t)
    PROVE  IInv'
<1>1. \A u \in Tickets : (IsRecorded(u)' <=> IsRecorded(u)) /\ (IsTurn(u)' <=> IsTurn(u))
    BY SameTurn DEF ResolutionCommitted
<1>2. /\ lead = "resolve" /\ lead' = "verify" /\ ~ merging' /\ IsTurn(t)
      /\ UNCHANGED main \/ main' = main \cup {t}
      /\ UNCHANGED <<worker, worktree, base, pr, wave, recorded, outcome, interventions>>
    BY DEF ResolutionCommitted, CompleteMerge
<1>3. ASSUME NEW u \in Tickets, IsTurn(u)'
      PROVE  status[u] = "passed"
    <2>1. status[t] = "passed"
        BY <1>2 DEF IInv, Schedule
    <2>2. IsTurn(u)
        BY <1>1, <1>3
    <2> QED BY <1>2, <2>1, <2>2, OneTurn
<1>4. Schedule'
    BY <1>1, <1>2, <1>3 DEF IInv, Schedule, worker, Working, Integrating
<1>5. Settled'
    BY <1>1, <1>2 DEF IInv, Settled, worker
<1>6. MainSound'
    <2>1. \A u \in main : u \in Tickets /\ IsRecorded(u)
        BY <1>2 DEF IInv, MainSound, TypeOK
    <2> QED BY <1>1, <1>2, <2>1 DEF MainSound
<1>7. TypeOK'
    BY DEF ResolutionCommitted, CompleteMerge, IInv, TypeOK, worker
<1>8. BuiltOnEarlierWaves'
    BY <1>2, MainGrows DEF worker
<1> QED BY <1>2, <1>4, <1>5, <1>6, <1>7, <1>8
        DEF IInv, Pipeline, Standing, InterventionPerEscalation, worker

LEMMA NextWaveKeeps ==
    ASSUME IInv, NextWave
    PROVE  IInv'
<1>1. \A u \in Tickets : IsRecorded(u)' <=> IsRecorded(u)
    BY DEF NextWave, IsRecorded
<1>2. /\ lead = "integrate" /\ wave' = wave + 1
      /\ wave \in 1..NumWaves /\ NumWaves \in Nat
      /\ \/ wave < NumWaves /\ lead' = "build" /\ UNCHANGED outcome
         \/ wave = NumWaves /\ lead' = "done" /\ outcome' = "complete"
      /\ UNCHANGED <<worker, repo, recorded, interventions>>
    BY BuildAssumption DEF NextWave, IInv, Schedule, Integrating, TypeOK
<1>3. \A u \in Tickets :
        /\ WaveOf[u] \in Nat
        /\ WaveOf[u] < wave + 1 <=> WaveOf[u] <= wave
        /\ WaveOf[u] <= wave <=> WaveOf[u] < wave \/ WaveOf[u] = wave
    BY <1>2, BuildAssumption
<1>4. TypeOK'
    <2>1. wave' \in 1..NumWaves + 1
        BY <1>2
    <2> QED BY <1>2, <2>1 DEF IInv, TypeOK, worker, repo
<1>5. Schedule'
    <2>1. \A u \in Tickets :
            /\ pc[u] # "waiting" => WaveOf[u] < wave'
            /\ pc[u] \notin Working
            /\ WaveOf[u] < wave' => IsRecorded(u)
            /\ IsRecorded(u) => WaveOf[u] < wave' /\ WaveOf[u] <= wave' /\ pc[u] = "built"
            /\ WaveOf[u] < wave' => WaveOf[u] <= wave'
        BY <1>2, <1>3 DEF NextWave, IInv, Schedule, InWave, Integrating
    <2>2. /\ lead' = "build" => wave' <= NumWaves
          /\ lead' = "done" => wave' = NumWaves + 1
          /\ ~ merging'
        BY <1>2 DEF IInv, Schedule, repo
    <2> QED BY <1>1, <1>2, <2>1, <2>2 DEF Schedule, worker, Integrating
<1>6. Settled'
    BY <1>1, <1>2 DEF IInv, Settled, worker, repo
<1>7. MainSound'
    BY <1>1, <1>2 DEF IInv, MainSound, repo, TypeOK
<1>8. BuiltOnEarlierWaves'
    <2>1. \A u \in Tickets : attempt[u] > 0 => WaveOf[u] <= wave /\ WaveOf[u] # wave'
        <3>1. \A u \in Tickets : WaveOf[u] <= wave => WaveOf[u] # wave'
            BY <1>2, <1>3
        <3> QED BY <3>1, BegunBefore
    <2> QED BY <1>2, <2>1 DEF IInv, BuiltOnEarlierWaves, worker, repo
<1> QED BY <1>2, <1>4, <1>5, <1>6, <1>7, <1>8
        DEF IInv, Pipeline, Standing, InterventionPerEscalation, worker, repo

\* The end of a ticket's integration: it is recorded, its PR and worktree are
\* settled; it is merged, was escalated before, or is escalated now.
Integrated(t) ==
    /\ lead \in Integrating /\ IsTurn(t) /\ lead' = "integrate"
    /\ recorded' = Append(recorded, t)
    /\ worktree' = [worktree EXCEPT ![t] = FALSE]
    /\ tree' = [tree EXCEPT ![t] = {}]
    /\ merging' = FALSE
    /\ UNCHANGED <<pc, attempt, error, cleared, branch, code, base, wave, outcome>>
    /\ \/ /\ status[t] = "passed" /\ pr' = [pr EXCEPT ![t] = "merged"]
          /\ UNCHANGED main \/ main' = main \cup {t}
          /\ UNCHANGED <<status, interventions>>
       \/ /\ status[t] # "passed" /\ pr' = [pr EXCEPT ![t] = "closed"]
          /\ UNCHANGED <<main, status, interventions>>
       \/ /\ status[t] = "passed" /\ pr' = [pr EXCEPT ![t] = "closed"]
          /\ status' = [status EXCEPT ![t] = "escalated"]
          /\ interventions' = interventions + 1 /\ UNCHANGED main

LEMMA IntegrationEnds ==
    ASSUME IInv, NEW t \in Tickets,
           \/ IntegrateEscalated(t) \/ MergeClean(t) \/ ResolutionRejected(t)
           \/ VerifyGreen(t) \/ VerifyRed(t)
    PROVE  Integrated(t)
<1> USE DEF Integrated, Integrating, Settle, DropTree
<1>1. merging \in BOOLEAN /\ (merging => lead \in {"resolve", "aborted"})
    BY DEF IInv, TypeOK, Schedule
<1>2. CASE IntegrateEscalated(t)
    BY <1>1, <1>2 DEF IntegrateEscalated
<1>3. CASE MergeClean(t)
    BY <1>1, <1>3 DEF MergeClean
<1>4. CASE ResolutionRejected(t)
    <2>1. status[t] = "passed"
        BY <1>4 DEF ResolutionRejected, IInv, Schedule
    <2> QED BY <1>4, <2>1 DEF ResolutionRejected, Unresolved, AbortMerge
<1>5. CASE VerifyGreen(t)
    <2>1. status[t] = "passed"
        BY <1>5 DEF VerifyGreen, IInv, Schedule
    <2> QED BY <1>1, <1>5, <2>1 DEF VerifyGreen
<1>6. CASE VerifyRed(t)
    <2>1. status[t] = "passed"
        BY <1>6 DEF VerifyRed, IInv, Schedule
    <2> QED BY <1>6, <2>1 DEF VerifyRed, Unresolved, AbortMerge
<1> QED BY <1>2, <1>3, <1>4, <1>5, <1>6

LEMMA IntegratedKeeps ==
    ASSUME IInv, NEW t \in Tickets, Integrated(t)
    PROVE  IInv'
<1>1. /\ WaveOf[t] = wave /\ ~ IsRecorded(t) /\ pc[t] = "built"
      /\ lead' = "integrate"
    BY DEF Integrated, IsTurn, InWave, IInv, Schedule
<1>2. \A u \in Tickets : IsRecorded(u)' <=> IsRecorded(u) \/ u = t
    BY AppendRecords DEF Integrated, IInv
<1>3. /\ \A u \in Tickets \ {t} : /\ pr'[u] = pr[u] /\ status'[u] = status[u]
                                 /\ worktree'[u] = worktree[u] /\ tree'[u] = tree[u]
      /\ pr'[t] = (IF status'[t] = "passed" THEN "merged" ELSE "closed")
      /\ ~ worktree'[t]
      /\ status'[t] # status[t] => status[t] = "passed" /\ status'[t] = "escalated"
      /\ main \subseteq main' /\ main' \subseteq main \cup {t}
    <2>1. /\ \A u \in Tickets \ {t} : worktree'[u] = worktree[u] /\ tree'[u] = tree[u]
          /\ ~ worktree'[t]
        BY DEF Integrated, IInv, TypeOK
    <2>2. CASE /\ status[t] = "passed" /\ pr' = [pr EXCEPT ![t] = "merged"]
               /\ UNCHANGED main \/ main' = main \cup {t}
               /\ UNCHANGED <<status, interventions>>
        BY <2>1, <2>2 DEF IInv, TypeOK
    <2>3. CASE /\ status[t] # "passed" /\ pr' = [pr EXCEPT ![t] = "closed"]
               /\ UNCHANGED <<main, status, interventions>>
        BY <2>1, <2>3 DEF IInv, TypeOK
    <2>4. CASE /\ status[t] = "passed" /\ pr' = [pr EXCEPT ![t] = "closed"]
               /\ status' = [status EXCEPT ![t] = "escalated"]
               /\ interventions' = interventions + 1 /\ UNCHANGED main
        BY <2>1, <2>4 DEF IInv, TypeOK
    <2> QED BY <2>2, <2>3, <2>4 DEF Integrated
<1>4. UNCHANGED <<pc, attempt, cleared, branch, base, wave>>
    BY DEF Integrated
<1>5. TypeOK'
    <2>1. recorded' \in Seq(Tickets)
        BY DEF Integrated, IInv, TypeOK
    <2>2. tree' \in [Tickets -> SUBSET Attempts]
        BY DEF Integrated, IInv, TypeOK
    <2>3. main' \in SUBSET Tickets
        BY <1>3 DEF IInv, TypeOK
    <2>4. status' \in [Tickets -> {"building", "passed", "escalated"}]
        <3>1. status' = status \/ status' = [status EXCEPT ![t] = "escalated"]
            BY DEF Integrated
        <3> QED BY <3>1 DEF IInv, TypeOK
    <2>5. pr' \in [Tickets -> {"none", "open", "merged", "closed"}]
        <3>1. pr' = [pr EXCEPT ![t] = "merged"] \/ pr' = [pr EXCEPT ![t] = "closed"]
            BY DEF Integrated
        <3> QED BY <3>1 DEF IInv, TypeOK
    <2>6. interventions' \in Nat
        BY DEF Integrated, IInv, TypeOK
    <2> QED BY <2>1, <2>2, <2>3, <2>4, <2>5, <2>6 DEF Integrated, IInv, TypeOK
<1>6. Pipeline'
    BY <1>1, <1>3, <1>4 DEF IInv, Pipeline, Piped, Working
<1>7. Standing'
    BY <1>1, <1>3, <1>4 DEF IInv, Standing
<1>8. Schedule'
    BY <1>1, <1>2, <1>4, BuildAssumption
       DEF Integrated, IInv, Schedule, Integrating, Working, TypeOK
<1>9. Settled'
    <2>1. \A i, j \in 1..Len(recorded') : recorded'[i] = recorded'[j] => i = j
        <3>1. /\ Len(recorded') = Len(recorded) + 1 /\ Len(recorded) \in Nat
              /\ \A i \in 1..Len(recorded) : recorded'[i] = recorded[i]
              /\ recorded'[Len(recorded) + 1] = t
            BY DEF Integrated, IInv, TypeOK
        <3>2. \A i \in 1..Len(recorded') : i \in 1..Len(recorded) \/ i = Len(recorded) + 1
            BY <3>1
        <3>3. \A i \in 1..Len(recorded) : recorded[i] # t
            BY <1>1 DEF IsRecorded
        <3> QED BY <3>1, <3>2, <3>3 DEF IInv, Settled
    <2>2. \A u \in Tickets :
            /\ IsRecorded(u)' =>
                /\ ~ worktree'[u]
                /\ pr'[u] = (IF status'[u] = "passed" THEN "merged" ELSE "closed")
            /\ ~ IsRecorded(u)' => pr'[u] \notin {"merged", "closed"}
        BY <1>2, <1>3 DEF Integrated, Integrating, IInv, Settled
    <2> QED BY <2>1, <2>2 DEF Settled
<1>10. MainSound'
    <2>1. \A u \in main : u \in Tickets /\ (IsRecorded(u) \/ IsTurn(u))
        BY DEF IInv, MainSound, TypeOK
    <2>2. \A u \in main' : IsRecorded(u)'
        BY <1>2, <1>3, <2>1, OneTurn DEF Integrated
    <2> QED BY <2>2 DEF MainSound
<1>11. BuiltOnEarlierWaves'
    BY <1>4, MainGrows DEF Integrated
<1>12. InterventionPerEscalation'
    <2>1. CASE UNCHANGED <<status, interventions>>
        BY <2>1, SameEscalated DEF IInv
    <2>2. CASE /\ status[t] = "passed" /\ status' = [status EXCEPT ![t] = "escalated"]
               /\ interventions' = interventions + 1
        <3>1. status'[t] = "escalated"
            BY <2>2 DEF IInv, TypeOK
        <3> QED BY <1>3, <2>2, <3>1, OneMoreEscalated DEF IInv
    <2> QED BY <2>1, <2>2 DEF Integrated
<1> QED BY <1>5, <1>6, <1>7, <1>8, <1>9, <1>10, <1>11, <1>12 DEF IInv

-----------------------------------------------------------------------------
(* The theorems                                                            *)

LEMMA InitIInv == Init => IInv
<1> SUFFICES ASSUME Init PROVE IInv
    OBVIOUS
<1>1. TypeOK
    BY InitTypeOK
<1>2. \A t \in Tickets : ~ IsRecorded(t)
    BY DEF Init, IsRecorded
<1>3. Pipeline /\ Standing
    BY DEF Init, Pipeline, Piped, Standing, Working
<1>4. Schedule
    BY <1>2, BuildAssumption DEF Init, Schedule, Working, Integrating
<1>5. Settled
    BY <1>2 DEF Init, Settled
<1>6. MainSound /\ BuiltOnEarlierWaves
    BY DEF Init, MainSound, BuiltOnEarlierWaves
<1>7. InterventionPerEscalation
    <2>1. {t \in Tickets : status[t] = "escalated"} = {}
        BY DEF Init
    <2> QED BY <2>1, FS_EmptySet DEF Init, InterventionPerEscalation
<1> QED BY <1>1, <1>3, <1>4, <1>5, <1>6, <1>7 DEF IInv

LEMMA WorkKeeps ==
    ASSUME IInv, NEW t \in Tickets, Work(t)
    PROVE  IInv'
<1>1. CASE Open(t) \/ OpenFails(t)
    BY <1>1, OpenKeeps, OpenFailsKeeps
<1>2. CASE Dev(t) \/ Unit(t) \/ Security(t) \/ Review(t) \/ QA(t) \/ Accept(t)
    <2>1. TypeOK /\ Pipeline /\ Standing /\ Progress
        BY DEF IInv, Progress
    <2>2. TypeOK' /\ Pipeline' /\ WorkerMove(t)
        BY <1>2, <2>1, DevMoves, UnitMoves, SecurityMoves, ReviewMoves, QAMoves, AcceptMoves
    <2>3. Progress'
        BY <2>1, <2>2, WorkerProgress
    <2> QED BY <2>2, <2>3 DEF IInv, Progress
<1> QED BY <1>1, <1>2 DEF Work

LEMMA StutterKeeps == IInv /\ UNCHANGED vars => IInv'
<1> SUFFICES ASSUME IInv, UNCHANGED vars PROVE IInv'
    OBVIOUS
<1> USE DEF IInv, vars, worker, repo, control
<1>1. TypeOK' /\ Pipeline' /\ Standing'
    BY DEF TypeOK, Pipeline, Standing
<1>2. \A u \in Tickets : (IsRecorded(u)' <=> IsRecorded(u)) /\ (IsTurn(u)' <=> IsTurn(u))
    BY SameTurn
<1>3. Schedule' /\ Settled' /\ MainSound'
    <2>1. main \subseteq Tickets
        BY DEF TypeOK
    <2> QED BY <1>2, <2>1 DEF Schedule, Settled, MainSound
<1>4. BuiltOnEarlierWaves' /\ InterventionPerEscalation'
    BY DEF BuiltOnEarlierWaves, InterventionPerEscalation
<1> QED BY <1>1, <1>3, <1>4

LEMMA StepKeepsIInv == IInv /\ [Next]_vars => IInv'
<1> SUFFICES ASSUME IInv, [Next]_vars PROVE IInv'
    OBVIOUS
<1>1. CASE UNCHANGED vars
    BY <1>1, StutterKeeps
<1>2. ASSUME NEW t \in Tickets, Work(t) PROVE IInv'
    BY <1>2, WorkKeeps
<1>3. ASSUME NEW t \in Tickets, Integrate(t) PROVE IInv'
    <2>1. Integrated(t) \/ MergeConflict(t) \/ ResolutionCommitted(t)
        BY <1>3, IntegrationEnds DEF Integrate
    <2> QED BY <2>1, IntegratedKeeps, ConflictKeeps, CommittedKeeps
<1>4. ASSUME NEW t \in Tickets, IntegrationFails(t) PROVE IInv'
    BY <1>4, FailureStops, StoppedKeeps
<1> QED BY <1>1, <1>2, <1>3, <1>4, JoinKeeps, NextWaveKeeps, LeaveKeeps DEF Next, Lead

\* The invariant of the build stage, for any number of tickets and waves.
THEOREM TicketInvariant == Spec => []IInv
BY InitIInv, StepKeepsIInv, PTL DEF Spec

\* Every variable of the build keeps its type.
THEOREM TicketTypeOK == Spec => []TypeOK
<1>1. IInv => TypeOK
    BY DEF IInv
<1> QED BY <1>1, TicketInvariant, PTL

\* Whatever reaches main through a merged PR went, in its last attempt, through
\* every check the configuration enables, and what was committed on the branch
\* holds that attempt: no retry of _run_ticket passes on the strength of an
\* earlier attempt's results.
THEOREM TicketMergedWasChecked == Spec => []MergedWasChecked
<1>1. IInv => MergedWasChecked
    <2> SUFFICES ASSUME IInv, NEW t \in Tickets, pr[t] = "merged"
                 PROVE  /\ attempt[t] \in branch[t]
                        /\ \A g \in EnabledGates : cleared[t][g] = attempt[t]
        BY DEF MergedWasChecked
    <2>1. status[t] = "passed"
        BY DEF IInv, Settled
    <2> QED BY <2>1 DEF IInv, Pipeline, Piped
<1> QED BY <1>1, TicketInvariant, PTL

\* Every ticket is built on top of all that the earlier waves brought to main and
\* of nothing of its own wave, and main stays put while a wave is being built.
THEOREM TicketBuiltOnEarlierWaves == Spec => []BuiltOnEarlierWaves
<1>1. IInv => BuiltOnEarlierWaves
    BY DEF IInv
<1> QED BY <1>1, TicketInvariant, PTL

\* The intervention counter, which worker threads and the lead thread both
\* increase, is the number of escalated tickets.
THEOREM TicketInterventions == Spec => []InterventionPerEscalation
<1>1. IInv => InterventionPerEscalation
    BY DEF IInv
<1> QED BY <1>1, TicketInvariant, PTL

\* A result list without repetition that names every ticket has one entry each.
LEMMA OneEntryEach ==
    ASSUME TypeOK, Settled, \A t \in Tickets : IsRecorded(t)
    PROVE  Len(recorded) = NumTickets
<1>1. recorded \in Seq(Tickets) /\ Len(recorded) \in Nat
    BY DEF TypeOK
<1>2. recorded \in [1..Len(recorded) -> Tickets]
    BY <1>1
<1>3. recorded \in Bijection(1..Len(recorded), Tickets)
    BY <1>2 DEF Settled, IsRecorded, Bijection, Injection, Surjection, IsInjective
<1>4. \A n \in Nat : IsFiniteSet(1..n) /\ Cardinality(1..n) = n
    <2> TAKE n \in Nat
    <2>1. Cardinality(1..n) = IF 1 > n THEN 0 ELSE n - 1 + 1
        BY FS_Interval
    <2> QED BY <2>1, FS_Interval
<1>5. Cardinality(1..Len(recorded)) = Cardinality(Tickets)
    BY <1>1, <1>3, <1>4, FS_Bijection, BuildAssumption DEF ExistsBijection, Tickets
<1> QED BY <1>1, <1>4, <1>5, BuildAssumption DEF Tickets

\* Whether _build_tickets returns or an error leaves it anywhere, a ticket in the
\* result has no worktree and its PR is merged or closed as its status says; of
\* the others only the one in hand may be on main or have a settled PR.  When it
\* returns, every ticket is in the result once and no merge is open.
THEOREM TicketSettledOrInHand == Spec => []SettledOrInHand
<1>1. IInv => SettledOrInHand
    <2> SUFFICES ASSUME IInv PROVE SettledOrInHand
        OBVIOUS
    <2>1. ASSUME NEW t \in Tickets, IsRecorded(t)
          PROVE  ~ worktree[t] /\ pr[t] = (IF status[t] = "passed" THEN "merged" ELSE "closed")
        BY <2>1 DEF IInv, Settled
    <2>2. ASSUME NEW t \in Tickets, ~ IsRecorded(t), t \in main \/ pr[t] \in {"merged", "closed"}
          PROVE  IsTurn(t)
        BY <2>2 DEF IInv, Settled, MainSound
    <2>3. ASSUME lead = "done"
          PROVE  Len(recorded) = NumTickets /\ (\A t \in Tickets : IsRecorded(t)) /\ ~ merging
        <3>1. \A t \in Tickets : WaveOf[t] < wave
            BY <2>3, BuildAssumption DEF IInv, Schedule
        <3>2. \A t \in Tickets : IsRecorded(t)
            BY <3>1 DEF IInv, Schedule
        <3>3. Len(recorded) = NumTickets
            BY <3>2, OneEntryEach DEF IInv
        <3> QED BY <2>3, <3>2, <3>3 DEF IInv, Schedule
    <2> QED BY <2>1, <2>2, <2>3 DEF SettledOrInHand
<1> QED BY <1>1, TicketInvariant, PTL

\* No step takes a ticket off main or moves a settled PR, and only a ticket
\* that passed has its PR merged.
THEOREM TicketSettledForGood == Spec => SettledForGood
<1> DEFINE Kept == /\ main \subseteq main'
                   /\ \A t \in Tickets :
                        /\ pr[t] \in {"merged", "closed"} => pr'[t] = pr[t]
                        /\ pr'[t] = "merged" => status'[t] = "passed"
<1>1. IInv /\ IInv' /\ [Next]_vars => [Kept]_vars
    <2> SUFFICES ASSUME IInv, IInv', Next PROVE Kept
        OBVIOUS
    <2>1. \A t \in Tickets : pr'[t] = "merged" => status'[t] = "passed"
        <3>1. IInv'
            OBVIOUS
        <3> QED BY <3>1 DEF IInv, Settled
    <2> DEFINE Held == /\ main \subseteq main'
                       /\ \A u \in Tickets : pr[u] \in {"merged", "closed"} => pr'[u] = pr[u]
    <2>2. Held
        <3>1. ASSUME NEW t \in Tickets, Open(t) \/ OpenFails(t) PROVE Held
            BY <3>1 DEF Open, OpenFails, IInv, Standing, TypeOK
        <3>2. ASSUME NEW t \in Tickets,
                     Dev(t) \/ Unit(t) \/ Security(t) \/ Review(t) \/ QA(t) \/ Accept(t)
              PROVE Held
            BY <3>2 DEF Dev, Unit, Security, Review, QA, Accept, repo
        <3>3. ASSUME NEW t \in Tickets, Integrate(t) PROVE Held
            <4>1. CASE Integrated(t)
                <5>1. pr[t] \notin {"merged", "closed"}
                    BY <4>1 DEF Integrated, Integrating, IsTurn, IInv, Settled
                <5> QED BY <4>1, <5>1 DEF Integrated, IInv, TypeOK
            <4>2. CASE MergeConflict(t) \/ ResolutionCommitted(t)
                BY <4>2 DEF MergeConflict, ResolutionCommitted, CompleteMerge
            <4> QED BY <3>3, <4>1, <4>2, IntegrationEnds DEF Integrate
        <3>4. ASSUME NEW t \in Tickets, IntegrationFails(t) PROVE Held
            <4>1. Stopped(t)
                BY <3>4, FailureStops
            <4>2. pr[t] \notin {"merged", "closed"}
                BY <4>1 DEF Stopped, Integrating, IsTurn, IInv, Settled
            <4> QED BY <4>1, <4>2 DEF Stopped, IInv, TypeOK
        <3>5. CASE Join \/ NextWave \/ WaveFails \/ ResolutionFails
            BY <3>5 DEF Join, NextWave, WaveFails, ResolutionFails, repo
        <3> QED BY <3>1, <3>2, <3>3, <3>4, <3>5 DEF Next, Lead, Work
    <2> QED BY <2>1, <2>2
<1> QED BY <1>1, TicketInvariant, PTL DEF Spec, SettledForGood

-----------------------------------------------------------------------------
(* The build, seen from its caller, is that of a single thread             *)

\* An error has a cause, nothing has ended while a thread is at work, and a
\* conflict is resolved for a ticket that is not recorded yet.
Ending ==
    /\ \A t \in Tickets : pc[t] = "raised" => error[t] # "none"
    /\ lead \in Integrating \cup {"build"} => outcome = "none"
    /\ lead = "resolve" => \E t \in Tickets : ~ IsRecorded(t)

LEMMA InitEnding == Init => Ending
BY DEF Init, Ending, Integrating

LEMMA SameRecords ==
    ASSUME UNCHANGED recorded
    PROVE  \A t : IsRecorded(t)' <=> IsRecorded(t)
BY DEF IsRecorded

LEMMA WorkEnding ==
    ASSUME IInv, Ending, NEW t \in Tickets, Work(t)
    PROVE  Ending'
<1>1. /\ lead = "build" /\ UNCHANGED <<lead, outcome, recorded>>
    <2>1. CASE Open(t) \/ OpenFails(t)
        BY <2>1 DEF Open, OpenFails, control
    <2>2. CASE Dev(t) \/ Unit(t) \/ Security(t) \/ Review(t) \/ QA(t) \/ Accept(t)
        <3>1. pc[t] \in Working
            BY <2>2 DEF Dev, Unit, Security, Review, QA, Accept, Working
        <3> QED BY <2>2, <3>1 DEF IInv, Schedule, Dev, Unit, Security, Review, QA, Accept, control
    <2> QED BY <2>1, <2>2 DEF Work
<1>2. ASSUME NEW u \in Tickets, pc'[u] = "raised"
      PROVE  error'[u] # "none"
    <2>1. CASE UNCHANGED error /\ pc'[u] # "raised"
        BY <1>2, <2>1
    <2>2. CASE UNCHANGED error /\ pc'[u] = pc[u]
        BY <1>2, <2>2 DEF Ending
    <2>3. CASE \E e \in WorkerErrors : Raise(t, e)
        BY <1>2, <2>3 DEF Raise, Goto, Ending, IInv, TypeOK, WorkerErrors
    <2>4. CASE Escalate(t) \/ Burn(t)
        BY <1>2, <2>4 DEF Escalate, Burn, Goto, Ending, IInv, TypeOK
    <2>5. CASE \E g \in Gates : \E step \in Working : Clear(t, g, step)
        BY <1>2, <2>5 DEF Clear, Goto, Ending, IInv, TypeOK, Working
    <2>6. CASE \E step \in Working \cup {"built"} : Goto(t, step) /\ UNCHANGED error
        BY <1>2, <2>6 DEF Goto, Ending, IInv, TypeOK, Working
    <2>7. \A step : Clear(t, "unit", step) \/ Clear(t, "security", step) \/ Clear(t, "review", step)
                     => Goto(t, step) /\ UNCHANGED error
        BY DEF Clear
    <2>8. {AfterUnit, AfterSecurity, AfterReview, "dev", "unit", "accept"} \subseteq Working
        BY DEF AfterUnit, AfterSecurity, AfterReview, Working
    <2>9. "failure" \in WorkerErrors
        BY DEF WorkerErrors
    <2> QED BY <2>3, <2>4, <2>6, <2>7, <2>8, <2>9
            DEF Work, Open, OpenFails, Dev, Unit, Security, Review, QA, Accept, AgentFails
<1>3. Ending'
    BY <1>1, <1>2 DEF Ending, Integrating
<1> QED BY <1>3

LEMMA LeadEnding ==
    ASSUME IInv, Ending, Lead
    PROVE  Ending'
<1>1. UNCHANGED <<pc, error>>
    <2>1. ASSUME NEW t \in Tickets, Integrate(t) PROVE UNCHANGED <<pc, error>>
        BY <2>1 DEF Integrate, IntegrateEscalated, MergeClean, MergeConflict, ResolutionRejected,
                    ResolutionCommitted, VerifyGreen, VerifyRed, Unresolved, worker
    <2>2. ASSUME NEW t \in Tickets, IntegrationFails(t) PROVE UNCHANGED <<pc, error>>
        BY <2>2, FailureStops DEF Stopped
    <2> QED BY <2>1, <2>2 DEF Lead, Join, NextWave, WaveFails, ResolutionFails, Leave, worker
<1>2. ASSUME NEW t \in Tickets, IntegrationFails(t) PROVE lead' = "aborted"
    BY <1>2, FailureStops DEF Stopped
<1>3. lead' \in Integrating \cup {"build"} => outcome' = "none"
    <2>1. ASSUME NEW t \in Tickets, Integrate(t) PROVE outcome' = "none"
        <3>1. UNCHANGED outcome /\ lead \in Integrating
            BY <2>1 DEF Integrate, IntegrateEscalated, MergeClean, MergeConflict,
                        ResolutionRejected, ResolutionCommitted, VerifyGreen, VerifyRed,
                        Unresolved, Settle, Integrating
        <3> QED BY <3>1 DEF Ending
    <2>2. CASE Join \/ NextWave \/ WaveFails \/ ResolutionFails
        BY <2>2 DEF Join, NextWave, WaveFails, ResolutionFails, Leave, Ending, Integrating
    <2> QED BY <1>2, <2>1, <2>2 DEF Lead, Integrating
<1>4. lead' = "resolve" => \E t \in Tickets : ~ IsRecorded(t)'
    <2> SUFFICES ASSUME lead' = "resolve" PROVE \E t \in Tickets : ~ IsRecorded(t)'
        OBVIOUS
    <2>1. PICK t \in Tickets : MergeConflict(t)
        <3>1. ASSUME NEW t \in Tickets, Integrate(t) PROVE MergeConflict(t)
            BY <3>1 DEF Integrate, IntegrateEscalated, MergeClean, ResolutionRejected,
                        ResolutionCommitted, VerifyGreen, VerifyRed, Unresolved, Settle
        <3> QED BY <1>2, <3>1 DEF Lead, Join, NextWave, WaveFails, ResolutionFails, Leave
    <2>2. ~ IsRecorded(t) /\ UNCHANGED recorded
        BY <2>1 DEF MergeConflict, IsTurn
    <2> QED BY <2>2, SameRecords
<1> QED BY <1>1, <1>3, <1>4 DEF Ending

LEMMA StepKeepsEnding == IInv /\ Ending /\ [Next]_vars => Ending'
<1>1. IInv /\ Ending /\ Next => Ending'
    BY WorkEnding, LeadEnding DEF Next
<1>2. Ending /\ UNCHANGED vars => Ending'
    <2> SUFFICES ASSUME Ending, UNCHANGED vars PROVE Ending'
        OBVIOUS
    <2>1. \A t : IsRecorded(t)' <=> IsRecorded(t)
        BY SameRecords DEF vars, control
    <2> QED BY <2>1 DEF Ending, vars, worker, control
<1> QED BY <1>1, <1>2

\* The result a caller sees, and which tickets are in it.
Conclusions == [ticket : Tickets, status : {"building", "passed", "escalated"},
                pr : {"none", "open", "merged", "closed"}]

LEMMA ResultIs ==
    ASSUME TypeOK
    PROVE  /\ Result \in Seq(Conclusions)
           /\ Len(Result) = Len(recorded)
           /\ \A t : Sequential!Concluded(t) <=> IsRecorded(t)
<1>1. recorded \in Seq(Tickets) /\ Len(recorded) \in Nat
    BY DEF TypeOK
<1>2. \A i \in 1..Len(recorded) :
        /\ recorded[i] \in Tickets
        /\ status[recorded[i]] \in {"building", "passed", "escalated"}
        /\ pr[recorded[i]] \in {"none", "open", "merged", "closed"}
    BY <1>1 DEF TypeOK
<1>3. Result \in Seq(Conclusions)
    BY <1>1, <1>2 DEF Result, Conclusions
<1>4. Len(Result) = Len(recorded) /\ \A i \in 1..Len(recorded) : Result[i].ticket = recorded[i]
    BY <1>1 DEF Result
<1> QED BY <1>3, <1>4 DEF Sequential!Concluded, IsRecorded

\* Where no ticket is added and no recorded one changes, the caller sees nothing.
LEMMA SameResult ==
    ASSUME UNCHANGED recorded, TypeOK,
           \A t \in Tickets : IsRecorded(t) => status'[t] = status[t] /\ pr'[t] = pr[t]
    PROVE  Result' = Result
<1>1. \A i \in 1..Len(recorded) : recorded[i] \in Tickets /\ IsRecorded(recorded[i])
    BY DEF TypeOK, IsRecorded
<1> QED BY <1>1 DEF Result

LEMMA WorkUnseen ==
    ASSUME IInv, NEW t \in Tickets, Work(t)
    PROVE  UNCHANGED <<Result, outcome>>
<1>1. /\ UNCHANGED <<recorded, outcome>>
      /\ \A u \in Tickets \ {t} : status'[u] = status[u] /\ pr'[u] = pr[u]
    <2>1. CASE Open(t) \/ OpenFails(t)
        BY <2>1 DEF Open, OpenFails, Raise, control, IInv, TypeOK
    <2>2. CASE Dev(t) \/ Unit(t) \/ Security(t) \/ Review(t) \/ QA(t) \/ Accept(t)
        <3>1. WorkerMove(t)
            BY <2>2, DevMoves, UnitMoves, SecurityMoves, ReviewMoves, QAMoves, AcceptMoves DEF IInv
        <3> QED BY <3>1 DEF WorkerMove, control, repo
    <2> QED BY <2>1, <2>2 DEF Work
<1>2. ~ IsRecorded(t)
    <2>1. pc[t] \in Working \cup {"waiting"}
        BY DEF Work, Open, OpenFails, Dev, Unit, Security, Review, QA, Accept, Working
    <2> QED BY <2>1 DEF IInv, Schedule, Working
<1> QED BY <1>1, <1>2, SameResult DEF IInv

\* An integrated ticket is the first of the open ones.
LEMMA IntegratedConcludes ==
    ASSUME IInv, Ending, NEW t \in Tickets, Integrated(t)
    PROVE  \E s \in {"passed", "escalated"} : Sequential!Conclude(t, s)
<1>1. /\ lead \in Integrating /\ IsTurn(t) /\ UNCHANGED outcome
      /\ recorded' = Append(recorded, t) /\ pc[t] = "built"
    BY DEF Integrated, IInv, Schedule, IsTurn, InWave
<1>2. outcome = "none"
    BY <1>1 DEF Ending
<1>3. \A u \in Tickets : Sequential!Concluded(u) <=> IsRecorded(u)
    BY ResultIs DEF IInv
<1>4. t \in Sequential!Open
    BY <1>1, <1>3 DEF IsTurn, Sequential!Open, Sequential!Tickets, Tickets
<1>5. ASSUME NEW u \in Sequential!Open
      PROVE  ~ Sequential!Precedes(u, t)
    <2>1. u \in Tickets /\ ~ IsRecorded(u)
        BY <1>3 DEF Sequential!Open, Sequential!Tickets, Tickets
    <2>2. ~ (WaveOf[u] < WaveOf[t])
        BY <1>1, <2>1 DEF IInv, Schedule, IsTurn, InWave
    <2>3. WaveOf[u] = WaveOf[t] => ~ (u < t)
        BY <1>1, <2>1 DEF IsTurn, InWave
    <2> QED BY <2>2, <2>3 DEF Sequential!Precedes
<1>6. /\ status'[t] \in {"passed", "escalated"}
      /\ pr'[t] = IF status'[t] = "passed" THEN "merged" ELSE "closed"
    <2>1. IInv'
        BY IntegratedKeeps
    <2>2. pc'[t] = "built"
        BY <1>1 DEF Integrated
    <2>3. IsRecorded(t)'
        BY AppendRecords, <1>1 DEF IInv
    <2> QED BY <2>1, <2>2, <2>3 DEF IInv, Standing, Settled
<1>7. Result' = Append(Result, [ticket |-> t, status |-> status'[t], pr |-> pr'[t]])
    <2>1. recorded \in Seq(Tickets) /\ Len(recorded) \in Nat
        BY DEF IInv, TypeOK
    <2>2. /\ Len(recorded') = Len(recorded) + 1
          /\ \A i \in 1..Len(recorded) : recorded'[i] = recorded[i]
          /\ recorded'[Len(recorded) + 1] = t
        BY <1>1, <2>1
    <2>3. \A i \in 1..Len(recorded) : /\ status'[recorded[i]] = status[recorded[i]]
                                     /\ pr'[recorded[i]] = pr[recorded[i]]
        <3>1. \A u \in Tickets \ {t} : status'[u] = status[u] /\ pr'[u] = pr[u]
            BY DEF Integrated, IInv, TypeOK
        <3>2. \A i \in 1..Len(recorded) : recorded[i] \in Tickets /\ recorded[i] # t
            BY <1>1, <2>1 DEF IsTurn, IsRecorded
        <3> QED BY <3>1, <3>2
    <2>4. Result' = [i \in 1..Len(recorded) + 1 |->
                        IF i \in 1..Len(recorded)
                        THEN [ticket |-> recorded[i], status |-> status[recorded[i]],
                              pr |-> pr[recorded[i]]]
                        ELSE [ticket |-> t, status |-> status'[t], pr |-> pr'[t]]]
        <3>1. \A i \in 1..Len(recorded) + 1 : i \in 1..Len(recorded) \/ i = Len(recorded) + 1
            BY <2>1
        <3> QED BY <2>2, <2>3, <3>1 DEF Result
    <2>5. /\ Result = [i \in 1..Len(recorded) |->
                          [ticket |-> recorded[i], status |-> status[recorded[i]],
                           pr |-> pr[recorded[i]]]]
          /\ Result \in Seq(Conclusions)
          /\ Len(Result) = Len(recorded)
        BY ResultIs DEF Result, IInv
    <2> DEFINE e == [ticket |-> t, status |-> status'[t], pr |-> pr'[t]]
    <2>6. Append(Result, e) = [i \in 1..Len(recorded) + 1 |->
                                IF i \in 1..Len(recorded) THEN Result[i] ELSE e]
        <3>1. Append(Result, e) = [i \in 1..Len(Result) + 1 |->
                                    IF i = Len(Result) + 1 THEN e ELSE Result[i]]
            OBVIOUS
        <3>2. \A i \in 1..Len(recorded) + 1 : i \in 1..Len(recorded) <=> i # Len(recorded) + 1
            BY <2>1
        <3> HIDE DEF e
        <3> QED BY <2>5, <3>1, <3>2
    <2>7. \A i \in 1..Len(recorded) :
            Result[i] = [ticket |-> recorded[i], status |-> status[recorded[i]],
                         pr |-> pr[recorded[i]]]
        BY <2>5
    <2> QED BY <2>4, <2>6, <2>7
<1> QED BY <1>1, <1>2, <1>4, <1>5, <1>6, <1>7 DEF Sequential!Conclude

\* The build ends for its caller as it does inside.
LEMMA JoinIsSeen ==
    ASSUME IInv, Ending, Join
    PROVE  Sequential!WorkerFails \/ UNCHANGED <<Result, outcome>>
<1>1. UNCHANGED <<recorded, status, pr>> /\ outcome = "none" /\ lead = "build"
    BY DEF Join, worker, repo, Ending
<1>2. Result' = Result
    BY <1>1, SameResult DEF IInv
<1>3. CASE UNCHANGED outcome
    BY <1>2, <1>3
<1>4. ASSUME NEW t \in InWave, pc[t] = "raised", outcome' = error[t]
      PROVE  Sequential!WorkerFails
    <2>1. \A u \in Tickets : u \in Sequential!Open <=> ~ IsRecorded(u)
        BY ResultIs DEF IInv, Sequential!Open, Sequential!Tickets, Tickets
    <2>2. t \in Tickets /\ t \in Sequential!Open
        BY <1>4, <2>1 DEF InWave, IInv, Schedule
    <2>3. Sequential!BetweenWaves
        BY <1>1, <2>1 DEF Sequential!BetweenWaves, Sequential!Tickets, Tickets, IInv, Schedule
    <2>4. error[t] \in {"AgentOutputError", "NameError", "failure"}
        BY <1>4, <2>2 DEF Ending, IInv, TypeOK, WorkerErrors
    <2>5. Sequential!End(error[t])
        BY <1>1, <1>2, <1>4 DEF Sequential!End
    <2> QED BY <2>2, <2>3, <2>4, <2>5 DEF Sequential!WorkerFails
<1> QED BY <1>3, <1>4 DEF Join

LEMMA NextWaveIsSeen ==
    ASSUME IInv, Ending, NextWave
    PROVE  Sequential!Complete \/ UNCHANGED <<Result, outcome>>
<1>1. UNCHANGED <<recorded, status, pr>> /\ outcome = "none" /\ lead = "integrate"
    BY DEF NextWave, worker, repo, Ending, Integrating
<1>2. Result' = Result
    BY <1>1, SameResult DEF IInv
<1>3. CASE UNCHANGED outcome
    BY <1>2, <1>3
<1>4. CASE wave = NumWaves /\ outcome' = "complete"
    <2>1. ASSUME NEW u \in Tickets PROVE IsRecorded(u)
        <3>1. WaveOf[u] = wave \/ WaveOf[u] < wave
            BY <1>4, BuildAssumption
        <3> QED BY <3>1 DEF NextWave, InWave, IInv, Schedule
    <2>2. Sequential!Open = {}
        BY <2>1, ResultIs DEF IInv, Sequential!Open, Sequential!Tickets, Tickets
    <2> QED BY <1>1, <1>2, <1>4, <2>2 DEF Sequential!Complete, Sequential!End
<1> QED BY <1>3, <1>4 DEF NextWave

LEMMA LeaveIsSeen ==
    ASSUME IInv, Ending, WaveFails \/ ResolutionFails
    PROVE  Sequential!IntegrationFails
<1>1. /\ UNCHANGED <<recorded, status, pr>> /\ outcome = "none" /\ outcome' = "failure"
    BY DEF WaveFails, ResolutionFails, Leave, Ending, Integrating
<1>2. Result' = Result
    BY <1>1, SameResult DEF IInv
<1>3. \E t \in Tickets : ~ IsRecorded(t)
    BY DEF WaveFails, ResolutionFails, InWave, Ending, IInv, Schedule
<1>4. Sequential!Open # {}
    BY <1>3, ResultIs DEF IInv, Sequential!Open, Sequential!Tickets, Tickets
<1> QED BY <1>1, <1>2, <1>4 DEF Sequential!IntegrationFails, Sequential!End

LEMMA StopIsSeen ==
    ASSUME IInv, Ending, NEW t \in Tickets, Stopped(t)
    PROVE  Sequential!IntegrationFails
<1>1. /\ UNCHANGED <<recorded, status>> /\ outcome = "none" /\ outcome' = "failure"
      /\ ~ IsRecorded(t) /\ \A u \in Tickets \ {t} : pr'[u] = pr[u]
    BY DEF Stopped, IsTurn, Ending, IInv, TypeOK
<1>2. Result' = Result
    BY <1>1, SameResult DEF IInv
<1>3. Sequential!Open # {}
    BY <1>1, ResultIs DEF IInv, Sequential!Open, Sequential!Tickets, Tickets
<1> QED BY <1>1, <1>2, <1>3 DEF Sequential!IntegrationFails, Sequential!End

\* However its worker threads take turns, the build is one a single thread could
\* have done: _build_tickets concludes the tickets wave by wave in the order of
\* their derivation.  An exception of a worker leaves its caller whole waves; one
\* of an integration (git, the sandbox, the agents' API, the store, the publisher)
\* leaves the tickets concluded before the one it was at, and no others.
THEOREM TicketImplementsSequential == Spec => ImplementsSequentialBuild
<1>1. Init => Sequential!Init
    <2> SUFFICES ASSUME Init PROVE Sequential!Init
        OBVIOUS
    <2>1. recorded = <<>> /\ Len(recorded) = 0 /\ outcome = "none"
        BY DEF Init
    <2>2. Result = <<>>
        BY <2>1 DEF Result
    <2> QED BY <2>1, <2>2 DEF Sequential!Init
<1>2. IInv /\ Ending /\ [Next]_vars => [Sequential!Next]_<<Result, outcome>>
    <2> SUFFICES ASSUME IInv, Ending, [Next]_vars
                 PROVE  Sequential!Next \/ UNCHANGED <<Result, outcome>>
        OBVIOUS
    <2>1. CASE UNCHANGED vars
        BY <2>1 DEF vars, worker, repo, control, Result
    <2>2. ASSUME NEW t \in Tickets, Work(t) PROVE UNCHANGED <<Result, outcome>>
        BY <2>2, WorkUnseen
    <2>3. ASSUME NEW t \in Tickets, Integrate(t)
          PROVE  Sequential!Next \/ UNCHANGED <<Result, outcome>>
        <3>1. CASE Integrated(t)
            <4>1. t \in Sequential!Tickets
                BY DEF Sequential!Tickets, Tickets
            <4> QED BY <3>1, <4>1, IntegratedConcludes DEF Sequential!Next
        <3>2. CASE MergeConflict(t) \/ ResolutionCommitted(t)
            <4>1. UNCHANGED <<recorded, status, pr, outcome>>
                BY <3>2 DEF MergeConflict, ResolutionCommitted, worker
            <4> QED BY <4>1, SameResult DEF IInv
        <3> QED BY <2>3, <3>1, <3>2, IntegrationEnds DEF Integrate
    <2>4. CASE Join \/ NextWave \/ WaveFails \/ ResolutionFails
        BY <2>4, JoinIsSeen, NextWaveIsSeen, LeaveIsSeen DEF Sequential!Next
    <2>5. ASSUME NEW t \in Tickets, IntegrationFails(t) PROVE Sequential!Next
        BY <2>5, FailureStops, StopIsSeen DEF Sequential!Next
    <2> QED BY <2>1, <2>2, <2>3, <2>4, <2>5 DEF Next, Lead
<1>3. Spec => []Ending
    BY InitEnding, StepKeepsEnding, TicketInvariant, PTL DEF Spec
<1> QED BY <1>1, <1>2, <1>3, TicketInvariant, PTL
        DEF Spec, ImplementsSequentialBuild, Sequential!Spec, Sequential!vars

-----------------------------------------------------------------------------
(* The build comes to an end                                               *)

\* How many steps of an attempt are left at most.
StepsAhead == [dev |-> 6, unit |-> 5, security |-> 4, review |-> 3, qa |-> 2, accept |-> 1]

\* A bound on the steps t's worker has left.
WorkLeft(t) ==
    CASE pc[t] = "waiting" -> MaxRetries * 6 + 1
      [] pc[t] \in Working -> (MaxRetries - attempt[t]) * 6 + StepsAhead[pc[t]]
      [] OTHER -> 0

LeadAhead == [build |-> 3, integrate |-> 2, resolve |-> 1, verify |-> 0]

\* A bound on the steps the lead thread has left.
LeadLeft ==
    IF lead \in {"done", "aborted"} THEN 0
    ELSE (NumWaves + 1 - wave) * 2 + (NumTickets - Len(recorded)) * 3 + LeadAhead[lead]

\* What a step of t's worker does to it: it ends, starts the next attempt, or
\* goes on in the one it is in.
WorkerAdvance(t) ==
    /\ \A u \in Tickets \ {t} : pc'[u] = pc[u] /\ attempt'[u] = attempt[u]
    /\ \/ pc'[t] \in {"built", "raised"}
       \/ /\ pc'[t] = "dev" /\ attempt'[t] = attempt[t] + 1
       \/ /\ pc'[t] \in Working /\ attempt'[t] = attempt[t]
          /\ StepsAhead[pc'[t]] < StepsAhead[pc[t]]

LEMMA FailureAdvances ==
    ASSUME TypeOK, NEW t \in Tickets,
           AgentFails(t) \/ \E e \in WorkerErrors : Raise(t, e)
    PROVE  WorkerAdvance(t)
<1>1. CASE Escalate(t)
    BY <1>1 DEF Escalate, Goto, TypeOK, WorkerAdvance
<1>2. CASE \E e \in {"failure"} \cup WorkerErrors : Raise(t, e)
    BY <1>2 DEF Raise, Goto, TypeOK, WorkerAdvance
<1>3. CASE Burn(t)
    BY <1>1, <1>3 DEF Burn, Goto, TypeOK, WorkerAdvance
<1> QED BY <1>1, <1>2, <1>3 DEF AgentFails

LEMMA GoesOn ==
    ASSUME TypeOK, NEW t \in Tickets, pc[t] \in Working, NEW step \in Working,
           Goto(t, step), UNCHANGED attempt, StepsAhead[step] < StepsAhead[pc[t]]
    PROVE  WorkerAdvance(t)
BY DEF Goto, TypeOK, WorkerAdvance

LEMMA WorkAdvances ==
    ASSUME TypeOK, NEW t \in Tickets,
           Dev(t) \/ Unit(t) \/ Security(t) \/ Review(t) \/ QA(t) \/ Accept(t)
    PROVE  pc[t] \in Working /\ WorkerAdvance(t) /\ UNCHANGED control
<1>1. pc[t] \in Working /\ UNCHANGED control
    BY DEF Dev, Unit, Security, Review, QA, Accept, Working
<1>2. /\ AfterUnit \in Working /\ AfterSecurity \in Working /\ AfterReview \in Working
      /\ StepsAhead[AfterUnit] < 5 /\ StepsAhead[AfterSecurity] < 4
      /\ StepsAhead[AfterReview] < 3
    BY DEF AfterUnit, AfterSecurity, AfterReview, Working, StepsAhead
<1>3. StepsAhead["dev"] = 6 /\ StepsAhead["unit"] = 5 /\ StepsAhead["security"] = 4
      /\ StepsAhead["review"] = 3 /\ StepsAhead["qa"] = 2 /\ StepsAhead["accept"] = 1
    BY DEF StepsAhead
<1>4. {"unit", "accept"} \subseteq Working
    BY DEF Working
<1>5. CASE Dev(t)
    <2>1. \/ AgentFails(t)
          \/ pc[t] = "dev" /\ Goto(t, "unit") /\ UNCHANGED attempt
        BY <1>5 DEF Dev
    <2> QED BY <1>1, <1>3, <1>4, <2>1, FailureAdvances, GoesOn
<1>6. CASE Unit(t)
    <2>1. AgentFails(t) \/ (pc[t] = "unit" /\ Goto(t, AfterUnit) /\ UNCHANGED attempt)
        BY <1>6 DEF Unit, Clear, AgentFails
    <2> QED BY <1>1, <1>2, <1>3, <2>1, FailureAdvances, GoesOn
<1>7. CASE Security(t)
    <2>1. \/ AgentFails(t) \/ \E e \in WorkerErrors : Raise(t, e)
          \/ pc[t] = "security" /\ Goto(t, AfterSecurity) /\ UNCHANGED attempt
        BY <1>7 DEF Security, Clear, AgentFails
    <2> QED BY <1>1, <1>2, <1>3, <2>1, FailureAdvances, GoesOn
<1>8. CASE Review(t)
    <2>1. AgentFails(t) \/ (pc[t] = "review" /\ Goto(t, AfterReview) /\ UNCHANGED attempt)
        BY <1>8 DEF Review, Clear
    <2> QED BY <1>1, <1>2, <1>3, <2>1, FailureAdvances, GoesOn
<1>9. CASE QA(t)
    <2>1. AgentFails(t) \/ (pc[t] = "qa" /\ Goto(t, "accept") /\ UNCHANGED attempt)
        BY <1>9 DEF QA
    <2> QED BY <1>1, <1>3, <1>4, <2>1, FailureAdvances, GoesOn
<1>10. CASE Accept(t)
    <2>1. AgentFails(t) \/ (Goto(t, "built") /\ UNCHANGED attempt)
        BY <1>10 DEF Accept, AgentFails
    <2>2. CASE AgentFails(t)
        BY <1>1, <2>2, FailureAdvances
    <2>3. CASE Goto(t, "built") /\ UNCHANGED attempt
        BY <1>1, <2>3 DEF Goto, TypeOK, WorkerAdvance
    <2> QED BY <2>1, <2>2, <2>3
<1> QED BY <1>1, <1>5, <1>6, <1>7, <1>8, <1>9, <1>10

\* No more results than tickets.
LEMMA RecordedBounded ==
    ASSUME TypeOK, Settled
    PROVE  Len(recorded) \in Nat /\ Len(recorded) <= NumTickets
<1>1. recorded \in Seq(Tickets) /\ Len(recorded) \in Nat
    BY DEF TypeOK
<1>2. recorded \in [1..Len(recorded) -> Tickets]
    BY <1>1
<1>3. recorded \in Injection(1..Len(recorded), Tickets)
    BY <1>2 DEF Settled, Injection, IsInjective
<1>4. \A n \in Nat : IsFiniteSet(1..n) /\ Cardinality(1..n) = n
    <2> TAKE n \in Nat
    <2>1. Cardinality(1..n) = IF 1 > n THEN 0 ELSE n - 1 + 1
        BY FS_Interval
    <2> QED BY <2>1, FS_Interval
<1>5. Cardinality(1..Len(recorded)) <= Cardinality(Tickets)
    BY <1>3, <1>4, FS_Injection, BuildAssumption DEF Tickets
<1> QED BY <1>1, <1>4, <1>5, BuildAssumption DEF Tickets

LEMMA LeftNatural ==
    ASSUME IInv
    PROVE  LeadLeft \in Nat /\ \A t \in Tickets : WorkLeft(t) \in Nat
<1>1. NumWaves \in Nat /\ NumTickets \in Nat /\ MaxRetries \in Nat
    BY BuildAssumption
<1>2. LeadLeft \in Nat
    <2>1. NumWaves + 1 - wave \in Nat
        BY <1>1 DEF IInv, TypeOK
    <2>2. NumTickets - Len(recorded) \in Nat
        BY <1>1, RecordedBounded DEF IInv
    <2>3. lead \notin {"done", "aborted"} => LeadAhead[lead] \in Nat
        BY DEF IInv, TypeOK, LeadAhead
    <2> QED BY <2>1, <2>2, <2>3 DEF LeadLeft
<1>3. ASSUME NEW t \in Tickets PROVE WorkLeft(t) \in Nat
    <2>1. MaxRetries - attempt[t] \in Nat
        BY <1>1 DEF IInv, TypeOK
    <2>2. pc[t] \in Working => StepsAhead[pc[t]] \in Nat
        BY DEF Working, StepsAhead
    <2>3. CASE pc[t] = "waiting"
        <3>1. WorkLeft(t) = MaxRetries * 6 + 1
            BY <2>3 DEF WorkLeft, Working
        <3> QED BY <1>1, <3>1
    <2>4. CASE pc[t] \in Working
        <3>1. WorkLeft(t) = (MaxRetries - attempt[t]) * 6 + StepsAhead[pc[t]]
            BY <2>4 DEF WorkLeft, Working
        <3> QED BY <2>1, <2>2, <2>4, <3>1
    <2>5. CASE pc[t] # "waiting" /\ pc[t] \notin Working
        BY <2>5 DEF WorkLeft
    <2> QED BY <2>3, <2>4, <2>5
<1> QED BY <1>2, <1>3

LEMMA SameLeft ==
    /\ \A u : pc'[u] = pc[u] /\ attempt'[u] = attempt[u] => WorkLeft(u)' = WorkLeft(u)
    /\ UNCHANGED control => LeadLeft' = LeadLeft
BY DEF WorkLeft, LeadLeft, control

LEMMA WorkRunsOut ==
    ASSUME IInv, IInv', NEW t \in Tickets, Work(t)
    PROVE  /\ WorkLeft(t)' < WorkLeft(t)
           /\ \A u \in Tickets \ {t} : WorkLeft(u)' = WorkLeft(u)
           /\ LeadLeft' = LeadLeft
<1>1. /\ WorkLeft(t) \in Nat /\ attempt[t] \in 0..MaxRetries
      /\ attempt'[t] \in 0..MaxRetries /\ MaxRetries \in Nat \ {0}
    BY LeftNatural, BuildAssumption DEF IInv, TypeOK
<1>2. CASE Open(t)
    <2>1. /\ pc[t] = "waiting" /\ pc'[t] = "dev" /\ attempt'[t] = 1
          /\ \A u \in Tickets \ {t} : pc'[u] = pc[u] /\ attempt'[u] = attempt[u]
          /\ UNCHANGED control
        BY <1>2 DEF Open, Goto, IInv, TypeOK
    <2>2. WorkLeft(t) = MaxRetries * 6 + 1
        BY <2>1 DEF WorkLeft, Working
    <2>3. WorkLeft(t)' = (MaxRetries - 1) * 6 + 6
        BY <2>1 DEF WorkLeft, Working, StepsAhead
    <2>4. WorkLeft(t)' < WorkLeft(t)
        BY <1>1, <2>2, <2>3
    <2> QED BY <2>1, <2>4, SameLeft
<1>3. CASE OpenFails(t)
    <2>1. /\ pc[t] = "waiting" /\ pc'[t] = "raised" /\ UNCHANGED <<attempt, control>>
          /\ \A u \in Tickets \ {t} : pc'[u] = pc[u]
        BY <1>3 DEF OpenFails, Raise, Goto, IInv, TypeOK
    <2>2. WorkLeft(t) = MaxRetries * 6 + 1 /\ WorkLeft(t)' = 0
        BY <2>1 DEF WorkLeft, Working
    <2>3. WorkLeft(t)' < WorkLeft(t)
        BY <1>1, <2>2
    <2> QED BY <2>1, <2>3, SameLeft
<1>4. CASE Dev(t) \/ Unit(t) \/ Security(t) \/ Review(t) \/ QA(t) \/ Accept(t)
    <2>1. pc[t] \in Working /\ WorkerAdvance(t) /\ UNCHANGED control
        BY <1>4, WorkAdvances DEF IInv
    <2>2. WorkLeft(t) = (MaxRetries - attempt[t]) * 6 + StepsAhead[pc[t]]
          /\ StepsAhead[pc[t]] \in 1..6
        BY <2>1 DEF WorkLeft, Working, StepsAhead
    <2>3. ASSUME pc'[t] \in {"built", "raised"} PROVE WorkLeft(t)' < WorkLeft(t)
        <3>1. WorkLeft(t)' = 0
            BY <2>3 DEF WorkLeft, Working
        <3> QED BY <1>1, <2>2, <3>1
    <2>4. ASSUME pc'[t] = "dev", attempt'[t] = attempt[t] + 1
          PROVE  WorkLeft(t)' < WorkLeft(t)
        <3>1. WorkLeft(t)' = (MaxRetries - (attempt[t] + 1)) * 6 + 6
            BY <2>4 DEF WorkLeft, Working, StepsAhead
        <3> QED BY <1>1, <2>2, <3>1
    <2>5. ASSUME pc'[t] \in Working, attempt'[t] = attempt[t],
                 StepsAhead[pc'[t]] < StepsAhead[pc[t]]
          PROVE  WorkLeft(t)' < WorkLeft(t)
        <3>1. WorkLeft(t)' = (MaxRetries - attempt[t]) * 6 + StepsAhead[pc'[t]]
              /\ StepsAhead[pc'[t]] \in 1..6
            BY <2>5 DEF WorkLeft, Working, StepsAhead
        <3> QED BY <1>1, <2>2, <2>5, <3>1
    <2>6. WorkLeft(t)' < WorkLeft(t)
        BY <2>1, <2>3, <2>4, <2>5 DEF WorkerAdvance
    <2> QED BY <2>1, <2>6, SameLeft DEF WorkerAdvance
<1> QED BY <1>2, <1>4, <1>3 DEF Work

LEMMA LeadRunsOut ==
    ASSUME IInv, IInv', Lead
    PROVE  LeadLeft' < LeadLeft /\ \A t \in Tickets : WorkLeft(t)' = WorkLeft(t)
<1>1. UNCHANGED <<pc, attempt>>
    <2>1. ASSUME NEW t \in Tickets, Integrate(t) PROVE UNCHANGED <<pc, attempt>>
        BY <2>1 DEF Integrate, IntegrateEscalated, MergeClean, MergeConflict, ResolutionRejected,
                    ResolutionCommitted, VerifyGreen, VerifyRed, Unresolved, worker
    <2>2. ASSUME NEW t \in Tickets, IntegrationFails(t) PROVE UNCHANGED <<pc, attempt>>
        BY <2>2, FailureStops DEF Stopped
    <2> QED BY <2>1, <2>2 DEF Lead, Join, NextWave, WaveFails, ResolutionFails, Leave, worker
<1>2. \A t \in Tickets : WorkLeft(t)' = WorkLeft(t)
    BY <1>1 DEF WorkLeft
<1>3. /\ NumWaves \in Nat /\ NumTickets \in Nat /\ wave \in Nat
      /\ Len(recorded) \in Nat /\ Len(recorded) <= NumTickets
    BY BuildAssumption, RecordedBounded DEF IInv, TypeOK
<1>4. LeadAhead["build"] = 3 /\ LeadAhead["integrate"] = 2 /\ LeadAhead["resolve"] = 1
      /\ LeadAhead["verify"] = 0
    BY DEF LeadAhead
<1>5. /\ lead \in Integrating \cup {"build"}
      /\ LeadLeft = (NumWaves + 1 - wave) * 2 + (NumTickets - Len(recorded)) * 3 + LeadAhead[lead]
    <2>1. ASSUME NEW t \in Tickets, Integrate(t) PROVE lead \in Integrating
        BY <2>1 DEF Integrate, IntegrateEscalated, MergeClean, MergeConflict,
                    ResolutionRejected, ResolutionCommitted, VerifyGreen, VerifyRed, Integrating
    <2>2. ASSUME NEW t \in Tickets, IntegrationFails(t) PROVE lead \in Integrating
        BY <2>2, FailureStops DEF Stopped
    <2>3. lead \in Integrating \cup {"build"}
        BY <2>1, <2>2 DEF Lead, Join, NextWave, WaveFails, ResolutionFails, Integrating
    <2> QED BY <2>3 DEF LeadLeft, Integrating
<1>6. wave <= NumWaves
    BY <1>5 DEF IInv, Schedule
<1>7. CASE lead' = "aborted"
    <2>1. LeadLeft' = 0 /\ LeadAhead[lead] \in Nat
        BY <1>4, <1>5, <1>7 DEF LeadLeft, Integrating
    <2> QED BY <1>2, <1>3, <1>5, <1>6, <2>1
<1>8. CASE Join
    <2>1. /\ UNCHANGED <<wave, recorded>>
          /\ lead' = "aborted" \/ (lead = "build" /\ lead' = "integrate")
        BY <1>8 DEF Join
    <2>2. CASE lead = "build" /\ lead' = "integrate"
        <3>1. /\ LeadLeft' = (NumWaves + 1 - wave) * 2 + (NumTickets - Len(recorded)) * 3 + 2
              /\ LeadAhead[lead] = 3
            BY <1>4, <2>1, <2>2 DEF LeadLeft
        <3> QED BY <1>2, <1>3, <1>5, <1>6, <3>1
    <2> QED BY <1>7, <2>1, <2>2
<1>9. CASE NextWave
    <2>1. /\ lead = "integrate" /\ wave' = wave + 1 /\ UNCHANGED recorded
          /\ lead' \in {"build", "done"}
        BY <1>9 DEF NextWave
    <2>2. CASE lead' = "done"
        <3>1. LeadLeft' = 0 /\ LeadAhead[lead] = 2
            BY <1>4, <2>1, <2>2 DEF LeadLeft
        <3> QED BY <1>2, <1>3, <1>5, <1>6, <3>1
    <2>3. CASE lead' = "build"
        <3>1. /\ LeadLeft' = (NumWaves + 1 - (wave + 1)) * 2 + (NumTickets - Len(recorded)) * 3 + 3
              /\ LeadAhead[lead] = 2
            BY <1>4, <2>1, <2>3 DEF LeadLeft
        <3> QED BY <1>2, <1>3, <1>5, <1>6, <3>1
    <2> QED BY <1>2, <2>1, <2>2, <2>3
<1>10. ASSUME NEW t \in Tickets, MergeConflict(t) \/ ResolutionCommitted(t)
      PROVE  LeadLeft' < LeadLeft
    <2>1. /\ UNCHANGED <<wave, recorded>>
          /\ \/ lead = "integrate" /\ lead' = "resolve"
             \/ lead = "resolve" /\ lead' = "verify"
        BY <1>10 DEF MergeConflict, ResolutionCommitted
    <2> QED BY <1>3, <1>4, <1>5, <2>1 DEF LeadLeft
<1>11. ASSUME NEW t \in Tickets, Integrated(t)
       PROVE  LeadLeft' < LeadLeft
    <2>1. /\ lead' = "integrate" /\ wave' = wave /\ recorded' = Append(recorded, t)
        BY <1>11 DEF Integrated
    <2>2. Len(recorded') = Len(recorded) + 1
        <3>1. recorded \in Seq(Tickets)
            BY DEF IInv, TypeOK
        <3> QED BY <2>1, <3>1
    <2>3. LeadLeft' = (NumWaves + 1 - wave) * 2 + (NumTickets - (Len(recorded) + 1)) * 3 + 2
        BY <1>4, <2>1, <2>2 DEF LeadLeft
    <2>4. LeadAhead[lead] \in 0..3
        BY <1>4, <1>5 DEF Integrating
    <2> QED BY <1>3, <1>5, <2>3, <2>4
<1>12. ASSUME NEW t \in Tickets, Integrate(t) PROVE LeadLeft' < LeadLeft
    BY <1>10, <1>11, <1>12, IntegrationEnds DEF Integrate
<1>13. ASSUME NEW t \in Tickets, IntegrationFails(t) PROVE lead' = "aborted"
    BY <1>13, FailureStops DEF Stopped
<1> QED BY <1>2, <1>8, <1>9, <1>12, <1>7, <1>13 DEF Lead, WaveFails, ResolutionFails, Leave

\* Every step is the last but so many of its thread and leaves the other
\* threads as far from their end as they were: a build of any size takes a
\* bounded number of steps, retries and conflicts included.
RunsOut ==
    /\ LeadLeft \in Nat /\ LeadLeft' \in Nat
    /\ \A t \in Tickets : WorkLeft(t) \in Nat /\ WorkLeft(t)' \in Nat
    /\ \/ /\ LeadLeft' < LeadLeft
          /\ \A t \in Tickets : WorkLeft(t)' = WorkLeft(t)
       \/ /\ LeadLeft' = LeadLeft
          /\ \E t \in Tickets :
               /\ WorkLeft(t)' < WorkLeft(t)
               /\ \A u \in Tickets \ {t} : WorkLeft(u)' = WorkLeft(u)

\* _build_tickets cannot go on for ever, whatever its agents answer and its
\* tests say.
THEOREM TicketRunsOut == Spec => [][RunsOut]_vars
<1>1. ASSUME IInv, IInv', Next PROVE RunsOut
    <2>1. LeadLeft \in Nat /\ \A t \in Tickets : WorkLeft(t) \in Nat
        BY <1>1, LeftNatural
    <2>2. LeadLeft' \in Nat /\ \A t \in Tickets : WorkLeft(t)' \in Nat
        <3>1. (IInv => LeadLeft \in Nat /\ \A t \in Tickets : WorkLeft(t) \in Nat)'
            BY LeftNatural, PTL
        <3> QED BY <1>1, <3>1 DEF Tickets
    <2>3. CASE Lead
        BY <1>1, <2>1, <2>2, <2>3, LeadRunsOut DEF RunsOut
    <2>4. ASSUME NEW t \in Tickets, Work(t) PROVE RunsOut
        BY <1>1, <2>1, <2>2, <2>4, WorkRunsOut DEF RunsOut
    <2> QED BY <1>1, <2>3, <2>4 DEF Next
<1>2. IInv /\ IInv' /\ [Next]_vars => [RunsOut]_vars
    BY <1>1
<1> QED BY <1>2, TicketInvariant, PTL DEF Spec

\* A conflict is resolved for the ticket whose turn it is.
TurnTaken == lead \in {"resolve", "verify"} => \E t \in Tickets : IsTurn(t)

LEMMA StepKeepsTurn ==
    ASSUME IInv, TurnTaken, [Next]_vars
    PROVE  TurnTaken'
<1>1. UNCHANGED <<wave, recorded>> => \A t \in Tickets : IsTurn(t)' <=> IsTurn(t)
    BY SameTurn
<1>2. CASE UNCHANGED vars
    BY <1>1, <1>2 DEF TurnTaken, vars, control
<1>3. ASSUME NEW t \in Tickets, Work(t) PROVE TurnTaken'
    <2>1. UNCHANGED control
        BY <1>3, WorkAdvances DEF Work, Open, OpenFails, IInv
    <2> QED BY <1>1, <2>1 DEF TurnTaken, control
<1>4. ASSUME NEW t \in Tickets, Integrate(t) PROVE TurnTaken'
    <2>1. CASE Integrated(t)
        BY <2>1 DEF Integrated, TurnTaken
    <2>2. CASE MergeConflict(t) \/ ResolutionCommitted(t)
        BY <1>1, <2>2 DEF MergeConflict, ResolutionCommitted, TurnTaken
    <2> QED BY <1>4, <2>1, <2>2, IntegrationEnds DEF Integrate
<1>5. CASE Join \/ NextWave \/ WaveFails \/ ResolutionFails
    BY <1>5 DEF Join, NextWave, WaveFails, ResolutionFails, Leave, TurnTaken
<1>6. ASSUME NEW t \in Tickets, IntegrationFails(t) PROVE TurnTaken'
    BY <1>6, FailureStops DEF Stopped, TurnTaken
<1> QED BY <1>2, <1>3, <1>4, <1>5, <1>6 DEF Next, Lead

\* Somebody can take a step: a worker of the wave is not done; the pool has its
\* results, and one of its exceptions is the first; a ticket has its turn; or
\* the wave is over.
NeverStuck ==
    \/ lead \in {"done", "aborted"}
    \/ lead = "build" /\ \E t \in InWave : pc[t] \in Working \cup {"waiting"}
    \/ /\ lead = "build" /\ wave <= NumWaves
       /\ \/ \A t \in InWave : pc[t] = "built"
          \/ /\ \A t \in InWave : pc[t] \in {"built", "raised"}
             /\ \E t \in InWave : pc[t] = "raised" /\ \A u \in InWave : u < t => pc[u] = "built"
    \/ lead \in Integrating /\ \E t \in Tickets : IsTurn(t)
    \/ lead = "integrate" /\ \A t \in InWave : IsRecorded(t)

\* The first of some tickets.
LEMMA FirstTicket ==
    ASSUME NEW S \in SUBSET Tickets, S # {}
    PROVE  \E t \in S : \A u \in S : t <= u
<1>1. S \in SUBSET Nat
    BY BuildAssumption DEF Tickets
<1>2. PICK t \in S : \A u \in S : ~ (<<u, t>> \in OpToRel(<, Nat))
    BY <1>1, NatLessThanWellFounded, WFMin
<1>3. \A u \in S : ~ (u < t)
    BY <1>1, <1>2 DEF OpToRel
<1> QED BY <1>1, <1>3

\* Workers and lead thread never wait for each other: until the build has ended
\* the guard of some step of it holds.
THEOREM TicketNeverStuck == Spec => []NeverStuck
<1>1. Init => TurnTaken
    BY DEF Init, TurnTaken
<1>2. Spec => []TurnTaken
    BY <1>1, StepKeepsTurn, TicketInvariant, PTL DEF Spec
<1>3. IInv /\ TurnTaken => NeverStuck
    <2> SUFFICES ASSUME IInv, TurnTaken PROVE NeverStuck
        OBVIOUS
    <2>1. CASE lead = "build"
        <3>1. \A t \in InWave : t \in Tickets
              /\ pc[t] \in Working \cup {"waiting", "built", "raised"}
            BY DEF IInv, TypeOK, InWave, Working
        <3>2. wave <= NumWaves
            BY <2>1 DEF IInv, Schedule
        <3>3. CASE \E t \in InWave : pc[t] \in Working \cup {"waiting"}
            BY <2>1, <3>3 DEF NeverStuck
        <3>4. CASE \A t \in InWave : pc[t] = "built"
            BY <2>1, <3>2, <3>4 DEF NeverStuck
        <3>5. CASE /\ \A t \in InWave : pc[t] \in {"built", "raised"}
                   /\ \E t \in InWave : pc[t] = "raised"
            <4> DEFINE S == {t \in InWave : pc[t] = "raised"}
            <4>1. S \in SUBSET Tickets /\ S # {}
                BY <3>1, <3>5
            <4>2. PICK t \in S : \A u \in S : t <= u
                <5> HIDE DEF S
                <5> QED BY <4>1, FirstTicket
            <4>3. \A u \in InWave : u \in Nat
                BY <3>1, BuildAssumption DEF Tickets
            <4>4. \A u \in InWave : u < t => pc[u] = "built"
                BY <3>5, <4>2, <4>3
            <4> QED BY <2>1, <3>2, <3>5, <4>2, <4>4 DEF NeverStuck
        <3> QED BY <3>1, <3>3, <3>4, <3>5
    <2>2. CASE lead = "integrate"
        <3>1. CASE \A t \in InWave : IsRecorded(t)
            BY <2>2, <3>1 DEF NeverStuck
        <3>2. CASE ~ \A t \in InWave : IsRecorded(t)
            <4> DEFINE S == {t \in InWave : ~ IsRecorded(t)}
            <4>1. S \in SUBSET Tickets /\ S # {}
                BY <3>2 DEF InWave
            <4>2. PICK t \in S : \A u \in S : t <= u
                <5> HIDE DEF S
                <5> QED BY <4>1, FirstTicket
            <4>3. \A u \in InWave : u \in Nat
                BY BuildAssumption DEF Tickets, InWave
            <4>4. IsTurn(t) /\ t \in Tickets
                BY <4>1, <4>2, <4>3 DEF IsTurn
            <4> QED BY <2>2, <4>4 DEF NeverStuck, Integrating
        <3> QED BY <3>1, <3>2
    <2>3. CASE lead \in {"resolve", "verify"}
        BY <2>3 DEF TurnTaken, NeverStuck, Integrating
    <2> QED BY <2>1, <2>2, <2>3 DEF NeverStuck, IInv, TypeOK
<1> QED BY <1>2, <1>3, TicketInvariant, PTL
=============================================================================
