---------------------------- MODULE MeteredCalls ----------------------------
(***************************************************************************)
(* The cost control around every LLM call: MeteredLLM.complete of          *)
(* pm_system/llm/client.py over CostLedger of pm_system/costs/ledger.py,   *)
(* called by the worker threads of one project (parallel tickets).         *)
(* check_budget reads the stage total and then the project total without   *)
(* the ledger's lock; the call itself and the insert of its cost come      *)
(* later, so several workers may pass the check on the same totals.        *)
(* All threads share one connection: its reads see the rows of the open    *)
(* transaction, and a row is in the file once a commit, of whichever       *)
(* thread, has succeeded.                                                  *)
(* Costs are whole units from 1 to MaxCost.                                *)
(***************************************************************************)
EXTENDS Naturals, FiniteSets

CONSTANTS
    Workers,      \* threads that call agents
    Stages,
    Capped,       \* the stages stage_budgets names
    StageCap,     \* stage_budgets
    ProjectCap,   \* project_budget
    MaxCost,      \* bound: the price of one call
    MaxFailures,  \* bound: how many charged requests end in an exception
    MaxCrashes    \* bound: how often the process ends and is restarted

ASSUME CapAssumption ==
    /\ IsFiniteSet(Workers) /\ Workers # {}
    /\ Capped \subseteq Stages
    /\ StageCap \in [Capped -> Nat]
    /\ ProjectCap \in Nat
    /\ MaxCost \in Nat \ {0}
    /\ MaxFailures \in Nat
    /\ MaxCrashes \in Nat

VARIABLES
    pc,         \* where each worker is in MeteredLLM.complete
    stage,      \* CostTags.stage of its call
    cost        \* price of the answer it holds

VARIABLES
    spend,      \* stage_spend: the costs of each stage the connection sees
    total,      \* project_spend: all costs the connection sees
    kept,       \* of spend, what is committed to the file
    keptTotal   \* of total, what is committed to the file

(* What happened to the calls, for the properties *)
VARIABLES
    billed,     \* what the provider charged in each stage
    returned,   \* what the calls cost whose answer reached the agent
    failed,     \* how many charged requests ended in an exception
    crashes     \* how often the process ended

rows == <<spend, total, kept, keptTotal>>
vars == <<pc, stage, cost, rows, billed, returned, failed, crashes>>

TypeOK ==
    /\ pc \in [Workers -> {"idle", "stageOk", "calling", "answered"}]
    /\ stage \in [Workers -> Stages]
    /\ cost \in [Workers -> 0..MaxCost]
    /\ spend \in [Stages -> Nat] /\ total \in Nat
    /\ kept \in [Stages -> Nat] /\ keptTotal \in Nat
    /\ billed \in [Stages -> Nat] /\ returned \in [Stages -> Nat]
    /\ failed \in 0..MaxFailures
    /\ crashes \in 0..MaxCrashes

Init ==
    /\ pc = [w \in Workers |-> "idle"]
    /\ stage \in [Workers -> Stages]
    /\ cost = [w \in Workers |-> 0]
    /\ spend = [s \in Stages |-> 0] /\ kept = spend
    /\ total = 0 /\ keptTotal = 0
    /\ billed = spend /\ returned = spend
    /\ failed = 0 /\ crashes = 0

\* Mutant of UnderStageCap: > where the code has >=.
AtStageCap(s) == s \in Capped => spend[s] <= StageCap[s]

\* stage_spend(project_id, stage) >= cap is false, or there is no cap.
UnderStageCap(s) == s \in Capped => spend[s] < StageCap[s]

\* The first half of check_budget.  At the cap it raises and nothing changes.
CheckStage(w, s) ==
    /\ pc[w] = "idle"
    /\ UnderStageCap(s)
    /\ pc' = [pc EXCEPT ![w] = "stageOk"]
    /\ stage' = [stage EXCEPT ![w] = s]
    /\ UNCHANGED <<cost, rows, billed, returned, failed, crashes>>

\* Mutant of CheckProject: > where the code has >=.
CheckProjectLate(w) ==
    /\ pc[w] = "stageOk"
    /\ pc' = [pc EXCEPT ![w] = IF total <= ProjectCap THEN "calling" ELSE "idle"]
    /\ UNCHANGED <<stage, cost, rows, billed, returned, failed, crashes>>

\* The second half: go on to the call, or raise BudgetExceededError.
CheckProject(w) ==
    /\ pc[w] = "stageOk"
    /\ pc' = [pc EXCEPT ![w] = IF total < ProjectCap THEN "calling" ELSE "idle"]
    /\ UNCHANGED <<stage, cost, rows, billed, returned, failed, crashes>>

\* The provider answers and charges for the call.
Answer(w, c) ==
    /\ pc[w] = "calling"
    /\ pc' = [pc EXCEPT ![w] = "answered"]
    /\ cost' = [cost EXCEPT ![w] = c]
    /\ billed' = [billed EXCEPT ![stage[w]] = @ + c]
    /\ UNCHANGED <<stage, rows, returned, failed, crashes>>

\* The request raises; it was not charged.
CallFails(w) ==
    /\ pc[w] = "calling"
    /\ pc' = [pc EXCEPT ![w] = "idle"]
    /\ UNCHANGED <<stage, cost, rows, billed, returned, failed, crashes>>

\* The provider charges for the request and its answer is lost, as in a read
\* timeout: complete raises, or the client sends the request once more.
AnswerLost(w, c) ==
    /\ pc[w] = "calling"
    /\ failed < MaxFailures
    /\ failed' = failed + 1
    /\ \/ pc' = [pc EXCEPT ![w] = "idle"]
       \/ UNCHANGED pc
    /\ billed' = [billed EXCEPT ![stage[w]] = @ + c]
    /\ UNCHANGED <<stage, cost, rows, returned, crashes>>

\* The INSERT: the row of w's call in the open transaction.
AddRow(w) ==
    /\ spend' = [spend EXCEPT ![stage[w]] = @ + cost[w]]
    /\ total' = total + cost[w]

\* The commit, of every row of the open transaction.
CommitRows == kept' = spend' /\ keptTotal' = total'

\* SQLite drops the open transaction.
RollBack ==
    /\ spend' = kept /\ total' = keptTotal
    /\ UNCHANGED <<kept, keptTotal>>

\* Mutant of Record: no commit.
RecordUncommitted(w) ==
    /\ pc[w] = "answered"
    /\ AddRow(w)
    /\ returned' = [returned EXCEPT ![stage[w]] = @ + cost[w]]
    /\ pc' = [pc EXCEPT ![w] = "idle"]
    /\ UNCHANGED <<stage, cost, kept, keptTotal, billed, failed, crashes>>

\* CostLedger.record, under its lock; complete returns the answer.
Record(w) ==
    /\ pc[w] = "answered"
    /\ AddRow(w)
    /\ CommitRows
    /\ returned' = [returned EXCEPT ![stage[w]] = @ + cost[w]]
    /\ pc' = [pc EXCEPT ![w] = "idle"]
    /\ UNCHANGED <<stage, cost, billed, failed, crashes>>

\* record raises (a locked file, a full disk) and the answer goes with it: the
\* INSERT failed; or the commit did, and the row stays in the open
\* transaction; or SQLite rolled that transaction back.
RecordFails(w) ==
    /\ pc[w] = "answered"
    /\ failed < MaxFailures
    /\ failed' = failed + 1
    /\ \/ UNCHANGED rows
       \/ AddRow(w) /\ UNCHANGED <<kept, keptTotal>>
       \/ RollBack
    /\ pc' = [pc EXCEPT ![w] = "idle"]
    /\ UNCHANGED <<stage, cost, billed, returned, crashes>>

\* A record of another project in the same ledger: its commit covers the rows
\* that are open, its failure may drop them.
OtherProject ==
    /\ \/ UNCHANGED <<spend, total>> /\ CommitRows
       \/ RollBack
    /\ UNCHANGED <<pc, stage, cost, billed, returned, failed, crashes>>

\* The process ends: answers not yet recorded are lost, the file stays as
\* committed.
Crash ==
    /\ crashes < MaxCrashes
    /\ crashes' = crashes + 1
    /\ pc' = [w \in Workers |-> "idle"]
    /\ RollBack
    /\ UNCHANGED <<stage, cost, billed, returned, failed>>

Next ==
    \/ \E w \in Workers :
        \/ \E s \in Stages : CheckStage(w, s)
        \/ CheckProject(w) \/ CallFails(w) \/ Record(w) \/ RecordFails(w)
        \/ \E c \in 1..MaxCost : Answer(w, c) \/ AnswerLost(w, c)
    \/ OtherProject
    \/ Crash

Spec == Init /\ [][Next]_vars

-----------------------------------------------------------------------------
\* The stage cap is a soft stop with a sharp bound: spend passes it by less
\* than one call per worker.
StageOvershootBounded ==
    \A s \in Capped :
        spend[s] > 0 =>
            spend[s] < StageCap[s] + MaxCost * Cardinality(Workers)

\* So is the project cap.
ProjectOvershootBounded ==
    total > 0 => total < ProjectCap + MaxCost * Cardinality(Workers)

\* The ledger says what was charged.  What a call cost whose answer an agent
\* got is in the file, whatever failed before or after it; no cost is there
\* that was not charged; and what the file misses is one call at most for
\* every worker that holds an answer, for every request that raised although
\* it was charged, and for every worker of a process that ended.
LedgerTracksBill ==
    \A s \in Stages :
        LET pending == {w \in Workers : pc[w] = "answered" /\ stage[w] = s}
        IN  /\ returned[s] <= kept[s]
            /\ spend[s] <= billed[s]
            /\ billed[s] <= kept[s] + MaxCost * (Cardinality(pending) + failed
                                                 + crashes * Cardinality(Workers))

\* "the request that crosses a cap completes and the next one is refused":
\* spend passes the cap by less than one call.
NextRequestRefused ==
    \A s \in Capped : spend[s] > 0 => spend[s] < StageCap[s] + MaxCost
=============================================================================
