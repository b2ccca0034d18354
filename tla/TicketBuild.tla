---------------------------- MODULE TicketBuild ----------------------------
(***************************************************************************)
(* The build stage of pm_system/orchestrator/orchestrator.py: one call of  *)
(* _build_tickets with everything it runs.  The tickets of a dependency    *)
(* wave are built by one worker thread each, every one in its own git      *)
(* worktree, through Developer -> unit tests -> security -> review -> QA   *)
(* with at most MaxRetries attempts.  When every worker of the wave has    *)
(* returned, the lead thread merges the built branches into main one after *)
(* the other, resolving conflicts; then the next wave starts.              *)
(*                                                                         *)
(* File contents are abstract: the files one developer attempt wrote are   *)
(* the number of the attempt.  Agents, tests and scanners answer anything  *)
(* they can answer.  A wave of one ticket is the sequential build.         *)
(*                                                                         *)
(* Any call to git, to the API behind an agent, to the sandbox, the store, *)
(* the PR publisher or the notifier may raise, and the budget may refuse a *)
(* call of an agent.  Nothing in these methods catches it ("failure"): on  *)
(* a worker it ends that worker, on the lead thread it leaves              *)
(* _build_tickets where it stands.                                         *)
(***************************************************************************)
EXTENDS Naturals, Sequences, FiniteSets

CONSTANTS
    NumTickets,       \* tickets, in the order _derive_tickets lists them
    WaveOf,           \* ticket -> its dependency wave (_dependency_waves)
    NumWaves,
    MaxRetries,       \* OrchestratorConfig.max_retries
    EnableSecurity,   \* OrchestratorConfig.enable_security
    EnableReview      \* OrchestratorConfig.enable_review

Tickets == 1..NumTickets
Attempts == 1..MaxRetries

ASSUME BuildAssumption ==
    /\ NumTickets \in Nat /\ NumWaves \in Nat \ {0}
    /\ MaxRetries \in Nat \ {0}
    /\ WaveOf \in [Tickets -> 1..NumWaves]
    /\ EnableSecurity \in BOOLEAN /\ EnableReview \in BOOLEAN

Gates == {"unit", "security", "review", "qa"}

\* The checks the configuration puts a ticket through.
EnabledGates ==
    {"unit", "qa"} \cup (IF EnableSecurity THEN {"security"} ELSE {})
                   \cup (IF EnableReview THEN {"review"} ELSE {})

VARIABLES
    pc,             \* what each ticket's worker does next
    attempt,        \* TicketResult.attempts
    status,         \* TicketResult.status, once _run_ticket has returned it
    error,          \* the exception that ended the worker
    cleared,        \* the last attempt that got through each check, 0: none
    tree,           \* the attempts whose files are in the ticket's worktree
    worktree,       \* does the ticket's worktree exist?
    branch,         \* the attempts whose files are committed on ticket/<id>
    base,           \* the tickets on main when the worktree was created
    pr,             \* PullRequest.state
    code,           \* does an approved CODE-<ticket> artifact exist?
    lead,           \* what the thread inside _build_tickets does
    wave,           \* the wave it is at
    main,           \* the tickets whose branch is merged into main
    merging,        \* is a git merge open in the main checkout?
    recorded,       \* ProjectResult.tickets
    interventions,  \* Orchestrator._interventions of this stage
    outcome         \* how _build_tickets ended

worker == <<pc, attempt, status, error, cleared, tree, branch, code>>
repo == <<worktree, base, pr, main, merging>>
control == <<lead, wave, recorded, outcome>>
vars == <<worker, repo, control, interventions>>

\* The exceptions that leave a worker.  On the lead thread only a failure does.
WorkerErrors == {"AgentOutputError", "NameError", "failure"}

TypeOK ==
    /\ pc \in [Tickets -> {"waiting", "dev", "unit", "security", "review",
                           "qa", "accept", "built", "raised"}]
    /\ attempt \in [Tickets -> 0..MaxRetries]
    /\ status \in [Tickets -> {"building", "passed", "escalated"}]
    /\ error \in [Tickets -> {"none"} \cup WorkerErrors]
    /\ cleared \in [Tickets -> [Gates -> 0..MaxRetries]]
    /\ tree \in [Tickets -> SUBSET Attempts]
    /\ worktree \in [Tickets -> BOOLEAN]
    /\ branch \in [Tickets -> SUBSET Attempts]
    /\ base \in [Tickets -> SUBSET Tickets]
    /\ pr \in [Tickets -> {"none", "open", "merged", "closed"}]
    /\ code \in [Tickets -> BOOLEAN]
    /\ lead \in {"build", "integrate", "resolve", "verify", "done", "aborted"}
    /\ wave \in 1..NumWaves + 1
    /\ main \in SUBSET Tickets
    /\ merging \in BOOLEAN
    /\ recorded \in Seq(Tickets)
    /\ interventions \in Nat
    /\ outcome \in {"none", "complete"} \cup WorkerErrors

Init ==
    /\ pc = [t \in Tickets |-> "waiting"]
    /\ attempt = [t \in Tickets |-> 0]
    /\ status = [t \in Tickets |-> "building"]
    /\ error = [t \in Tickets |-> "none"]
    /\ cleared = [t \in Tickets |-> [g \in Gates |-> 0]]
    /\ tree = [t \in Tickets |-> {}]
    /\ worktree = [t \in Tickets |-> FALSE]
    /\ branch = [t \in Tickets |-> {}]
    /\ base = [t \in Tickets |-> {}]
    /\ pr = [t \in Tickets |-> "none"]
    /\ code = [t \in Tickets |-> FALSE]
    /\ lead = "build"
    /\ wave = 1
    /\ main = {}
    /\ merging = FALSE
    /\ recorded = <<>>
    /\ interventions = 0
    /\ outcome = "none"

-----------------------------------------------------------------------------
(* A worker thread: _process_ticket and _run_ticket.                       *)

Goto(t, step) == pc' = [pc EXCEPT ![t] = step]

\* _escalate_ticket, on a worker thread.
Escalate(t) ==
    /\ status' = [status EXCEPT ![t] = "escalated"]
    /\ interventions' = interventions + 1
    /\ Goto(t, "built")
    /\ UNCHANGED <<attempt, error, cleared>>

\* Mutants of Burn: one attempt too many; a retry that is not counted.
BurnOnceMore(t) ==
    \/ /\ attempt[t] <= MaxRetries
       /\ attempt' = [attempt EXCEPT ![t] = @ + 1]
       /\ Goto(t, "dev")
       /\ UNCHANGED <<status, error, cleared, interventions>>
    \/ attempt[t] > MaxRetries /\ Escalate(t)

BurnUncounted(t) ==
    /\ Goto(t, "dev")
    /\ UNCHANGED <<attempt, status, error, cleared, interventions>>

\* continue: the next attempt, or the escalation after the last one.
Burn(t) ==
    \/ /\ attempt[t] < MaxRetries
       /\ attempt' = [attempt EXCEPT ![t] = @ + 1]
       /\ Goto(t, "dev")
       /\ UNCHANGED <<status, error, cleared, interventions>>
    \/ /\ attempt[t] = MaxRetries
       /\ Escalate(t)

\* An exception no handler inside _run_ticket catches ends the worker.
Raise(t, e) ==
    /\ error' = [error EXCEPT ![t] = e]
    /\ Goto(t, "raised")
    /\ UNCHANGED <<attempt, status, cleared, interventions>>

\* The ways Agent.run ends without a usable answer, where _run_ticket handles
\* them: invalid output burns the attempt, a context over its cap escalates.  A
\* call the budget refuses or the API fails, and files that cannot be written,
\* end the worker.
AgentFails(t) ==
    \/ Burn(t)
    \/ Escalate(t)
    \/ Raise(t, "failure")

\* The check passed for the current attempt; the ticket goes on to step.
Clear(t, gate, step) ==
    /\ cleared' = [cleared EXCEPT ![t][gate] = attempt[t]]
    /\ Goto(t, step)
    /\ UNCHANGED <<attempt, status, error, interventions>>

\* create_worktree: a fresh checkout of the ticket branch, reset to main.
NewWorktree(t) ==
    /\ worktree' = [worktree EXCEPT ![t] = TRUE]
    /\ base' = [base EXCEPT ![t] = main]

\* Mutant of Open: the pool is given the tickets of every wave at once.
OpenAnyWave(t) ==
    /\ lead = "build" /\ pc[t] = "waiting"
    /\ NewWorktree(t)
    /\ pr' = [pr EXCEPT ![t] = "open"]
    /\ attempt' = [attempt EXCEPT ![t] = 1]
    /\ Goto(t, "dev")
    /\ UNCHANGED <<status, error, cleared, tree, branch, code,
                   main, merging, control, interventions>>

\* _process_ticket, up to the build: the worktree and the PR.
Open(t) ==
    /\ lead = "build" /\ WaveOf[t] = wave /\ pc[t] = "waiting"
    /\ NewWorktree(t)
    /\ pr' = [pr EXCEPT ![t] = "open"]
    /\ attempt' = [attempt EXCEPT ![t] = 1]
    /\ Goto(t, "dev")
    /\ UNCHANGED <<status, error, cleared, tree, branch, code,
                   main, merging, control, interventions>>

\* create_worktree or open_pr raises: no worktree, or one without a PR.
OpenFails(t) ==
    /\ lead = "build" /\ WaveOf[t] = wave /\ pc[t] = "waiting"
    /\ UNCHANGED <<worktree, base>> \/ NewWorktree(t)
    /\ Raise(t, "failure")
    /\ UNCHANGED <<tree, branch, code, pr, main, merging, control>>

\* The developer answers.  A later attempt may overwrite the files of the
\* earlier ones or leave some of them in the worktree.  The answer may also be
\* invalid or not come at all.
Dev(t) ==
    /\ pc[t] = "dev"
    /\ \/ /\ \E kept \in SUBSET tree[t] :
                tree' = [tree EXCEPT ![t] = kept \cup {attempt[t]}]
          /\ Goto(t, "unit")
          /\ UNCHANGED <<attempt, status, error, cleared, interventions>>
       \/ AgentFails(t) /\ UNCHANGED tree
    /\ UNCHANGED <<branch, code, repo, control>>

AfterReview == "qa"
AfterSecurity == IF EnableReview THEN "review" ELSE AfterReview
AfterUnit == IF EnableSecurity THEN "security" ELSE AfterSecurity

\* Mutant of Unit: no continue after a failed run.
UnitFallsThrough(t) ==
    /\ pc[t] = "unit"
    /\ \/ Clear(t, "unit", AfterUnit)
       \/ Goto(t, AfterUnit)
          /\ UNCHANGED <<attempt, status, error, cleared, interventions>>
    /\ UNCHANGED <<tree, branch, code, repo, control>>

\* The unit tests of the worktree pass, fail, or their sandbox raises.
Unit(t) ==
    /\ pc[t] = "unit"
    /\ Clear(t, "unit", AfterUnit) \/ Burn(t) \/ Raise(t, "failure")
    /\ UNCHANGED <<tree, branch, code, repo, control>>

\* _security_step.  No blocking finding passes, one blocks.  An answer of the
\* triage agent that does not parse (AgentOutputError) is caught nowhere, and
\* the handler of its ContextOverflowError raises NameError: the workspace it
\* passes to _escalate_ticket is not defined there.
Security(t) ==
    /\ pc[t] = "security"
    /\ \/ Clear(t, "security", AfterSecurity)
       \/ Burn(t)
       \/ \E e \in WorkerErrors : Raise(t, e)
    /\ UNCHANGED <<tree, branch, code, repo, control>>

\* _review_step: the reviewer approves, blocks or gives no verdict.
Review(t) ==
    /\ pc[t] = "review"
    /\ Clear(t, "review", AfterReview) \/ AgentFails(t)
    /\ UNCHANGED <<tree, branch, code, repo, control>>

\* The QA agent writes its tests into the worktree.
QA(t) ==
    /\ pc[t] = "qa"
    /\ \/ Goto(t, "accept")
          /\ UNCHANGED <<attempt, status, error, cleared, interventions>>
       \/ AgentFails(t)
    /\ UNCHANGED <<tree, branch, code, repo, control>>

\* Worktree.commit_all: everything in the worktree goes on the branch.
CommitTree(t) == branch' = [branch EXCEPT ![t] = tree[t]]

\* _record_ticket_artifacts: CODE, REVIEW and QA are upserted and approved.
RecordCode(t) == code' = [code EXCEPT ![t] = TRUE]

\* The acceptance tests; on success the work is committed and recorded.  An
\* exception may come before the commit, between the commit and the artifacts,
\* or after both.
Accept(t) ==
    /\ pc[t] = "accept"
    /\ \/ /\ cleared' = [cleared EXCEPT ![t]["qa"] = attempt[t]]
          /\ CommitTree(t)
          /\ RecordCode(t)
          /\ status' = [status EXCEPT ![t] = "passed"]
          /\ Goto(t, "built")
          /\ UNCHANGED <<attempt, error, interventions>>
       \/ Burn(t) /\ UNCHANGED <<branch, code>>
       \/ /\ Raise(t, "failure")
          /\ \/ UNCHANGED <<branch, code>>
             \/ CommitTree(t) /\ (UNCHANGED code \/ RecordCode(t))
    /\ UNCHANGED <<tree, repo, control>>

-----------------------------------------------------------------------------
(* The lead thread: _build_tickets, _integrate_ticket and                  *)
(* _resolve_merge_conflict.                                                *)

InWave == {t \in Tickets : WaveOf[t] = wave}

IsRecorded(t) == \E i \in 1..Len(recorded) : recorded[i] = t

\* Mutant of IsTurn: results are taken as the workers complete.
AnyTurn(t) == t \in InWave /\ ~ IsRecorded(t)

\* The ticket whose turn it is to be integrated.
IsTurn(t) ==
    /\ t \in InWave /\ ~ IsRecorded(t)
    /\ \A u \in InWave : u < t => IsRecorded(u)

\* pool.map hands back the results in ticket order, once the pool has waited
\* for every worker; it re-raises the first exception among them.
Join ==
    /\ lead = "build" /\ wave <= NumWaves
    /\ \A t \in InWave : pc[t] \in {"built", "raised"}
    /\ \/ /\ \A t \in InWave : pc[t] = "built"
          /\ lead' = "integrate"
          /\ UNCHANGED outcome
       \/ \E t \in InWave :
            /\ pc[t] = "raised"
            /\ \A u \in InWave : u < t => pc[u] = "built"
            /\ lead' = "aborted"
            /\ outcome' = error[t]
    /\ UNCHANGED <<worker, repo, wave, recorded, interventions>>

\* The PR and worktree of a ticket that is done with.
Settle(t, state) ==
    /\ pr' = [pr EXCEPT ![t] = state]
    /\ worktree' = [worktree EXCEPT ![t] = FALSE]
    /\ recorded' = Append(recorded, t)
    /\ lead' = "integrate"
    /\ UNCHANGED <<base, wave, outcome>>

\* remove_worktree --force deletes whatever is not committed.
DropTree(t) == tree' = [tree EXCEPT ![t] = {}]

\* Mutant of IntegrateEscalated: the early return forgets close_pr.
EscalatedPRLeftOpen(t) ==
    /\ lead = "integrate" /\ IsTurn(t) /\ status[t] # "passed"
    /\ Settle(t, "open")
    /\ DropTree(t)
    /\ UNCHANGED <<pc, attempt, status, error, cleared, branch, code,
                   main, merging, interventions>>

\* An escalated ticket: the PR is closed, nothing is merged.
IntegrateEscalated(t) ==
    /\ lead = "integrate" /\ IsTurn(t) /\ status[t] # "passed"
    /\ Settle(t, "closed")
    /\ DropTree(t)
    /\ UNCHANGED <<pc, attempt, status, error, cleared, branch, code,
                   main, merging, interventions>>

\* git merge succeeds.
MergeClean(t) ==
    /\ lead = "integrate" /\ IsTurn(t) /\ status[t] = "passed"
    /\ main' = main \cup {t}
    /\ Settle(t, "merged")
    /\ DropTree(t)
    /\ UNCHANGED <<pc, attempt, status, error, cleared, branch, code,
                   merging, interventions>>

\* git merge fails.  It stops on conflicts, where main has moved since the
\* branch left it, and the merge is open; or it does not start (files an
\* earlier test run left in the main checkout are in its way, another process
\* holds the index lock), and nothing is open.  Either is taken for a conflict.
MergeConflict(t) ==
    /\ lead = "integrate" /\ IsTurn(t) /\ status[t] = "passed"
    /\ \/ main # base[t] /\ merging' = TRUE
       \/ UNCHANGED merging
    /\ lead' = "resolve"
    /\ UNCHANGED <<worker, worktree, base, pr, main, wave, recorded, outcome,
                   interventions>>

\* abort_merge: ends an open merge and does nothing else, in particular where
\* the merge is committed already.
AbortMerge == merging' = FALSE /\ UNCHANGED main

\* Mutant of Unresolved: the lead thread does not count the intervention.
UnresolvedUncounted(t) ==
    /\ AbortMerge
    /\ Settle(t, "closed")
    /\ DropTree(t)
    /\ status' = [status EXCEPT ![t] = "escalated"]
    /\ UNCHANGED <<pc, attempt, error, cleared, branch, code, interventions>>

\* The end of a ticket whose conflict stays unresolved: abort_merge, close_pr,
\* remove_worktree, _escalate_ticket.
Unresolved(t) ==
    /\ AbortMerge
    /\ Settle(t, "closed")
    /\ DropTree(t)
    /\ status' = [status EXCEPT ![t] = "escalated"]
    /\ interventions' = interventions + 1
    /\ UNCHANGED <<pc, attempt, error, cleared, branch, code>>

\* The developer asked to reconcile the files answers garbage or its context
\* is over the cap.
ResolutionRejected(t) ==
    /\ lead = "resolve" /\ IsTurn(t)
    /\ Unresolved(t)

\* complete_merge: git add -A and commit.  An open merge is on main; without
\* one the commit holds what lies in the checkout, not the branch.
CompleteMerge(t) ==
    /\ main' = IF merging THEN main \cup {t} ELSE main
    /\ merging' = FALSE

\* The reconciled files are committed on main, before any test.
ResolutionCommitted(t) ==
    /\ lead = "resolve" /\ IsTurn(t)
    /\ CompleteMerge(t)
    /\ lead' = "verify"
    /\ UNCHANGED <<worker, worktree, base, pr, wave, recorded, outcome,
                   interventions>>

\* The suite is green on the merged main.
VerifyGreen(t) ==
    /\ lead = "verify" /\ IsTurn(t)
    /\ Settle(t, "merged")
    /\ DropTree(t)
    /\ UNCHANGED <<pc, attempt, status, error, cleared, branch, code,
                   main, merging, interventions>>

\* The suite is red: nothing is left for abort_merge to abort.
VerifyRed(t) ==
    /\ lead = "verify" /\ IsTurn(t)
    /\ Unresolved(t)

\* Every ticket of the wave is integrated.
NextWave ==
    /\ lead = "integrate"
    /\ \A t \in InWave : IsRecorded(t)
    /\ wave' = wave + 1
    /\ \/ wave < NumWaves /\ lead' = "build" /\ UNCHANGED outcome
       \/ wave = NumWaves /\ lead' = "done" /\ outcome' = "complete"
    /\ UNCHANGED <<worker, repo, recorded, interventions>>

-----------------------------------------------------------------------------
(* An exception on the lead thread leaves _build_tickets: the ticket in    *)
(* hand stays as it is, and no other ticket of the wave is integrated.     *)

Leave ==
    /\ lead' = "aborted" /\ outcome' = "failure"
    /\ UNCHANGED <<pc, attempt, status, error, cleared, branch, code, base,
                   wave, recorded, interventions>>

\* Settling t raises: before the publisher has settled the PR, before git has
\* removed the worktree, or after both.
SettleFails(t, state) ==
    /\ Leave
    /\ \/ UNCHANGED <<pr, worktree, tree>>
       \/ /\ pr' = [pr EXCEPT ![t] = state]
          /\ \/ UNCHANGED <<worktree, tree>>
             \/ worktree' = [worktree EXCEPT ![t] = FALSE] /\ DropTree(t)

\* The notice of a parallel wave raises, before any of its workers runs.
WaveFails ==
    /\ lead = "build" /\ \E t, u \in InWave : t # u
    /\ \A t \in InWave : pc[t] = "waiting"
    /\ Leave
    /\ UNCHANGED <<pr, worktree, tree, main, merging>>

EscalatedFails(t) ==
    /\ lead = "integrate" /\ IsTurn(t) /\ status[t] # "passed"
    /\ SettleFails(t, "closed")
    /\ UNCHANGED <<main, merging>>

\* merge raises: its checkout of main fails, or the diff after a conflict.
MergeFails(t) ==
    /\ lead = "integrate" /\ IsTurn(t) /\ status[t] = "passed"
    /\ Leave
    /\ \/ main # base[t] /\ merging' = TRUE
       \/ UNCHANGED merging
    /\ UNCHANGED <<pr, worktree, tree, main>>

\* The merge is on main, and what follows raises.
MergedFails(t) ==
    /\ lead = "integrate" /\ IsTurn(t) /\ status[t] = "passed"
    /\ main' = main \cup {t}
    /\ SettleFails(t, "merged")
    /\ UNCHANGED merging

\* The developer's call is refused by the budget or fails, its files cannot be
\* written, or complete_merge raises: the merge stays open.
ResolutionFails ==
    /\ lead = "resolve"
    /\ Leave
    /\ UNCHANGED <<pr, worktree, tree, main, merging>>

\* Giving up raises after abort_merge; the ticket is not escalated yet.
UnresolvedFails(t) ==
    /\ lead \in {"resolve", "verify"} /\ IsTurn(t)
    /\ AbortMerge
    /\ SettleFails(t, "closed")

\* The test run on the merged main raises, or what follows a green one.
VerifyFails(t) ==
    /\ lead = "verify" /\ IsTurn(t)
    /\ SettleFails(t, "merged")
    /\ UNCHANGED <<main, merging>>

IntegrationFails(t) ==
    \/ EscalatedFails(t) \/ MergeFails(t) \/ MergedFails(t)
    \/ UnresolvedFails(t) \/ VerifyFails(t)

-----------------------------------------------------------------------------
Work(t) == Open(t) \/ OpenFails(t) \/ Dev(t) \/ Unit(t) \/ Security(t)
           \/ Review(t) \/ QA(t) \/ Accept(t)

Integrate(t) ==
    \/ IntegrateEscalated(t) \/ MergeClean(t) \/ MergeConflict(t)
    \/ ResolutionRejected(t) \/ ResolutionCommitted(t)
    \/ VerifyGreen(t) \/ VerifyRed(t)

Lead ==
    \/ Join \/ NextWave \/ WaveFails \/ ResolutionFails
    \/ \E t \in Tickets : Integrate(t) \/ IntegrationFails(t)

Next == Lead \/ \E t \in Tickets : Work(t)

Spec == Init /\ [][Next]_vars

\* Every thread keeps running: agent, test and git calls return.
FairSpec == Spec /\ WF_vars(Lead) /\ \A t \in Tickets : WF_vars(Work(t))

-----------------------------------------------------------------------------
\* What reaches main through a merged PR got through every enabled check in
\* its last attempt, and the branch holds that attempt: no check is skipped,
\* reordered past the commit, or satisfied by an earlier attempt's files.
MergedWasChecked ==
    \A t \in Tickets :
        pr[t] = "merged" =>
            /\ attempt[t] \in branch[t]
            /\ \A g \in EnabledGates : cleared[t][g] = attempt[t]

\* A ticket is built on top of all that the earlier waves brought to main and
\* of nothing else, and while a wave is being built main does not move under it.
BuiltOnEarlierWaves ==
    \A t \in Tickets :
        attempt[t] > 0 =>
            /\ base[t] = {u \in main : WaveOf[u] < WaveOf[t]}
            /\ lead = "build" /\ WaveOf[t] = wave => base[t] = main

\* Every ticket is settled or untouched, but for the one in hand.  A ticket in
\* the result has no worktree, its PR is merged if it passed and closed if it
\* escalated; of the others only the one whose turn it is may be on main or
\* have a settled PR, wherever an error ended the build.  When it completes
\* every ticket is in the result, once, and no merge is open.
SettledOrInHand ==
    /\ \A t \in Tickets :
        IF IsRecorded(t)
        THEN /\ ~ worktree[t]
             /\ pr[t] = (IF status[t] = "passed" THEN "merged" ELSE "closed")
        ELSE t \in main \/ pr[t] \in {"merged", "closed"} => IsTurn(t)
    /\ lead = "done" =>
        Len(recorded) = NumTickets /\ (\A t \in Tickets : IsRecorded(t)) /\ ~ merging

\* Every escalated ticket is one human intervention, whichever of the worker
\* and the lead thread escalated it, and however many did at once.
InterventionPerEscalation ==
    interventions = Cardinality({t \in Tickets : status[t] = "escalated"})

\* A settled PR stays settled, and what is merged into main is never lost.
SettledForGood ==
    [][/\ main \subseteq main'
       /\ \A t \in Tickets :
            /\ pr[t] \in {"merged", "closed"} => pr'[t] = pr[t]
            /\ pr'[t] = "merged" => status'[t] = "passed"]_vars

\* Seen from its caller, the build with its parallel workers is one that a single
\* thread could have done: what ProjectResult.tickets holds, in which order, and
\* what is left of it when an error ends the build, do not depend on how the
\* workers took turns, and a ticket in it keeps its status and PR.
Result == [i \in 1..Len(recorded) |->
              [ticket |-> recorded[i], status |-> status[recorded[i]],
               pr |-> pr[recorded[i]]]]

Sequential == INSTANCE SequentialBuild WITH result <- Result

ImplementsSequentialBuild == Sequential!Spec

\* The stage ends, whatever the agents, the tests and the budget answer.
Terminates == <>(lead \in {"done", "aborted"})

-----------------------------------------------------------------------------
(* What documents say of the build and the code does not do.               *)

\* "keep main clean": main holds only the tickets whose PR was merged.
MainHoldsMergedOnly ==
    lead = "done" => \A t \in main : pr[t] = "merged"

\* "Returns True if the merge was completed and the suite is green": a ticket
\* whose PR is merged is on main.
MergedIsOnMain ==
    lead = "done" => \A t \in Tickets : pr[t] = "merged" => t \in main

\* "WIP left on the branch": what an escalated ticket's developer delivered
\* last is on its branch.
WorkInProgressKept ==
    lead = "done" => \A t \in Tickets :
        status[t] = "escalated" /\ (\E g \in Gates : cleared[t][g] = attempt[t])
            => attempt[t] \in branch[t]

\* "The review/scan surface: the files this ticket's developer produced": the
\* review that let a ticket pass was one of every file that reaches main.
MergedWasReviewed ==
    EnableReview => \A t \in Tickets :
        pr[t] = "merged" => branch[t] = {cleared[t]["review"]}

\* "every agent output is JSON validated [...] failures raise AgentOutputError,
\* which the orchestrator turns into a revision task": it never ends the run.
BadOutputIsRevised == outcome # "AgentOutputError"

\* "overflow escalates instead of burning retries": a context over its cap
\* never ends the run.
OverflowEscalates == outcome # "NameError"

\* An escalated ticket leaves no CODE artifact.
EscalatedHasNoCode ==
    lead = "done" => \A t \in Tickets : status[t] = "escalated" => ~ code[t]
=============================================================================
