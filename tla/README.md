# Formal models of pm_system

TLA+ specifications of the Project-manager repository (`src/pm_system`): a
multi-agent pipeline that takes a raw idea through scope, architecture, build,
release and operation.  Agents are LLM calls; everything around them (state
machine, artifact store, ticket workers and merges, budgets, gates, sandbox) is
ordinary concurrent Python, and that is what is modelled.  What an agent, a test
run, a scanner or a human answers is nondeterministic in every module.

Files: one module per component, `MC*.tla` with the values of small instances
where a `.cfg` cannot express them, one `.cfg` per run, `*Proofs.tla`
with the theorems, `PROJECT.json` with the index of runs,
mutants, source lines, findings, hazards and theorems.

    tlc -config TicketBuild.cfg MCTicketBuild.tla
    tlapm ArtifactStoreProofs.tla

## 1. Inventory of the system

| Component (source) | State it keeps | Operations | Meets | Hard behaviour | What makes it correct |
| --- | --- | --- | --- | --- | --- |
| Artifact store (`artifacts/store.py`) | versions and statuses in SQLite, a lock, one shared connection | `put`, `set_status`, `mark_stale`, `get`, `get_for_consumption` | every other component, ticket workers in parallel | multi-statement writes, unlocked readers, failing writes, crashes | versions are dense and only the newest is live; no update is lost; what was acknowledged stays; statuses move along `ALLOWED_TRANSITIONS` |
| Ticket build (`orchestrator.py` 1087-1406, `git_workspace.py`, `pr.py`) | worktrees, branches, main, pull requests, attempts | `_process_ticket`, `_run_ticket`, `_integrate_ticket`, `_resolve_merge_conflict` | store, ledger, sandbox | parallel workers, serialized merges, retries, exceptions of a worker and in the middle of an integration | only checked work reaches main; waves build on waves; every ticket settled once; an exception leaves one ticket in hand at most |
| Project run (`orchestrator.py` 319-1085, 1410-1564) | `ProjectResult`, artifact statuses, `_interventions` | `run_project` and its stages | all | gate rounds, exceptions at each stage, a second run on the same store | build and deploy what a human signed; report what happened |
| Change requests, incidents (`orchestrator.py` 366-745) | statuses, `_deployments` | `apply_change_request`, `_reship`, `handle_incident` | project run's artifacts, ticket build, deployer | partial failure in the middle, nested calls, restart | only the blast radius changes; refusals change nothing |
| Sprint plan (`validation.py` 125-220, `orchestrator.py` 987-1154) | the PLAN artifact | `validate_sprint_plan`, `_has_cycle`, `topological_order`, `_dependency_waves` | project run, ticket build | cycles, cross-sprint dependencies, malformed plans, pop order of a set | tickets and waves respect dependencies |
| Cost control (`costs/ledger.py`, `llm/client.py`) | `cost_entries` | `check_budget`, `record`, `MeteredLLM.complete` | every agent call | check-then-act across threads, charged requests that raise, failing writes and crashes before the record | overshoot is bounded; the ledger tracks the bill |
| Sandbox egress (`sandbox/runner.py`) | one docker network and one proxy per policy | `_ensure_allowlist_infra`, `run` | test runs of parallel workers and projects | unlocked inspect-then-create, shared containers | no half-built proxy is left; somebody gets through |
| Human gates (`gates/gate.py`) | a Slack thread per round | `request_approval` | project run | polling under a deadline, late replies, API errors | who answers in time is heard, in the right round |
| Documents and hand-offs (`orchestrator.py` 825-1085, 1232-1406, 1593-1678, `validation.py`, `agents/`, `security/scanners.py`) | the content of the stored documents, tickets, worktree files | `_produce` and its checks, `_derive_tickets`, `_ticket_dict`, `_security_step`, `_review_step`, the QA step | project run, ticket build, change requests | several agents in a row each of which reads what the one before wrote; a change in the middle; tickets of an earlier run | the approved scope is what is built, each ticket with its part of the design, tested against the criteria of now, its findings fixed or dismissed in writing |
| Knowledge Base (`kb/store.py`) | `kb_entries` in SQLite, a lock, one connection per process | `add`, `query` | project runs of one or several processes | count-based ids, transactions left open, locked files | entries stay under ids without a gap; one process never fails on its own |
| Multi-project runner (`orchestrator/multi.py`) | a thread pool, the results so far | `run_projects` | project runs, Knowledge Base | one project raises while others run | it ends, after all its projects, with the result of each or an exception |
| GitHub publisher, license checker, egress proxy, notifier, dashboard, evals | see `PROJECT.json` | | | | not modelled, section 7 |

Components interact by direct calls from the orchestrator; the store, the
ledger, the Knowledge Base and docker are the state that threads share.  There
are no message queues and no callbacks.

## 2. Modules

`ArtifactStatuses` holds the statuses and `ALLOWED_TRANSITIONS`.

**`ArtifactLifecycle`** (abstract) is what the store promises: `Publish` and
`Move` change one record per artifact atomically.
**`ArtifactStore`** is `store.py`.  `table` is what the shared connection sees
(the open transaction included), `disk` what is committed.  `ReadVersion` is
`Orchestrator._current_version` (outside the lock); `PutBegin`, `PutInsert`,
`PutCommit` are the UPDATE, the INSERT and the commit inside the lock;
`PutConflict` the optimistic check that fails; `SetStatusBegin/Commit` are
`set_status`; `WriteFails` an exception inside the lock, which nothing rolls
back; `Crash` the end of the process.  `ConsumptionRefused` is what an unlocked
`get_for_consumption` answers.

**`TicketBuild`** is one call of `_build_tickets`.  Each ticket has a worker
(`Open Dev Unit Security Review QA Accept`, one action per step of
`_run_ticket`), the lead thread joins a wave, integrates its tickets in order
(`MergeClean`, `MergeConflict`, `Resolution...`, `VerifyGreen/Red`) and goes on
(`NextWave`).  Every call of git, the agents' API, the sandbox, the store, the
publisher or the notifier may raise, and the budget may refuse an agent's call:
on a worker that is `Raise(t, "failure")` (and `OpenFails` before it has a PR);
on the lead thread the `...Fails` actions leave `_build_tickets` where it stands,
which `SettleFails` says step by step: before the PR is settled, before the
worktree is removed, or after both.  Only `AgentOutputError` and
`ContextOverflowError` are caught, where the code catches them.
**`SequentialBuild`** (abstract) is the same call as its caller
sees it, one ticket concluded after the other (`Conclude`), and the ways it ends
(`Complete`; `WorkerFails`, which leaves whole waves; `IntegrationFails`, which
may leave a wave in part, at a ticket that is not in the result); `Result` maps
the recorded tickets to it.  Code is abstracted to the set of attempts whose
files a worktree or branch holds, a base to the set of tickets it contains.
`cleared` records the last attempt each check let pass.  What left the call is
`outcome`.

**`ProjectRun`** is `run_project`: `Produce(s)` is one attempt of `_produce`
with every way it ends, `Gate(g)` one round, then `DeriveTickets`, `Build`
(TicketBuild from outside: a number of escalated tickets, a budget error or a
crash), `Integration`, `Deploy`, `Retro`.

**`ChangeRequests`** starts from every state `_ship` can leave and runs
`apply_change_request` and `handle_incident` step by step; a re-run ticket
(`Rerun`) passes, escalates or raises; `Raises` is an exception nobody catches,
`Restart` a new process with no `_deployments`.

**`SprintPlan`** enumerates plans in `Init` and runs Kahn's loop with any pop
order, the verdict of `validate_sprint_plan` (`Acceptable`), the rounds of
`topological_order` per sprint, and the level function of `_dependency_waves`.
`Kept` is Python's list comprehension with an `if`, written as a choice of the
subsequence so that it can be reasoned about; an ASSUME of `MCSprintPlan`
compares it with `SelectSeq` on every short sequence.

**`MeteredCalls`** is `MeteredLLM.complete` per worker: two unlocked reads, the
call, the record.  `spend` and `total` are what the shared connection sees (the
open transaction included), `kept` and `keptTotal` what is committed to the
file.  `AnswerLost` is a request that was charged and raises or is sent again by
the client, `RecordFails` an INSERT or a commit that raises: the answer does not
reach the agent, and its row is missing or stays in the open transaction until
the next commit, which may be that of another project (`OtherProject`).  `Crash`
ends the process and with it the answers not recorded and the rows not
committed; it is about a ledger on a file, the in-memory default goes with its
process.

**`SandboxEgress`** has one action per docker command of
`_ensure_allowlist_infra`.  `docker network create`, `run --name` and
`network connect` fail where what they make exists already or what they need is
gone, as the docker daemon does.

**`SlackGate`** is `request_approval` with a discrete clock: `Post`, `Fetch`,
`Wake` are the calls and the sleep of the loop, each late by at most `Latency`;
`Reply` is a human; the round loop around it is the orchestrator's.

The names of `SandboxEgress` and `SlackGate` that every specification has carry
a prefix (`EgressInit`, `GateSpec`), as each shares a module of theorems with
another specification.

**`Portfolio`** is `run_projects` in each of several processes and the Knowledge
Base file they share.  A job plans (`Query`), builds, mines (`Mine`) and adds
its entries (`Count`, `Insert`, `Commit`, under the `mutex` of its process);
`Collect` and `Leave` are the loop over the futures and the exit of the pool's
`with`.  The SQLite file locks (`conn[p].lock`) are external: their
rules were read off experiments with Python's `sqlite3` in its default
transaction mode.  `QueryLocked`, `CountLocked`, `InsertLocked`,
`InsertDuplicate` and `CommitLocked` are the exceptions a statement can raise,
and what each of them leaves behind in the connection.

**`DocumentChecks`** has the content checks of `validation.py` as predicates on
documents reduced to ids and references; **`Handoffs`** chains them: one action
per accepted document (`StagePrd` ... `ProduceUi`), the gates, `DeriveTickets`,
the steps of a ticket (`Develop`, `SecurityStep`, `Review`, `QaFails`,
`QaPasses`) with the flaws in the files of its worktree, and `ChangeRequest`
with `RederiveTicket`, which builds a ticket from the item, story and
architecture of now.  Rejected outputs and retries are counted in `ProjectRun`
and `TicketBuild`, not here; tickets are built one at a time.

Each module has mutants beside the definitions they vary (a dropped guard, an
off-by-one, a missing step); they are not part of `Next` and exist to show
that every property fails when the code is wrong in that way.

## 3. Runs that pass

| Run | Bounds | What it shows |
| --- | --- | --- |
| `ArtifactStore.cfg` | 2 threads, 2 artifacts, 2 versions, failing writes, crashes, symmetric | `OnlyLatestLive`, `NoLostUpdate`, `AckedDurable` hold however writes fail; the store implements `ArtifactLifecycle`, which promises nothing once a write has failed |
| `TicketBuild.cfg` | 3 tickets, waves {1,2} {3}, 2 retries, all gates, exceptions of every call, fair | `MergedWasChecked`, `BuiltOnEarlierWaves`, `SettledOrInHand`, `InterventionPerEscalation`; the parallel build implements `SequentialBuild`; it ends |
| `MeteredCalls.cfg` | 2 workers, 3 stages (one capped at 3, one at 0, one free), project cap 5, cost 1-2, 1 charged request that raises, 1 crash | overshoot of a stage and of the project is below one call per worker; the ledger tracks the bill |
| `ProjectRun.cfg` | all gates and stages, 2 retries, 2 tickets, 2 runs, fair | `BuiltFromSignedPlan`, `DeployedWasSigned`, `CompletedMeansShipped`; no status change is refused by the store; runs end |
| `ChangeRequests.cfg` | 3 tickets of 2 stories, a third story without one, 2 calls | `OnlyBlastRadiusTouched`, `RefusedChangesNothing`, `AcceptedIsRenewed`, `AcceptedIsDeployed` |
| `SprintPlan.cfg` | every plan of 3 items over 2 sprints with up to 3 dependencies, repeated and missing items included | cycle verdict, ticket order, waves, termination |
| `SandboxEgress.cfg` | 3 runs, failing commands, dying proxy | until something fails of its own: `HalfBuiltHasBuilder`, `OneGetsThrough` |
| `SlackGate.cfg` | 2 rounds, timeout 4, poll 2, lateness 1, 2 replies in all | the first word of the round's own thread decides, who decides a poll before the deadline is heard, the loop ends |
| `Portfolio.cfg` | 3 processes, one with 2 projects on 2 threads, two with 1 project, 1 entry each, a process ending at any time, fair | `EntriesKept`, `AloneNeverFails`, `OverWhenAllEnded`; `run_projects` ends |
| `Handoffs.cfg` | 2 stories, 2 criteria, 1-2 WBS items, sound and unsound outputs of every agent, a flaw of each kind, 3 tickets of an earlier run, 1 change request | `ScopeIsTicketed`, `SlicesFit`, `CurrentCriteriaTested`, `DismissedInWriting` |

The type invariants of the modules whose run does not list one were checked by
adding `TypeOK` to its INVARIANTS.

Why the bounds are enough to be interesting: two threads already interleave a
read with another's put, and a second artifact lets an unrelated commit finish
a failed write; two tickets in a wave conflict and one in the next wave depends
on both; two attempts leave files of the first to the second; two runs meet the
statuses the first one left; three items make a cycle longer than two and a
dependency that two sprints separate; three sandbox runs let one remove the
proxy a second built while a third looks at it; two rounds and two replies make
a late answer to an earlier round's message and a change of mind; two threads
of one process and the threads of two more add entries next to each other and
against each other (two processes to bar each other, a third that can no longer
read); two items let the plan turn their order around and a story have two
tickets; an earlier run with three tickets leaves one or two behind.  Named bounds
are `MaxVersion`, `MaxCost`, `MaxFailures`, `MaxCrashes`, `NumTickets`, `MaxRuns`, `MaxCalls`,
`MaxPerSprint`, `MaxDeps`, `MaxReplies`, `Latest`, `MaxEntries`, `MaxExits`
and `MaxChanges`.

The constants also describe configurations no run instantiates: `ProjectRun`
with its gates, design, ship path or Knowledge Base off, `TicketBuild` without
security or review, `SprintPlan` with unknown ids and sprints numbered out of
order (both of which `Acceptable` refuses at once).

Deadlock checking is off where the program stops (a build, run, call, plan,
batch or sandboxed command that is over, workers out of budget); the store's
runs keep it on.

## 4. Fairness

- `TicketBuild`: worker threads of the pool and the lead thread keep running;
  agent, test and git calls have timeouts or return.
- `ProjectRun`: the calling thread keeps running.  Which way a step goes is
  never constrained: an agent may fail for ever.
- `SprintPlan`: weak fairness of `Next`; the code is sequential.
- `SlackGate`: time passes and the program's own calls are made; nothing is
  assumed of the human.

- `Portfolio`: the threads of a process that lives keep running; a statement that
  waits for a lock of the file gives up in the end (the timeout of
  `sqlite3.connect`), and never has to get through.

`ArtifactStore`, `MeteredCalls`, `ChangeRequests`, `Handoffs` and `SandboxEgress` state safety only and
assume no fairness.

## 5. Where documents and code part

Each module ends with the sentences of documents, comments or tests that its
model of the code does not satisfy, as definitions.  Two have a run that keeps
the counterexample, with the quotes under `findings` in `PROJECT.json`:

- `ArtifactStoreFailedWrite.cfg`: a put that fails between UPDATE and INSERT
  leaves an open transaction, the next commit of any thread makes it durable,
  and the artifact has only superseded versions.
- `TicketBuild_MainHoldsMergedOnly.cfg`: a conflict resolution is committed to
  main before its tests run; when they are red, main keeps the code of a ticket
  that escalates.

TLC finds a counterexample to each of the others when it is put in place of the
INVARIANTS of the module's configuration:

| Module | Definition | What the code does |
| --- | --- | --- |
| `ArtifactStore` | `RefusedOnlyWhenStale` | unlocked readers see a put half done and refuse an artifact that was never stale |
| `TicketBuild` | `MergedIsOnMain` | a `git merge` that does not start (an earlier test run left an untracked file in the main checkout that the branch also has) fails like a conflict, without unmerged paths; `complete_merge` makes an ordinary commit of what lies in the checkout, and with a green suite a pull request is marked merged whose branch is not on main |
| | `WorkInProgressKept` | an escalated worktree is removed with work no commit holds |
| | `MergedWasReviewed` | files of an earlier, failed attempt are merged unreviewed |
| | `BadOutputIsRevised` | invalid output of the security agent blocks the change instead of asking for a revision |
| | `OverflowEscalates` | a context overflow in the security stage raises `NameError` |
| | `EscalatedHasNoCode` | CODE is recorded before the integration that can still escalate |
| `MeteredCalls` | `NextRequestRefused` | with parallel workers the request after the one that crosses a cap is sent all the same |
| `ProjectRun` | `EscalationsAreInterventions` | an escalated stage is no intervention |
| | `KBEntriesReported` | Knowledge Base entries go unreported when the retrospective fails half-way |
| `ChangeRequests` | `AcceptedLeavesNothingStale` | an accepted change leaves stale artifacts no later step renews |
| | `WasShippedMeansShipped` | a drafted release counts as shipped |
| | `DeployedWasSigned` | a patch release is deployed without Gate 3 |
| | `GatesAreInterventions` | a rollback confirmation is not counted |
| | `TicketedMeansAccepted` | a refused fix is reported as ticketed |
| `SandboxEgress` | `TaskHasRoute` | a proxy is used before it is connected |
| `SlackGate` | `ReplyBeforeDeadlineCounts` | replies of the last poll interval are not read |
| `Portfolio` | `ResultsReturned` | a project that raises discards the results of those that returned |
| | `IdleDoesNotBlock` | a process whose write failed keeps its lock on the file while it adds nothing |
| | `NoStandoff` | after two failed writes neither process can write any more |
| | `NoUnknownEntry` | the row of an add that raised is committed by a later one |
| `Handoffs` | `DesignSurvivesChange` | a ticket re-run for a change request has no UI design |
| | `PrdStaysValid` | criteria of a change request enter the PRD unchecked |
| | `CommittedWasScanned` | files of the QA agent are merged without the scan and the review |
| | `OnlyPlannedRerun` | a change request re-runs tickets of an earlier, longer run, or raises where their item is gone |

## 6. What is proved

Each theorem holds for every value of the constants, from the module's named
ASSUME (last column), which says no more than the types and the configuration
of the code.  None of the properties is inductive by itself; every specification
has one inductive invariant (`IInv`; `EgressIInv`, `PlanIInv` and `GateIInv` where a
module of theorems is about two), a lemma per action that it keeps it, and the
properties as consequences.  Every invariant and every action property that a
passing run checks is a theorem.

| Module | Theorems | What the invariant adds | Assumes |
| --- | --- | --- | --- |
| `ArtifactStoreProofs` | `StoreTypeOK`, `StoreOnlyLatestLive`, `StoreNoLostUpdate`, `StoreAckedDurable`, `StoreRefinesLifecycle`, `StoreLatestNotSuperseded` | the lock is held exactly by the thread inside a write (`LockHeld`); what a put under way may rely on (`PutUnderWay`); what is committed keeps its author (`Kept`), what is acknowledged is committed (`Durable`); for the refinement, how far the open transaction may be ahead of the disk while writes are sound (`RInv`) | `StoreAssumption` |
| `TicketBuildProofs` | `TicketTypeOK`, `TicketMergedWasChecked`, `TicketBuiltOnEarlierWaves`, `TicketInterventions`, `TicketSettledOrInHand`, `TicketSettledForGood`, `TicketImplementsSequential`, `TicketRunsOut`, `TicketNeverStuck` | the checks the current attempt has behind it at each step of a worker (`Pipeline`, `Standing`); which tickets the lead thread is done with (`Schedule`), that their PRs are settled and of the others only that of the ticket an exception left in hand (`Settled`), that main holds what was integrated and at most that ticket (`MainSound`); for the refinement, that an error has a cause and a conflict a ticket (`Ending`), and for the progress that it is the ticket whose turn it is (`TurnTaken`) | `BuildAssumption` |
| `ProjectRunProofs` | `RunTypeOK`, `RunBuiltFromSignedPlan`, `RunDeployedWasSigned`, `RunCompletedMeansShipped`, `RunNoIllegalTransition`, `RunRunsOut` | per stage: which artifacts are drafts, which are signed, what the ship path has behind it, how the outcome stands; it holds across runs, wherever the last one ended | `RunAssumption` |
| `ChangeRequestsProofs` | `ChangeTypeOK`, `ChangeTouchesOnlyItsBlastRadius`, `ChangeRefusedChangesNothing`, `ChangeAcceptedIsRenewed`, `ChangeAcceptedIsDeployed` | how far the blast radius is made again at each step, that a refused request has written nothing yet, and which tickets remain to be run, under the calls `handle_incident` nests | `ChangeAssumption` |
| `HandoffsProofs` | `HandoffsCurrentCriteriaTested`, `HandoffsScopeIsTicketed`, `HandoffsSlicesFit`, `HandoffsDismissedInWriting` | each document agrees with those before it, also after a gate sent the run back and a change request amended the PRD (`Chain`); tickets agree with plan and architecture (`TicketsFit`); the ticket being built has the criteria of now (`Current`), a passed one was tested for them (`Tested`); from the review on the worktree was scanned (`Scanned`) | `HandoffsAssumption` |
| `SharedResourceProofs`, of `MeteredCalls` | `MeteredTypeOK`, `MeteredStageOvershoot`, `MeteredProjectOvershoot`, `MeteredLedger` | what is spent, plus a call for each worker past its check, stays below the cap plus a call per worker (`StageHeadroom`, `ProjectHeadroom`); the bill is what is committed, in flight or lost, with the rows that wait for a commit among what is lost (`Bill`, `OpenRows`) | `CapAssumption` |
| of `SandboxEgress` | `EgressTypes`, `EgressHalfBuilt`, `EgressOneGetsThrough` | for every state of the proxy, which run is left that the others cannot make fail | `EgressAssumption` |
| `PlanningProofs`, of `SprintPlan` | `PlanIsTyped`, `PlanCycleVerdict`, `PlanDependencyOrder`, `PlanWaves`, `PlanRunsOut` | `incoming` is at each step what is left of the blockers after the processed items, and nobody in a knot of items that wait for each other is processed (`KahnLoop`); what acceptance says of the plan, in a form without sums and sequences of sequences (`Accepted`); each item of the sprint being sorted is ordered or remaining, once, and what it depends on comes before it (`Sorting`, `Grounded`); the tickets are those of the sprints before it (`Ticketed`) | `PlanAssumption` |
| of `SlackGate` | `GateTypes`, `GateFirstWordDecides`, `GateInTimeIsHeard`, `GateBounded` | how late each call can be, counted from the latest time its round can begin (`OnTime`); only rounds that are over have an answer, and no timeout comes early (`AnsweredInTurn`); while the loop sleeps, whoever decided did so after the last poll (`SleptThrough`) | `GateAssumption` |
| `PortfolioProofs` | `PortfolioTypeOK`, `PortfolioEntriesKept`, `PortfolioAloneNeverFails`, `PortfolioOverWhenAllEnded`, `PortfolioRunsOut`, `PortfolioNeverStuck` | the mutex inside a process (`Inside`), SQLite's locks between them (`OneWriter`, `Uncommitted`), ids without a gap (`Dense`), who may have made a count stale (`Footprint`, `Fresh`), the futures collected (`Collected`), for the progress that a killed job had its process end (`KilledWithProcess`) | `PortfolioAssumption` |

Two of the results are refinements.  Every step of `ArtifactStore` is a step of
`ArtifactLifecycle` or a stutter, without an assumption on failing writes: the
abstract `broken` is `writes = "failed"`.  `StoreLatestNotSuperseded` says that
until a write fails the newest version is not a superseded one, for callers
that never ask for `superseded`, which holds of every caller in `src/`; that it
fails after a failed write is what `ArtifactStoreFailedWrite.cfg` shows.  Every
step of `TicketBuild` is a step of `SequentialBuild` or a stutter: only the end
of a ticket's integration and the end of the build are seen by the caller, and
by the invariant the ticket whose turn it is, is the first that is open.  An
exception on the lead thread (`FailureStops`, `LeaveKeeps`) adds nothing to the
result and changes no ticket in it, whatever it leaves of the one in hand.
`TicketSettledForGood` adds, of every step inside, that main loses nothing and no
settled PR moves.

`EgressHalfBuilt` and `EgressOneGetsThrough` hold as long as commands only fail
for what other runs did (`~ faulted`).  The lemmas of `SharedResourceProofs` sum
costs by any function that adds them up, and those of `HandoffsProofs` look
documents up by position, so that neither needs recursion.  The hypotheses of
`HandoffsAssumption` on `Prds` and `Plans` are the schemas of the agents'
outputs.

The prover has no induction over an operator, but it has the least element of a
set of naturals (`WFMin` with `NatLessThanWellFounded`).  `PlanCycleVerdict`,
`PlanDependencyOrder` and `PlanWaves` argue with it: of the items the loop would
leave out, of the tickets that come too early, of the tickets for which the
recursion of `_dependency_waves` has no value, take the first.  The recursion
follows dependencies only to tickets that come earlier, which is
`PlanDependencyOrder`; so it has a value for every ticket, the same whatever
tickets it has `seen` on the way, and the value is above those of the ticket's
dependencies.

Seven theorems are about progress.  They are the part of the liveness properties
that is not fairness:

- the steps run out (`TicketRunsOut`, `RunRunsOut`, `PortfolioRunsOut`,
  `PlanRunsOut`; for the gate, `GateBounded`).  Each names natural numbers, one
  per thread where there are several, of which a step lowers that of its own
  thread and raises none, and proves it for all retries, rejected rounds,
  conflicts, locked files and processes that end: no loop of the code turns
  without using up one of its bounds.  In `RunRunsOut` the attempts count below
  what the run has ahead of it, as each stage starts them again.
- nothing stands still before it is over (`TicketNeverStuck`, `PortfolioNeverStuck`):
  in every reachable state the guard of some step of the build, or of the
  process whose batch is not over, holds.  The guards are written out in
  `NeverStuck`, as ENABLED is out of the prover's reach.  In `ProjectRun`,
  `SprintPlan` and `SlackGate` there is one thread, whose guards are its program
  counter.

TLC finds every one of these invariants to hold on the instance of its module's
run, but for two parts it cannot evaluate, as they quantify over an infinite
set: `Bill` of `SharedResourceProofs` and `Dense` of `PortfolioProofs`.  It finds
the `RunsOut` and `NeverStuck` of `TicketBuildProofs`, `ProjectRunProofs` and
`PortfolioProofs` to hold there as well.

Only model-checked:

- all liveness (`Terminates`, `RequestsEnd`, `PlanSettles`, `BatchEnds`): fairness
  and ENABLED are out of the prover's reach.  What they rest on besides is
  proved, as above;
- `Handoffs!TypeOK`: the queue of a change request is sorted by a recursive
  operator of the community modules.  The proved invariant does without it;
- that the `Kept` of `SprintPlan` is `SelectSeq`, on short sequences.

## 7. Not modelled

The prompts and playbooks of the agents and the parsing of their answers, the
patterns of the scanners and the license table (pure functions of text), the
egress proxy's host matching and relaying (I/O), the GitHub publisher (not wired
to a push), notifier, dashboard, digest and evals (presentation and offline
scoring).  Of the checks in `validation.py`, those of migrations, pipeline files
and docs: one pass over one document that no later stage reads.

Abstractions inside the modules: in all but `Handoffs` the contents of
artifacts, files and prompts; there the text behind ids and references; prices
(whole units); the text of verdicts; the calibration arithmetic of the Knowledge
Base; the pagination of Slack replies; docker image pulls.  `TicketBuild` starts
with no branches of earlier builds and never has its process end; its
intervention counter is incremented in one step, as the code does under its
lock.  `Handoffs` leaves out a change request to a
project whose run ended before it had tickets, and tickets of a wave in
parallel: each is built from its own ticket in its own worktree, and what the
merges of a wave do to one another is `TicketBuild`; the files that the
resolution of a conflict writes, which nothing scans, are therefore not in it.

Smaller differences, none of which a property depends on:

- `ProjectRun`: exceptions of the deployer, of a gate, of the runner in the
  integration stage and of the store end a run in the code; the model has those
  of the agents, the Knowledge Base and the build.
- `ChangeRequests`: `deploy` and the entry in `_deployments` are one step, and no
  exception parts the `put` of a release from its `set_status`; the walk over
  the blast radius is not ended by the process but by the missing DOCS only.
- `SlackGate`: what the agents do between two rounds counts as lateness of the
  next post.
- `Portfolio`: a retrospective raises for the Knowledge Base only.
- `Handoffs`: the tests of an earlier attempt leave the worktree with it, in the
  code they stay (they are exempt from `DismissedInWriting`); the security step
  is always on.
- `SprintPlan`: the levels of `_dependency_waves` are not memoised, which gives
  the same values on accepted plans; milestones are not checked, so that
  `Acceptable` admits every plan the code does and more.

## 8. Plan

1. A composition of `ChangeRequests` with the branches an earlier build kept
   (`create_worktree` resets them), over `SequentialBuild` instead of the whole
   of `TicketBuild`.
2. The GitHub publisher, once it is wired to a push.
