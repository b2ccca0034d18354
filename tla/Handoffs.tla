------------------------------ MODULE Handoffs ------------------------------
(***************************************************************************)
(* What one agent hands to the next, and the checks in between: the stages *)
(* of Orchestrator.run_project from the PRD to the tickets, the steps of   *)
(* _run_ticket (developer, security scan and triage, review, QA) and the   *)
(* tickets that apply_change_request derives anew, with the content of the *)
(* documents.  ProjectRun, TicketBuild and ChangeRequests have the same    *)
(* code with the documents left out.                                       *)
(*                                                                         *)
(* An output that a check rejects is asked for again: no step here.  How   *)
(* often (max_retries) is left open, Escalate and Abandon may come at any  *)
(* point; tickets are built one after the other (parallel_tickets is off), *)
(* so that the merge of a passed ticket meets no conflict.                 *)
(***************************************************************************)
EXTENDS DocumentChecks, FiniteSets, FiniteSetsExt

CONSTANTS
    Prds, Backlogs, Wbss, Plans, Archs, Uxs, Uis, \* outputs the agents may give
    Criteria,        \* ids of acceptance criteria
    ChangedCriteria, \* sets of them that a change request may carry
    Flaws,           \* what scanners look for in the files of a worktree
    QaFlaws,         \* those in the files that the QA agent writes
    Blocking,        \* those of at least the severity that blocks
    BuiltIn,         \* those the built-in scanner recognizes
    CliScanners,     \* sets of those that a command line tool recognizes
    EnableDesign,    \* OrchestratorConfig.enable_design
    Earlier,         \* tickets that an earlier run of the project id left
    MaxChanges       \* bound: change requests

ASSUME HandoffsAssumption ==
    /\ QaFlaws \cup Blocking \cup BuiltIn \cup UNION CliScanners \subseteq Flaws
    /\ UNION ChangedCriteria \subseteq Criteria
    /\ EnableDesign \in BOOLEAN
    /\ DOMAIN Earlier \subseteq Nat
    /\ Prds \subseteq Seq([id : STRING, acs : SUBSET Criteria])
    /\ Plans \subseteq Seq(STRING)
    /\ IsFiniteSet(Flaws)
    /\ MaxChanges \in Nat

None == "none"

VARIABLES
    stage,    \* what the run does next; "rest" between calls
    docs,     \* the stored documents, by kind
    tickets,  \* number -> content of the ticket artifact
    builds,   \* number -> what came of the ticket: criteria tested, flaws
              \* committed that the triage did not dismiss
    queue,    \* tickets still to be built
    work,     \* the ticket being built: step, worktree, dismissed findings
    main,     \* flaws of the files on main
    changing, \* is the current call apply_change_request?
    changes   \* change requests so far

ticketing == <<tickets, builds, queue, work, main, changing, changes>>
vars == <<stage, docs, ticketing>>

Waiting == [step |-> None, tree |-> {}, dismissed |-> {}]
Unbuilt(at) == [at |-> at, tested |-> {}, open |-> {}]

TypeOK ==
    /\ stage \in {"prd", "backlog", "wbs", "plan", "gate1", "arch", "gate2",
                  "ux", "ui", "derive", "build", "rest", "over"}
    /\ DOMAIN tickets = DOMAIN builds
    /\ ToSet(queue) \subseteq DOMAIN tickets
    /\ \A t \in DOMAIN tickets : tickets[t].acs \subseteq Criteria
    /\ \A t \in DOMAIN builds :
         /\ builds[t].at \in {"earlier", "todo", "stale", "passed", "escalated"}
         /\ builds[t].tested \subseteq Criteria
         /\ builds[t].open \subseteq Flaws
    /\ work.step \in {None, "derive", "dev", "security", "review", "qa"}
    /\ work.dismissed \subseteq work.tree /\ work.tree \subseteq Flaws
    /\ main \subseteq Flaws
    /\ changing \in BOOLEAN /\ changes \in 0..MaxChanges

Init ==
    /\ stage = "prd"
    /\ docs = [prd |-> None, backlog |-> None, wbs |-> None, plan |-> None,
               arch |-> None, ux |-> None, ui |-> None]
    /\ tickets = Earlier
    /\ builds = [t \in DOMAIN Earlier |-> Unbuilt("earlier")]
    /\ queue = <<>> /\ work = Waiting /\ main = {}
    /\ changing = FALSE /\ changes = 0

(***************************************************************************)
(* From the idea to the tickets.                                           *)
(***************************************************************************)
Written(kind, output, next) ==
    /\ docs' = [docs EXCEPT ![kind] = output]
    /\ stage' = next
    /\ UNCHANGED ticketing

StoryIds == Listed(docs.prd, "id")
MvpIds == ToSet(docs.backlog.mvp)
FlowIds == Listed(docs.ux, "id")

StagePrd ==
    /\ stage = "prd"
    /\ \E out \in Prds : PrdAccepted(out) /\ Written("prd", out, "backlog")

ProduceBacklog ==
    /\ stage = "backlog"
    /\ \E out \in Backlogs :
         BacklogAccepted(out, StoryIds) /\ Written("backlog", out, "wbs")

ProduceWbs ==
    /\ stage = "wbs"
    /\ \E out \in Wbss : WbsAccepted(out, MvpIds) /\ Written("wbs", out, "plan")

ProducePlan ==
    /\ stage = "plan"
    /\ \E out \in Plans :
         PlanAccepted(out, docs.wbs.items) /\ Written("plan", out, "gate1")

ProduceArch ==
    /\ stage = "arch"
    /\ \E out \in Archs : ArchAccepted(out, MvpIds) /\ Written("arch", out, "gate2")

\* A rejection at a gate starts the stage again, with the comments.
Gate(at, redo, next) ==
    /\ stage = at
    /\ stage' \in {redo, next}
    /\ UNCHANGED <<docs, ticketing>>

Gate1 == Gate("gate1", "backlog", "arch")
Gate2 == Gate("gate2", "arch", IF EnableDesign THEN "ux" ELSE "derive")

ProduceUx ==
    /\ stage = "ux"
    /\ \E out \in Uxs : UxAccepted(out, MvpIds) /\ Written("ux", out, "ui")

ProduceUi ==
    /\ stage = "ui"
    /\ \E out \in Uis : UiAccepted(out, FlowIds) /\ Written("ui", out, "derive")

\* Orchestrator._ticket_dict; WBS and stories are looked up by id.
Item(id) == CHOOSE w \in ToSet(docs.wbs.items) : w.id = id
Story(prd, id) == CHOOSE s \in ToSet(prd) : s.id = id

DesignFor(story) ==
    IF ~ EnableDesign THEN {}
    ELSE LET flows == {f.id : f \in {g \in ToSet(docs.ux) : story \in g.stories}}
         IN  {c.name : c \in {d \in ToSet(docs.ui.components) :
                                d.flows \cap flows # {}}}

TicketDict(item, story, design) ==
    [item |-> item, story |-> story.id, acs |-> story.acs,
     components |-> {c.name : c \in {d \in ToSet(docs.arch) :
                                       story.id \in d.stories}},
     design |-> design]

\* Every new entry under its number, over the one an earlier run left there.
Upserted(new, old) ==
    [t \in DOMAIN new \cup DOMAIN old |->
        IF t \in DOMAIN new THEN new[t] ELSE old[t]]

\* _derive_tickets: TCK-001, ... in the order of the plan.  A ticket of an
\* earlier run is overwritten where the number is used again, and stays where not.
DeriveTickets ==
    /\ stage = "derive"
    /\ LET made == [i \in DOMAIN docs.plan |->
                      LET s == Story(docs.prd, Item(docs.plan[i]).story)
                      IN  TicketDict(docs.plan[i], s, DesignFor(s.id))]
       IN  /\ tickets' = Upserted(made, tickets)
           /\ builds' = Upserted([i \in DOMAIN made |-> Unbuilt("todo")], builds)
           /\ queue' = [i \in DOMAIN made |-> i]
    /\ stage' = "build"
    /\ UNCHANGED <<docs, work, main, changing, changes>>

(***************************************************************************)
(* One ticket: Orchestrator._process_ticket, _run_ticket and, for a ticket *)
(* that passed, the merge.                                                 *)
(***************************************************************************)
t0 == Head(queue)

StartTicket ==
    /\ stage = "build" /\ queue # <<>> /\ work.step = None /\ ~ changing
    /\ work' = [Waiting EXCEPT !.step = "dev", !.tree = main]
    /\ UNCHANGED <<stage, docs, tickets, builds, queue, main, changing, changes>>

To(step, tree, dismissed) ==
    /\ work' = [step |-> step, tree |-> tree, dismissed |-> dismissed]
    /\ UNCHANGED <<stage, docs, tickets, builds, queue, main, changing, changes>>

At(step) == stage = "build" /\ work.step = step

DevOutputs == [ticket : DOMAIN tickets, safe : BOOLEAN, tested : BOOLEAN,
               twice : BOOLEAN, flaws : SUBSET (Flaws \ QaFlaws)]

\* The files replace those of the same path; an accepted output whose unit
\* tests fail stays in the worktree too.
Develop ==
    /\ At("dev")
    /\ \E out \in DevOutputs, kept \in SUBSET work.tree, next \in {"security", "dev"} :
         /\ DevAccepted(out, t0)
         /\ To(next, kept \cup out.flaws, {})

\* SecurityScanSuite.scan: a command line tool that is not installed, or
\* whose report cannot be read, has found nothing.
Findings(tools) == work.tree \cap (BuiltIn \cup UNION tools)

Triages ==
    LET entries == [finding : Flaws, status : {"confirmed", "false_positive"},
                    reason : BOOLEAN]
    IN  {SetToSeq(s) : s \in UNION {kSubset(n, entries) : n \in 0..Cardinality(Flaws)}}

Triaged(triage, status) ==
    {e.finding : e \in {d \in ToSet(triage) : d.status = status}}

\* _security_step: nothing found, no model call.  The caller goes back to the
\* developer where the triage is invalid or leaves a blocking finding.
SecurityStep ==
    /\ At("security")
    /\ \E tools \in SUBSET CliScanners :
         LET found == Findings(tools) IN
         \/ found = {} /\ To("review", work.tree, {})
         \/ /\ found # {}
            /\ \E triage \in Triages :
                 IF /\ TriageAccepted(triage, found)
                    /\ Triaged(triage, "confirmed") \cap Blocking = {}
                 THEN To("review", work.tree, Triaged(triage, "false_positive"))
                 ELSE To("dev", work.tree, {})

Reviews == [verdict : {"approve", "block"},
            worst : {None, "minor", "major", "blocker"}]

Review ==
    /\ At("review")
    /\ \E review \in Reviews :
         IF ReviewAccepted(review) /\ review.verdict = "approve"
         THEN To("qa", work.tree, work.dismissed)
         ELSE To("dev", work.tree, {})

QaOutputs == [ticket : DOMAIN tickets, plan : SUBSET Criteria \ {{}}, safe : BOOLEAN,
              flaws : SUBSET QaFlaws]

\* The QA tests are written after the scan and the review.  An invalid output
\* or a failing test costs an attempt.
QaFails ==
    /\ At("qa")
    /\ \E out \in QaOutputs :
         IF QaAccepted(out, t0, tickets[t0].acs)
         THEN To("dev", (work.tree \ QaFlaws) \cup out.flaws, {})
         ELSE To("dev", work.tree, {})

\* The current ticket is over; main gets its files where it passed.
Close(build, files) ==
    /\ builds' = [builds EXCEPT ![t0] = build]
    /\ main' = files
    /\ queue' = Tail(queue) /\ work' = Waiting
    /\ stage' = IF Tail(queue) = <<>> THEN "rest" ELSE stage
    /\ changing' = (changing /\ Tail(queue) # <<>>)
    /\ UNCHANGED <<docs, tickets, changes>>

QaPasses ==
    /\ At("qa")
    /\ \E out \in QaOutputs :
         LET files == (work.tree \ QaFlaws) \cup out.flaws IN
         /\ QaAccepted(out, t0, tickets[t0].acs)
         /\ Close([at |-> "passed", tested |-> out.plan,
                   open |-> files \ work.dismissed], files)

\* _escalate_ticket after the last attempt or a context that is too long.
Escalate == At("dev") /\ Close(Unbuilt("escalated"), main)

\* An exception that nothing catches (budget, a triage that is no JSON, ...)
\* ends the call; the stages before the tickets leave nothing to change.
Abandon ==
    /\ stage \notin {"rest", "over"}
    /\ stage' = IF stage = "build" THEN "rest" ELSE "over"
    /\ queue' = <<>> /\ work' = Waiting /\ changing' = FALSE
    /\ UNCHANGED <<docs, tickets, builds, main, changes>>

(***************************************************************************)
(* A change request that the product owner (and Gate 1) accepted.          *)
(***************************************************************************)
Affected(story) == {t \in DOMAIN tickets : tickets[t].story = story}

AmendedPrd(story, acs) ==
    [i \in DOMAIN docs.prd |->
       IF docs.prd[i].id = story THEN [docs.prd[i] EXCEPT !.acs = acs]
                                 ELSE docs.prd[i]]

\* Without new criteria the PRD stays.  The new ones pass no check.
ChangeRequest ==
    /\ stage = "rest" /\ changes < MaxChanges
    /\ \E story \in {tickets[t].story : t \in DOMAIN tickets} :
         /\ \E prd \in {docs.prd} \cup {AmendedPrd(story, acs) : acs \in ChangedCriteria} :
              docs' = [docs EXCEPT !.prd = prd]
         /\ builds' = [t \in DOMAIN builds |->
                         IF t \in Affected(story) THEN Unbuilt("stale") ELSE builds[t]]
         /\ queue' = SetToSortSeq(Affected(story), <)
    /\ stage' = "build" /\ changing' = TRUE /\ changes' = changes + 1
    /\ UNCHANGED <<tickets, work, main>>

Known(t) == /\ tickets[t].item \in Listed(docs.wbs.items, "id")
            /\ tickets[t].story \in StoryIds

\* Mutant: with the criteria from before the change.
RenewedFromOld(t) == [tickets[t] EXCEPT !.design = {}]

\* The ticket as derived anew: from its item and story of now, no design.
Renewed(t) == TicketDict(tickets[t].item, Story(docs.prd, tickets[t].story), {})

\* A ticket of an earlier run may name an item or a story that is gone: the
\* lookup raises, and the affected tickets after it are not built.
RederiveTicket ==
    /\ stage = "build" /\ changing /\ queue # <<>> /\ work.step = None
    /\ IF Known(t0)
       THEN /\ tickets' = [tickets EXCEPT ![t0] = Renewed(t0)]
            /\ work' = [Waiting EXCEPT !.step = "dev", !.tree = main]
            /\ UNCHANGED <<stage, queue, changing>>
       ELSE /\ stage' = "rest" /\ queue' = <<>> /\ changing' = FALSE
            /\ UNCHANGED <<tickets, work>>
    /\ UNCHANGED <<docs, builds, main, changes>>

Planning == \/ StagePrd \/ ProduceBacklog \/ ProduceWbs \/ ProducePlan
            \/ ProduceArch \/ Gate1 \/ Gate2 \/ ProduceUx \/ ProduceUi
            \/ DeriveTickets

Building == \/ StartTicket \/ Develop \/ SecurityStep \/ Review
            \/ QaFails \/ QaPasses \/ Escalate

Next == Planning \/ Building \/ Abandon \/ ChangeRequest \/ RederiveTicket

Spec == Init /\ [][Next]_vars

(***************************************************************************)
(* Properties.                                                             *)
(***************************************************************************)
Passed == {t \in DOMAIN builds : builds[t].at = "passed"}
Ticketed == stage \in {"build", "rest"}
Planned == IF Ticketed THEN DOMAIN docs.plan ELSE {}

\* A ticket that counts as passed was tested for every criterion its story
\* has now, after any changes to the story (ac_ids of _run_ticket, step 5 of
\* apply_change_request).
CurrentCriteriaTested ==
    \A t \in Passed : Story(docs.prd, tickets[t].story).acs \subseteq builds[t].tested

\* The tickets are the approved scope: one per planned WBS item, for every
\* story of the MVP, and none for a story that was cut.
ScopeIsTicketed ==
    Ticketed =>
      LET stories == {tickets[t].story : t \in Planned} IN
      /\ \A t \in Planned : /\ tickets[t].item = docs.plan[t]
                            /\ tickets[t].story = Item(docs.plan[t]).story
      /\ {tickets[t].item : t \in Planned} = Listed(docs.wbs.items, "id")
      /\ stories = MvpIds /\ stories \cap docs.backlog.cut = {}

\* The developer of a ticket is given a part of the design: some component
\* of the approved architecture, and only such as serve its story.
SlicesFit ==
    \A t \in Planned :
      /\ tickets[t].components # {}
      /\ \A c \in ToSet(docs.arch) :
           c.name \in tickets[t].components => tickets[t].story \in c.stories

\* "The agent can only exclude a finding by explicitly marking it
\* false_positive with a reason" (agents/security.py): what a ticket brings to
\* main of the flaws that block, as far as the built-in scanner knows them and
\* the developer wrote them, was dismissed, in whatever attempt they came in.
DismissedInWriting ==
    \A t \in Passed : builds[t].open \cap Blocking \cap BuiltIn \subseteq QaFlaws

(***************************************************************************)
(* Statements of the code's comments that the code does not keep.          *)
(***************************************************************************)
\* "(and UI component specs, if a design stage ran) relevant to the ticket's
\* story attached" (orchestrator.py:990): not by a change request.
DesignSurvivesChange ==
    \A t \in Passed \cap Planned : tickets[t].design = DesignFor(tickets[t].story)

\* The checks of the PRD hold of the PRD in the store: not after a change.
PrdStaysValid == Ticketed => PrdAccepted(docs.prd)

\* "Dev -> Security -> Review -> QA" (config.py:30): the files of the QA agent
\* reach main without the scan.
CommittedWasScanned ==
    \A t \in Passed : builds[t].open \cap Blocking \cap BuiltIn = {}

\* "re-run only the blast radius": also tickets no plan has any more.
OnlyPlannedRerun == changing => ToSet(queue) \subseteq Planned
=============================================================================
