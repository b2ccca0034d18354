--------------------------- MODULE DocumentChecks ---------------------------
(***************************************************************************)
(* The content checks of pm_system/orchestrator/validation.py that decide  *)
(* which agent outputs the orchestrator accepts.  A check of the code      *)
(* returns a list of defects; an operator here is TRUE where that list is  *)
(* empty.  Documents are reduced to what the checks and the derivation of  *)
(* tickets read: ids and the references between them.  Ids that nothing    *)
(* refers to (risks, ADRs) are left out, and so is a criterion that one    *)
(* story lists twice.                                                      *)
(*                                                                         *)
(*   prd      list of stories [id, acs], acs a set of criteria             *)
(*   backlog  [ranked, ties, mvp, cut]: ranking, equal priorities?, MVP    *)
(*            list, set of cut stories                                     *)
(*   wbs      [items, sums]: list of [id, story]; do estimates add up and  *)
(*            lie in their ranges?                                         *)
(*   plan     the WBS ids in the order of sprints and dependencies         *)
(*   arch     list of components [name, stories]                           *)
(*   ux       list of flows [id, stories]                                  *)
(*   ui       [components, colors]: list of [name, flows]; any color?      *)
(***************************************************************************)
EXTENDS Naturals, Sequences, SequencesExt

Column(list, field) == [i \in DOMAIN list |-> list[i][field]]
Listed(list, field) == ToSet(Column(list, field))
Unique(list, field) == IsInjective(Column(list, field))

\* The references of all elements of a list.
Referenced(list, field) == UNION Listed(list, field)

PrdAccepted(prd) ==
    /\ Unique(prd, "id")
    /\ \A i, j \in DOMAIN prd : i # j => prd[i].acs \cap prd[j].acs = {}

\* Mutant: the overlap of MVP and cut list.
BacklogKeepsCut(b, storyIds) ==
    /\ IsInjective(b.ranked) /\ ToSet(b.ranked) = storyIds
    /\ ~ b.ties
    /\ IsInjective(b.mvp) /\ ToSet(b.mvp) \subseteq storyIds
    /\ b.cut \subseteq storyIds

BacklogAccepted(b, storyIds) ==
    /\ IsInjective(b.ranked) /\ ToSet(b.ranked) = storyIds
    /\ ~ b.ties
    /\ IsInjective(b.mvp) /\ ToSet(b.mvp) \subseteq storyIds
    /\ b.cut \cap ToSet(b.mvp) = {}
    /\ b.cut \subseteq storyIds

WbsAccepted(w, mvpIds) ==
    /\ Unique(w.items, "id")
    /\ Listed(w.items, "story") = mvpIds
    /\ w.sums

\* validate_sprint_plan, as far as the set of planned items goes; SprintPlan
\* has its sprints, capacity and dependencies.
PlanAccepted(plan, items) ==
    IsInjective(plan) /\ ToSet(plan) = Listed(items, "id")

\* Mutant: MVP stories the design does not cover.
ArchMissesStories(arch, mvpIds) ==
    /\ Referenced(arch, "stories") \subseteq mvpIds
    /\ Unique(arch, "name")

ArchAccepted(arch, mvpIds) ==
    /\ Referenced(arch, "stories") = mvpIds
    /\ Unique(arch, "name")

UxAccepted(ux, mvpIds) ==
    /\ Unique(ux, "id")
    /\ Referenced(ux, "stories") = mvpIds

UiAccepted(ui, flowIds) ==
    /\ Unique(ui.components, "name")
    /\ Referenced(ui.components, "flows") \subseteq flowIds
    /\ ui.colors

\* A developer's output: [ticket, safe, tested, twice, flaws].
DevAccepted(out, ticketId) ==
    out.ticket = ticketId /\ out.safe /\ out.tested /\ ~ out.twice

\* The security agent's triage: a list of [finding, status, reason].
\* Mutant: findings without an entry.
TriageMissesFindings(triage, findings) ==
    /\ Listed(triage, "finding") \subseteq findings
    /\ Unique(triage, "finding")
    /\ \A e \in ToSet(triage) : e.status = "false_positive" => e.reason

TriageAccepted(triage, findings) ==
    /\ Listed(triage, "finding") = findings
    /\ Unique(triage, "finding")
    /\ \A e \in ToSet(triage) : e.status = "false_positive" => e.reason

\* A review: [verdict, worst], the worst severity of its comments.
ReviewAccepted(review) ==
    /\ review.worst = "blocker" => review.verdict = "block"
    /\ review.verdict = "block" => review.worst \in {"major", "blocker"}

\* The QA agent's output: [ticket, plan, safe, flaws], plan the criteria it tests.
QaAccepted(out, ticketId, acs) ==
    /\ out.ticket = ticketId
    /\ acs \subseteq out.plan
    /\ out.safe
=============================================================================
