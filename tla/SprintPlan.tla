----------------------------- MODULE SprintPlan -----------------------------
(***************************************************************************)
(* From the planner's answer to the build order: validate_sprint_plan with *)
(* the Kahn loop of _has_cycle and topological_order of pm_system/         *)
(* orchestrator/validation.py, _derive_tickets and _dependency_waves of    *)
(* orchestrator.py.  The answer is any small plan, well formed or not.     *)
(* ready.pop() takes the last of a list filled in the iteration order of a *)
(* set of strings: here it takes any.                                      *)
(***************************************************************************)
EXTENDS Naturals, Sequences, SequencesExt, FiniteSets, FiniteSetsExt

CONSTANTS
    Known,        \* the ids of the WBS items
    Unknown,      \* other ids a planner may name
    Points,       \* id -> estimate_points, 0 for an unknown one
    Capacity,     \* OrchestratorConfig.sprint_capacity_points
    Numberings,   \* the sprint numbers a planner may give
    MaxPerSprint, \* bound: items listed in one sprint
    MaxDeps       \* bound: dependencies of a plan

ASSUME PlanAssumption ==
    /\ Known \cap Unknown = {}
    /\ Points \in [Known \cup Unknown -> Nat]
    /\ \A w \in Unknown : Points[w] = 0
    /\ Numberings \subseteq Seq(Nat)
    /\ IsFiniteSet(Known)
    /\ {MaxPerSprint, MaxDeps} \subseteq Nat

Ids == Known \cup Unknown

VARIABLES
    pc,         \* the step the plan is at
    numbers,    \* the number of each sprint
    sprints,    \* the wbs_ids of each sprint
    deps,       \* dependencies: <<from, to>>, from depends on to
    incoming,   \* _has_cycle: the blockers of each item not yet processed
    ready,      \* _has_cycle: the items without blockers
    processed,  \* _has_cycle: how many items were processed
    sprint,     \* _derive_tickets: the sprint it is at
    ordered,    \* topological_order: what is in order already
    remaining,  \* topological_order: what is not
    tickets     \* the WBS id of each ticket, in derivation order

plan == <<numbers, sprints, deps>>
kahn == <<incoming, ready, processed>>
sorting == <<sprint, ordered, remaining, tickets>>
vars == <<pc, plan, kahn, sorting>>

TypeOK ==
    /\ pc \in {"kahn", "judge", "sort", "derived", "refused"}
    /\ numbers \in Numberings
    /\ sprints \in Seq(Seq(Ids))
    /\ deps \subseteq Ids \X Ids
    /\ incoming \in [Known -> SUBSET Known]
    /\ ready \subseteq Known
    /\ processed \in 0..Cardinality(Known)
    /\ sprint \in 1..Len(sprints) + 1
    /\ ordered \in Seq(Known) /\ remaining \in Seq(Known)
    /\ tickets \in Seq(Known)

\* The other items of nodes that x depends on.
BlockersAmong(nodes, x) == {y \in nodes : <<x, y>> \in deps /\ x # y}

Init ==
    /\ numbers \in Numberings
    /\ sprints \in [DOMAIN numbers -> SeqOf(Ids, MaxPerSprint)]
    /\ deps \in UNION {kSubset(k, Ids \X Ids) : k \in 0..MaxDeps}
    /\ pc = "kahn"
    /\ incoming = [x \in Known |-> BlockersAmong(Known, x)]
    /\ ready = {x \in Known : incoming[x] = {}}
    /\ processed = 0
    /\ sprint = 1 /\ ordered = <<>> /\ remaining = <<>>
    /\ tickets = <<>>

-----------------------------------------------------------------------------
(* validate_sprint_plan                                                    *)

\* Mutant of Pop: its dependents are queued although another blocker is left.
PopFreesAll(x) ==
    /\ pc = "kahn" /\ x \in ready
    /\ processed' = processed + 1
    /\ incoming' = [y \in Known |-> IF x \in incoming[y] THEN {} ELSE incoming[y]]
    /\ ready' = (ready \ {x}) \cup {y \in Known : x \in incoming[y]}
    /\ UNCHANGED <<pc, plan, sorting>>

\* One round of the while loop of _has_cycle.
Pop(x) ==
    /\ pc = "kahn" /\ x \in ready
    /\ processed' = processed + 1
    /\ incoming' = [y \in Known |-> incoming[y] \ {x}]
    /\ ready' = (ready \ {x}) \cup {y \in Known : incoming[y] = {x}}
    /\ UNCHANGED <<pc, plan, sorting>>

\* processed != len(nodes)
HasCycle == processed # Cardinality(Known)

CycleChecked ==
    /\ pc = "kahn" /\ ready = {}
    /\ pc' = "judge"
    /\ UNCHANGED <<plan, kahn, sorting>>

Scheduled == UNION {ToSet(sprints[i]) : i \in DOMAIN sprints}

\* scheduled[w]: the number of the last sprint that lists w.
SprintOf(w) ==
    LET i == CHOOSE i \in DOMAIN sprints :
                 /\ w \in ToSet(sprints[i])
                 /\ \A j \in DOMAIN sprints : w \in ToSet(sprints[j]) => j <= i
    IN  numbers[i]

ScheduledOnce ==
    \A i, j \in DOMAIN sprints :
        \A k \in DOMAIN sprints[i], m \in DOMAIN sprints[j] :
            sprints[i][k] = sprints[j][m] => i = j /\ k = m

Load(i) == MapThenSumSet(LAMBDA k : Points[sprints[i][k]], DOMAIN sprints[i])

\* Mutant of Acceptable: the order of the sprints is not looked at.
AnyOrderAcceptable ==
    /\ numbers = [i \in DOMAIN sprints |-> i]
    /\ ScheduledOnce /\ Scheduled = Known
    /\ \A i \in DOMAIN sprints : Load(i) <= Capacity
    /\ deps \subseteq Known \X Known
    /\ \A d \in deps : d[1] # d[2]
    /\ ~ HasCycle

\* validate_sprint_plan finds no defect.
Acceptable ==
    /\ numbers = [i \in DOMAIN sprints |-> i]
    /\ ScheduledOnce /\ Scheduled = Known
    /\ \A i \in DOMAIN sprints : Load(i) <= Capacity
    /\ deps \subseteq Known \X Known
    /\ \A d \in deps : d[1] # d[2]
    /\ \A d \in deps : {d[1], d[2]} \subseteq Scheduled =>
            SprintOf(d[2]) <= SprintOf(d[1])
    /\ ~ HasCycle

\* A plan with a defect goes back to the planner; the other is the PLAN the
\* tickets are derived from, none where there is no sprint.
Judge ==
    /\ pc = "judge"
    /\ pc' = IF ~ Acceptable THEN "refused"
             ELSE IF sprints = <<>> THEN "derived" ELSE "sort"
    /\ remaining' = IF Acceptable /\ sprints # <<>> THEN sprints[1] ELSE <<>>
    /\ UNCHANGED <<plan, kahn, sprint, ordered, tickets>>

-----------------------------------------------------------------------------
(* _derive_tickets and topological_order                                   *)

\* [n for n in s if n in S]: SelectSeq, as a function of the place in the result.
Kept(s, S) ==
    LET places == {i \in DOMAIN s : s[i] \in S}
        Rank(i) == Cardinality({j \in places : j <= i})
    IN  [k \in 1..Cardinality(places) |-> s[CHOOSE i \in places : Rank(i) = k]]

\* The remaining items of the sprint whose blockers in it are in order.
Progress ==
    {n \in ToSet(remaining) :
        BlockersAmong(ToSet(sprints[sprint]), n) \subseteq ToSet(ordered)}

\* Mutant of SortRound: the round's items stay among the remaining ones.
SortRoundAgain ==
    /\ pc = "sort" /\ remaining # <<>> /\ Progress # {}
    /\ ordered' = ordered \o Kept(remaining, Progress \ ToSet(ordered))
    /\ UNCHANGED <<pc, plan, kahn, sprint, remaining, tickets>>

\* One round of topological_order: everything that can come next does, in the
\* planner's order; without progress the rest is kept as it is.
SortRound ==
    /\ pc = "sort" /\ remaining # <<>>
    /\ LET next == IF Progress = {} THEN ToSet(remaining) ELSE Progress
       IN  /\ ordered' = ordered \o Kept(remaining, next)
           /\ remaining' = Kept(remaining, ToSet(remaining) \ next)
    /\ UNCHANGED <<pc, plan, kahn, sprint, tickets>>

\* The sprint is in order: its tickets follow those of the earlier sprints.
SprintSorted ==
    /\ pc = "sort" /\ remaining = <<>>
    /\ tickets' = tickets \o ordered
    /\ ordered' = <<>>
    /\ sprint' = sprint + 1
    /\ remaining' = IF sprint < Len(sprints) THEN sprints[sprint + 1] ELSE <<>>
    /\ pc' = IF sprint < Len(sprints) THEN "sort" ELSE "derived"
    /\ UNCHANGED <<plan, kahn>>

Next ==
    \/ \E x \in Known : Pop(x)
    \/ CycleChecked \/ Judge \/ SortRound \/ SprintSorted

Spec == Init /\ [][Next]_vars /\ WF_vars(Next)

-----------------------------------------------------------------------------
(* _dependency_waves, a function of the derived tickets and the PLAN       *)

\* Mutant of Level: a blocker does not lift its dependent.
FlatLevel == [p \in Known \X SUBSET Known |-> 0]

\* compute(node, seen): 0 for a node met on the way to itself, else one more
\* than the highest of its blockers.
Level ==
    LET compute[p \in Known \X SUBSET Known] ==
            LET node == p[1]
                seen == p[2]
                blockers == {y \in ToSet(tickets) : <<node, y>> \in deps}
            IN  IF node \in seen THEN 0
                ELSE Max({0} \cup {compute[<<b, seen \cup {node}>>] + 1 : b \in blockers})
    IN  compute

\* The wave a ticket is built in.
WaveOf(x) == Level[<<x, {}>>]

-----------------------------------------------------------------------------
\* A set of items each of which waits for another one of the set.
Knot(S) == S # {} /\ \A x \in S : BlockersAmong(S, x) # {}

\* Kahn's loop, whatever it pops first, reports a cycle exactly where some
\* items wait for each other, self-dependencies left aside.
CycleVerdictExact ==
    pc = "judge" => (HasCycle <=> \E S \in SUBSET Known : Knot(S))

\* "x depends on y", through any number of dependencies: every set that holds
\* what x depends on and is closed under dependencies holds y.
DependsOn(x, y) ==
    \A S \in SUBSET Known :
        (\A d \in deps : d[1] \in S \cup {x} => d[2] \in S) => y \in S

Position(x) == CHOOSE i \in DOMAIN tickets : tickets[i] = x

\* An accepted plan yields each WBS item's ticket exactly once, and the
\* sequential build reaches a ticket after everything it depends on, also
\* through items of other sprints, which topological_order never sees.
TicketsInDependencyOrder ==
    pc = "derived" =>
        /\ Len(tickets) = Cardinality(Known) /\ ToSet(tickets) = Known
        /\ \A x, y \in Known : DependsOn(x, y) => Position(y) < Position(x)

\* "Tickets in the same wave have no dependency between them", and a ticket's
\* wave comes after the waves of all it depends on; the waves have no gap.
WavesSeparateDependents ==
    pc = "derived" =>
        /\ \A x, y \in Known : DependsOn(x, y) => WaveOf(y) < WaveOf(x)
        /\ \A x \in Known : \A k \in 0..WaveOf(x) : \E y \in Known : WaveOf(y) = k

\* Every plan is refused or turned into tickets: no loop runs for ever.
PlanSettles == <>(pc \in {"derived", "refused"})
=============================================================================
